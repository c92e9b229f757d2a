------------------------- MODULE RteDeliveryProofs -------------------------
(***************************************************************************)
(* The safety properties of RteDelivery for any number of app nodes,       *)
(* sockets, output items and events.                                       *)
(*                                                                         *)
(* OneProcess depends on the RTE alone: whatever the nodes send it, and    *)
(* however often, its own entry of the job says whether a process runs.    *)
(*                                                                         *)
(* The others need what is on its way. Every step is of one of a few kinds *)
(* (StepKinds): quiet ones, which leave the RTE alone and add nothing to   *)
(* what it sent; a message read by the app; a socket dialed; a step of the *)
(* RTE. StructInv says which runs the lines, the spool and the messages    *)
(* are of; DeliveryInv that the items come in order on a socket that is    *)
(* read, each after all before it that are not stored; WholeInv that the   *)
(* end comes after the output everywhere; CancelInv that a hand-over and a *)
(* noted cancel of the same node never pass each other.                    *)
(***************************************************************************)
EXTENDS RteDelivery, SequenceTheorems, TLAPS

\* The fields of an entry of the RTE's jobs, whatever they hold.
HasFields(e) ==
  DOMAIN e = {"known", "running", "spawned", "abort", "base", "wrote", "items", "acked", "next",
              "early", "welcomed", "procs"}

\* One process when the entry says it was started, none when it does not ; only a job that runs
\* has one, and onRun starts only a job that does not run.
Counts(e) ==
  /\ HasFields(e)
  /\ e.procs = IF e.spawned = TRUE THEN 1 ELSE 0
  /\ e.spawned = TRUE => e.running = TRUE

ProcessInv == Counts(rte)

-----------------------------------------------------------------------------
\* What pump sends changes nothing but the next item to send.
LEMMA SendingCounts ==
  ASSUME NEW ss, NEW e, NEW messages, RteSends(ss, e, messages), Counts(e)
  PROVE  ProcessInv'
  <1>1. CASE Pumps(e)
    <2>1. rte' = [e EXCEPT !.next = PumpTo(e) + 1]
      BY <1>1 DEF RteSends
    <2>. QED
      BY <2>1 DEF ProcessInv, Counts, HasFields
  <1>2. CASE ~Pumps(e)
    <2>1. rte' = e
      BY <1>2 DEF RteSends
    <2>. QED
      BY <2>1 DEF ProcessInv, Counts, HasFields
  <1>. QED
    BY <1>1, <1>2

\* A run that is over has no process left, once the exit is counted.
LEMMA RunOverCounts ==
  ASSUME NEW e, Counts(e), NEW outcome
  PROVE  /\ HasFields(RunOver(e, outcome))
         /\ RunOver(e, outcome).procs = e.procs
         /\ RunOver(e, outcome).spawned = FALSE
         /\ RunOver(e, outcome).running = FALSE
  <1>. DEFINE i == Spooled(e, "end", hist.runs, 0, outcome)
  <1>1. HasFields(i) /\ i.procs = e.procs
    BY DEF Spooled, Counts, HasFields
  <1>2. RunOver(e, outcome) =
          [i EXCEPT !.running = FALSE, !.spawned = FALSE, !.abort = FALSE, !.base = 0, !.wrote = 0]
    BY DEF RunOver
  <1>. HIDE DEF i
  <1>. QED
    BY <1>1, <1>2 DEF HasFields

\* An item more in the spool.
LEMMA SpooledCounts ==
  ASSUME NEW e, Counts(e), NEW kind, NEW run, NEW order, NEW outcome
  PROVE  /\ Counts(Spooled(e, kind, run, order, outcome))
         /\ Spooled(e, kind, run, order, outcome).procs = e.procs
         /\ Spooled(e, kind, run, order, outcome).spawned = e.spawned
         /\ Spooled(e, kind, run, order, outcome).running = e.running
  BY DEF Spooled, Counts, HasFields

\* The RTE starts with no process.
LEMMA ProcessInit == Init => ProcessInv
  BY DEF Init, NoEntry, ProcessInv, Counts, HasFields

\* No step, of the RTE or of another, makes a second process.
LEMMA ProcessNext == ProcessInv /\ [Next]_vars => ProcessInv'
  <1>. SUFFICES ASSUME ProcessInv, [Next]_vars
                PROVE  ProcessInv'
    OBVIOUS
  <1>0. Counts(rte) /\ HasFields(rte)
    BY DEF ProcessInv, Counts
  <1>1. CASE UNCHANGED rte
    BY <1>1 DEF ProcessInv, Counts, HasFields
  <1>2. CASE RteLosesSocket
    BY <1>2 DEF RteLosesSocket, ProcessInv, Counts, HasFields
  <1>3. CASE OnWelcome
    <2>. DEFINE e == Rewound([rte EXCEPT !.welcomed = TRUE])
    <2>1. Counts(e)
      BY <1>0 DEF Rewound, Counts, HasFields
    <2>2. RteSends(Read(cur), e, <<>>)
      BY <1>3 DEF OnWelcome
    <2>. QED
      BY <2>1, <2>2, SendingCounts
  <1>4. CASE OnRun
    <2>1. rte' = rte \/ (~rte.running /\ rte' = Taken(rte, Head(sess[cur].down).last))
      BY <1>4 DEF OnRun, RunsIt
    <2>. QED
      BY <1>0, <1>1, <2>1 DEF Taken, ProcessInv, Counts, HasFields
  <1>5. CASE OnCancel
    BY <1>5 DEF OnCancel, ProcessInv, Counts, HasFields
  <1>6. CASE ExpireCancel
    BY <1>6 DEF ExpireCancel, ProcessInv, Counts, HasFields
  <1>7. CASE OnAck
    <2>. DEFINE e == AckedTo(rte, Head(sess[cur].down).seq)
    <2>1. Counts(e)
      <3>. DEFINE seq == Head(sess[cur].down).seq
                  acked == IF seq <= rte.acked THEN rte.acked
                           ELSE IF seq < Len(rte.items) THEN seq ELSE Len(rte.items)
                  next == IF rte.next <= acked THEN acked + 1 ELSE rte.next
      <3>1. e = [rte EXCEPT !.acked = acked, !.next = next]
        BY <1>0 DEF AckedTo, HasFields
      <3>. HIDE DEF acked, next
      <3>2. Counts([rte EXCEPT !.acked = acked, !.next = next])
        BY <1>0 DEF Counts, HasFields
      <3>. QED
        BY <3>1, <3>2
    <2>2. \/ rte' = rte
          \/ rte' = Removed(e) /\ ~e.running
          \/ RteSends(Read(cur), e, <<>>)
      BY <1>7 DEF OnAck
    <2>3. CASE rte' = Removed(e) /\ ~e.running
      BY <2>1, <2>3 DEF Removed, NoEntry, ProcessInv, Counts, HasFields
    <2>. QED
      BY <1>1, <2>1, <2>2, <2>3, SendingCounts
  <1>8. CASE Started
    <2>. DEFINE i == Spooled(rte, "started", hist.runs, 0, "none")
                e == [i EXCEPT !.spawned = TRUE, !.procs = @ + 1]
    <2>0. rte.procs = 0 /\ rte.running = TRUE
      BY <1>0, <1>8 DEF Started, Counts
    <2>1. Counts(i) /\ i.procs = 0 /\ i.running = TRUE
      BY <1>0, <2>0, SpooledCounts
    <2>2. Counts(e)
      <3>. HIDE DEF i
      <3>. QED
        BY <2>1 DEF Counts, HasFields
    <2>3. RteSends(sess, e, <<>>)
      BY <1>8 DEF Started
    <2>. QED
      BY <2>2, <2>3, SendingCounts
  <1>9. CASE Write
    <2>. DEFINE i == Spooled(rte, "output", hist.runs, rte.base + rte.wrote + 1, "none")
                e == [i EXCEPT !.wrote = @ + 1]
    <2>1. Counts(i)
      BY <1>0, SpooledCounts
    <2>2. Counts(e)
      BY <2>1 DEF Counts, HasFields
    <2>3. RteSends(sess, e, <<>>)
      BY <1>9 DEF Write
    <2>. QED
      BY <2>2, <2>3, SendingCounts
  <1>10. CASE RunEnds
    <2>1. PICK outcome : RteSends(sess, [RunOver(rte, outcome) EXCEPT !.procs = @ - 1], <<>>)
      BY <1>10 DEF RunEnds
    <2>2. rte.procs = 1
      BY <1>0, <1>10 DEF RunEnds, Counts
    <2>. DEFINE i == RunOver(rte, outcome)
                e == [i EXCEPT !.procs = @ - 1]
    <2>3. HasFields(i) /\ i.procs = 1 /\ i.spawned = FALSE /\ i.running = FALSE
      BY <1>0, <2>2, RunOverCounts
    <2>4. Counts(e)
      <3>. HIDE DEF i
      <3>. QED
        BY <2>3 DEF Counts, HasFields
    <2>. QED
      BY <2>1, <2>4, SendingCounts
  <1>11. CASE StartFails
    <2>1. RteSends(sess, RunOver(rte, "failed"), <<>>) /\ rte.procs = 0
      BY <1>0, <1>11 DEF StartFails, Counts
    <2>2. Counts(RunOver(rte, "failed"))
      BY <1>0, <2>1, RunOverCounts DEF Counts
    <2>. QED
      BY <2>1, <2>2, SendingCounts
  <1>12. CASE RteRestarts
    <2>. DEFINE left == [NoEntry EXCEPT !.known = TRUE, !.items = rte.items, !.acked = rte.acked,
                                        !.next = rte.acked + 1]
    <2>1. Counts(NoEntry)
      BY DEF NoEntry, Counts, HasFields
    <2>2. Counts(left)
      BY DEF NoEntry, Counts, HasFields
    <2>3. Counts(Spooled(left, "abandon", 0, 0, "none"))
      BY <2>2, SpooledCounts
    <2>4. rte' \in {NoEntry, left, Spooled(left, "abandon", 0, 0, "none")}
      BY <1>12 DEF RteRestarts, Reloaded
    <2>. QED
      BY <2>1, <2>2, <2>3, <2>4 DEF ProcessInv
  <1>13. CASE \E n \in AppNode : App(n) \/ RteDials(n)
    <2>. SUFFICES ASSUME NEW n \in AppNode, App(n) \/ RteDials(n)
                  PROVE  rte' = rte
      BY <1>1, <1>13
    <2>1. CASE Launch(n) \/ Announce(n) \/ Dispatch(n) \/ AbortWhileWaiting(n)
      BY <2>1 DEF Launch, Announce, Dispatch, AbortWhileWaiting, HandMoves
    <2>2. CASE HandOver(n)
      BY <2>2 DEF HandOver, HandMoves
    <2>3. CASE Say(n) \/ ClaimTimeout(n) \/ GiveBack(n) \/ FailJob(n)
      BY <2>3 DEF Say, ClaimTimeout, GiveBack, FailJob, HandMoves
    <2>4. CASE RequestAbort(n) \/ DispatchCancel(n) \/ RteDials(n)
      BY <2>4 DEF RequestAbort, DispatchCancel, RteDials
    <2>5. CASE Crash(n) \/ Start(n) \/ Sweep(n)
      BY <2>5 DEF Crash, Start, Sweep
    <2>. QED
      BY <2>1, <2>2, <2>3, <2>4, <2>5 DEF App
  <1>14. CASE \E s \in Conn : Hub(s)
    BY <1>1, <1>14 DEF Hub, Welcome, Settle, SessionCloses, OnClaimed, OnRefused, HandMoves, OnItem,
       StoreFails
  <1>15. CASE TrackSocket \/ Away \/ UNCHANGED vars
    BY <1>1, <1>15 DEF TrackSocket, Away, vars
  <1>. QED
    BY <1>2, <1>3, <1>4, <1>5, <1>6, <1>7, <1>8, <1>9, <1>10, <1>11, <1>12, <1>13, <1>14, <1>15
    DEF Next, RteStep

\* A job's playbook never runs twice at the same time, whatever is lost, repeated or restarted, on
\* any number of nodes: onRun starts a job only when it does not run, and the process and the flag
\* change together.
THEOREM OneProcessAlways == Spec => []OneProcess
  <1>1. ProcessInv => OneProcess
    BY DEF ProcessInv, Counts, OneProcess
  <1>. QED
    BY ProcessInit, ProcessNext, <1>1, PTL DEF Spec
-----------------------------------------------------------------------------
(* What the statements do to the job's row                                 *)

\* A job that is not running never runs again, one that is there stays, a success is not taken back
\* to, and the flag of an abort goes only with the job.
Moves(r, s) ==
  /\ s \in Row
  /\ s.status = "running" => r.status = "running"
  /\ s.status = "absent" <=> r.status = "absent"
  /\ s.abort_requested => r.abort_requested
  /\ r.abort_requested => s.abort_requested \/ s.status # "running"

\* A row left alone moves as a row may.
LEMMA StayingMoves == \A r \in Row : Moves(r, r)
  BY DEF Moves

\* Naming another host does not touch the status.
LEMMA HostMoves ==
  ASSUME NEW r \in Row, NEW h \in Node \cup {NoNode}
  PROVE  /\ Moves(r, [r EXCEPT !.host = h])
         /\ [r EXCEPT !.host = h].status = r.status
  BY DEF Moves, Row

\* An end is written over a job that may end, and over no other.
LEMMA EndMoves ==
  ASSUME NEW r \in Row, NEW o \in Outcome
  PROVE  /\ Moves(r, EndRow(r, o))
         /\ EndRow(r, o).status # "running"
         /\ EndRow(r, o).status \in {r.status, o}
  <1>1. o \in TERMINAL_STATUS /\ o \notin {"rejected", "running", "absent"} /\ o \in Status
    BY DEF Outcome, TERMINAL_STATUS, Status
  <1>2. CASE r.status \notin ENDS_FROM
    BY <1>2 DEF EndRow, TransitionStatus, Moves, ENDS_FROM
  <1>3. CASE r.status \in ENDS_FROM
    <2>1. EndRow(r, o) = [r EXCEPT !.status = o, !.end = TRUE, !.abort_requested = FALSE]
      BY <1>1, <1>3 DEF EndRow, TransitionStatus, Row
    <2>2. EndRow(r, o) \in Row
      BY <1>1, <2>1 DEF Row
    <2>3. EndRow(r, o).status = o /\ EndRow(r, o).abort_requested = FALSE
      BY <2>1 DEF Row
    <2>. QED
      BY <1>1, <1>3, <2>2, <2>3 DEF Moves, ENDS_FROM
  <1>. QED
    BY <1>2, <1>3

\* A job given up is no longer running, and its abort is answered.
LEMMA AbandonMoves ==
  ASSUME NEW r \in Row, r.status # "absent"
  PROVE  Moves(r, AbandonedRow(r)) /\ AbandonedRow(r).status = "abandoned"
  <1>1. "abandoned" \in Status
    BY DEF Status, TERMINAL_STATUS
  <1>2. AbandonedRow(r) \in Row /\ AbandonedRow(r).status = "abandoned"
        /\ AbandonedRow(r).abort_requested = FALSE
    BY <1>1 DEF AbandonedRow, Row
  <1>. QED
    BY <1>2 DEF Moves

\* The start of a node and the sweep give up jobs under way only.
LEMMA SweepMoves ==
  ASSUME NEW r \in Row
  PROVE  /\ \A n, u : Moves(r, AbandonOwnRow(r, n, u))
         /\ \A n, recent, kept : Moves(r, AbandonDeadRow(r, n, recent, kept))
         /\ \A n, u : AbandonOwnRow(r, n, u).status \in {r.status, "abandoned"}
         /\ \A n, recent, kept : AbandonDeadRow(r, n, recent, kept).status \in {r.status, "abandoned"}
  <1>1. UnderWay(r) => Moves(r, AbandonedRow(r)) /\ AbandonedRow(r).status = "abandoned"
    BY AbandonMoves DEF UnderWay
  <1>2. \A n, u : AbandonOwnRow(r, n, u) = r \/ (UnderWay(r) /\ AbandonOwnRow(r, n, u) = AbandonedRow(r))
    BY DEF AbandonOwnRow
  <1>3. \A n, recent, kept : \/ AbandonDeadRow(r, n, recent, kept) = r
                             \/ UnderWay(r) /\ AbandonDeadRow(r, n, recent, kept) = AbandonedRow(r)
    BY DEF AbandonDeadRow
  <1>. QED
    BY <1>1, <1>2, <1>3, StayingMoves

\* Giving a job up, and failing it, of a job that still runs.
LEMMA AbandonJobsMoves ==
  ASSUME NEW r \in Row
  PROVE  /\ Moves(r, AbandonJobs(r)) /\ AbandonJobs(r).status \in {r.status, "abandoned"}
         /\ AbandonJobs(r).status # "running"
  <1>1. CASE r.status = "running"
    <2>. DEFINE a == AbandonedRow(r)
    <2>1. Moves(r, a) /\ a.status = "abandoned" /\ a \in Row
      BY <1>1, AbandonMoves DEF Moves
    <2>2. AbandonJobs(r) = [a EXCEPT !.host = NoNode]
      BY <1>1 DEF AbandonJobs
    <2>. HIDE DEF a
    <2>. QED
      BY <1>1, <2>1, <2>2 DEF Moves, Row
  <1>. QED
    BY <1>1, StayingMoves DEF AbandonJobs

\* Failing a job ends it, when it still runs.
LEMMA FailMoves ==
  ASSUME NEW r \in Row
  PROVE  /\ Moves(r, FailRow(r)) /\ FailRow(r).status \in {r.status, "failed"}
  BY EndMoves, StayingMoves DEF FailRow, Outcome

\* What an item does to the row : only an end brings a success, and an end or an abandon ends a run.
LEMMA StoreMoves ==
  ASSUME NEW r \in Row, NEW i \in Item
  PROVE  /\ Moves(r, StoreRow(r, i))
         /\ StoreRow(r, i).status = "success" => r.status = "success" \/ i.kind = "end"
         /\ i.kind \in {"end", "abandon"} => StoreRow(r, i).status # "running"
  <1>1. CASE i.kind = "started"
    BY <1>1, HostMoves, RteAssumption DEF StoreRow
  <1>2. CASE i.kind = "output"
    BY <1>2, StayingMoves DEF StoreRow
  <1>3. CASE i.kind = "end"
    <2>. DEFINE e == EndRow(r, i.outcome)
    <2>1. i.outcome \in Outcome
      BY <1>3 DEF Item
    <2>2. Moves(r, e) /\ e.status # "running" /\ e \in Row
      BY <2>1, EndMoves DEF Moves
    <2>3. StoreRow(r, i) = [e EXCEPT !.host = NoNode]
      BY <1>3 DEF StoreRow
    <2>. HIDE DEF e
    <2>. QED
      BY <1>3, <2>2, <2>3 DEF Moves, Row
  <1>4. CASE i.kind = "abandon"
    BY <1>4, AbandonJobsMoves DEF StoreRow
  <1>. QED
    BY <1>1, <1>2, <1>3, <1>4 DEF Item
-----------------------------------------------------------------------------
(* What the two ends of a socket do to it                                  *)

\* The sockets, as a whole.
Sessions == [Conn -> Session]

\* The operators on the sockets give sockets.
LEMMA SocketTyping ==
  ASSUME NEW ss \in Sessions, NEW s \in Conn \cup {0}
  PROVE  /\ \A m \in DownMessage : Sent(ss, s, m) \in Sessions
         /\ Closing(ss, s) \in Sessions
         /\ Marked(ss, s) \in Sessions
         /\ \A n : Forgotten(ss, n) \in Sessions
  <1>1. ASSUME NEW v, s \in Conn => v \in Session
        PROVE  [ss EXCEPT ![s] = v] \in Sessions
    BY <1>1 DEF Sessions
  <1>2. \A m \in DownMessage : Sent(ss, s, m) \in Sessions
    <2>. SUFFICES ASSUME NEW m \in DownMessage PROVE Sent(ss, s, m) \in Sessions
      OBVIOUS
    <2>. DEFINE v == [ss[s] EXCEPT !.down = Append(@, m)]
    <2>1. s \in Conn => ss[s] \in Session /\ Append(ss[s].down, m) \in Seq(DownMessage)
      BY AppendProperties DEF Session, Sessions
    <2>2. s \in Conn => v \in Session
      BY <2>1 DEF Session
    <2>3. [ss EXCEPT ![s] = v] \in Sessions
      BY <1>1, <2>2
    <2>. QED
      BY <2>3 DEF Sent
  <1>3. Closing(ss, s) \in Sessions
    <2>. DEFINE v == [ss[s] EXCEPT !.hub = "closing"]
    <2>1. s \in Conn => v \in Session
      BY DEF Session, Sessions
    <2>2. [ss EXCEPT ![s] = v] \in Sessions
      BY <1>1, <2>1
    <2>. QED
      BY <2>2 DEF Closing
  <1>4. Marked(ss, s) \in Sessions
    <2>. DEFINE v == [ss[s] EXCEPT !.cancelled = TRUE]
    <2>1. s \in Conn => v \in Session
      BY DEF Session, Sessions
    <2>2. [ss EXCEPT ![s] = v] \in Sessions
      BY <1>1, <2>1
    <2>. QED
      BY <2>2 DEF Marked
  <1>5. \A n : Forgotten(ss, n) \in Sessions
    <2>1. \A t \in Conn : [ss[t] EXCEPT !.cancelled = FALSE] \in Session /\ ss[t] \in Session
      BY DEF Session, Sessions
    <2>. QED
      BY <2>1 DEF Forgotten, Sessions
  <1>. QED
    BY <1>2, <1>3, <1>4, <1>5

\* Reading the next message, in either direction.
LEMMA ReadTyping ==
  ASSUME sess \in Sessions, NEW s \in Conn
  PROVE  /\ sess[s].up # <<>> => Received(s) \in Sessions /\ Head(sess[s].up) \in UpMessage
         /\ sess[s].down # <<>> => Read(s) \in Sessions /\ Head(sess[s].down) \in DownMessage
  <1>0. sess[s] \in Session /\ sess[s].up \in Seq(UpMessage) /\ sess[s].down \in Seq(DownMessage)
    BY DEF Session, Sessions
  <1>1. ASSUME sess[s].up # <<>> PROVE Received(s) \in Sessions /\ Head(sess[s].up) \in UpMessage
    <2>1. Tail(sess[s].up) \in Seq(UpMessage) /\ Head(sess[s].up) \in UpMessage
      BY <1>0, <1>1, HeadTailProperties
    <2>2. [sess[s] EXCEPT !.up = Tail(@)] \in Session
      BY <1>0, <2>1 DEF Session
    <2>. QED
      BY <2>1, <2>2 DEF Received, Sessions
  <1>2. ASSUME sess[s].down # <<>> PROVE Read(s) \in Sessions /\ Head(sess[s].down) \in DownMessage
    <2>1. Tail(sess[s].down) \in Seq(DownMessage) /\ Head(sess[s].down) \in DownMessage
      BY <1>0, <1>2, HeadTailProperties
    <2>2. [sess[s] EXCEPT !.down = Tail(@)] \in Session
      BY <1>0, <2>1 DEF Session
    <2>. QED
      BY <2>1, <2>2 DEF Read, Sessions
  <1>. QED
    BY <1>1, <1>2

\* The messages by what they are.
LEMMA MessageTyping ==
  /\ \A m \in UpMessage : m.t = "item" => m \in [t : {"item"}, seq : Nat, item : Item]
  /\ \A m \in DownMessage : /\ m.t = "run" => m.last \in Nat
                            /\ m.t = "ack" => m.seq \in Nat
  /\ \A t \in {"claimed", "busy", "unfit"} : [t |-> t] \in UpMessage
  /\ \A t \in {"welcome", "cancel"} : [t |-> t] \in DownMessage
  /\ \A last \in Nat : [t |-> "run", last |-> last] \in DownMessage
  /\ \A seq \in Nat : [t |-> "ack", seq |-> seq] \in DownMessage
  /\ \A seq \in Nat, i \in Item : [t |-> "item", seq |-> seq, item |-> i] \in UpMessage
  BY DEF UpMessage, DownMessage

\* An item more in the spool, what pump sends of it, and the rest of a session.
LEMMA SpooledTyping ==
  ASSUME NEW e \in Entry, NEW i \in Item
  PROVE  Spooled(e, i.kind, i.run, i.order, i.outcome) = [e EXCEPT !.items = Append(@, i)]
         /\ Spooled(e, i.kind, i.run, i.order, i.outcome) \in Entry
  <1>1. [kind |-> i.kind, run |-> i.run, order |-> i.order, outcome |-> i.outcome] = i
    BY DEF Item
  <1>2. Append(e.items, i) \in Seq(Item)
    BY AppendProperties DEF Entry
  <1>. QED
    BY <1>1, <1>2 DEF Spooled, Entry

\* What pump sends of an entry.
Pumped(e) == IF ~Pumps(e) THEN <<>>
             ELSE [k \in 1..(PumpTo(e) - e.next + 1) |->
                     [t |-> "item", seq |-> e.next + k - 1, item |-> e.items[e.next + k - 1]]]

\* What pump may send is in the spool, and each of it is a message.
LEMMA PumpTyping ==
  ASSUME NEW e \in Entry
  PROVE  /\ PumpTo(e) \in Nat /\ PumpTo(e) <= Len(e.items)
         /\ Pumps(e) => PumpTo(e) - e.next + 1 \in Nat
         /\ Pumps(e) => \A k \in 1..(PumpTo(e) - e.next + 1) : e.next + k - 1 \in 1..Len(e.items)
         /\ Pumped(e) \in Seq(UpMessage)
         /\ Len(Pumped(e)) = IF Pumps(e) THEN PumpTo(e) - e.next + 1 ELSE 0
  <1>0. /\ e.acked \in Nat /\ e.next \in Nat \ {0} /\ e.items \in Seq(Item)
        /\ Len(e.items) \in Nat /\ Window \in Nat
    BY LenProperties, RteAssumption DEF Entry
  <1>1. PumpTo(e) \in Nat /\ PumpTo(e) <= Len(e.items)
    BY <1>0 DEF PumpTo
  <1>2. CASE ~Pumps(e)
    BY <1>1, <1>2, EmptySeq DEF Pumped
  <1>3. CASE Pumps(e)
    <2>. DEFINE n == PumpTo(e) - e.next + 1
                m(k) == [t |-> "item", seq |-> e.next + k - 1, item |-> e.items[e.next + k - 1]]
    <2>1. n \in Nat /\ \A k \in 1..n : e.next + k - 1 \in 1..Len(e.items)
      <3>1. e.next <= PumpTo(e)
        BY <1>3 DEF Pumps
      <3>2. ASSUME NEW p \in Nat, NEW x \in Nat \ {0}, NEW len \in Nat, x <= p, p <= len
            PROVE  p - x + 1 \in Nat /\ \A k \in 1..(p - x + 1) : x + k - 1 \in 1..len
        BY <3>2
      <3>. QED
        BY <1>0, <1>1, <3>1, <3>2
    <2>2. \A k \in 1..n : m(k) \in UpMessage
      <3>. SUFFICES ASSUME NEW k \in 1..n PROVE m(k) \in UpMessage
        OBVIOUS
      <3>1. e.items[e.next + k - 1] \in Item
        BY <1>0, <2>1, ElementOfSeq
      <3>2. e.next + k - 1 \in Nat
        BY <2>1
      <3>. QED
        BY <3>1, <3>2, MessageTyping
    <2>3. Pumped(e) = [k \in 1..n |-> m(k)]
      BY <1>3 DEF Pumped
    <2>. HIDE DEF m, n
    <2>4. [k \in 1..n |-> m(k)] \in [1..n -> UpMessage]
      BY <2>2
    <2>5. [k \in 1..n |-> m(k)] \in Seq(UpMessage) /\ Len([k \in 1..n |-> m(k)]) = n
      BY <2>1, <2>4, SeqDef, LenProperties
    <2>. QED
      BY <1>1, <1>3, <2>1, <2>3, <2>5 DEF n
  <1>. QED
    BY <1>2, <1>3

\* The RTE that sends leaves an entry and sockets.
LEMMA SendsTyping ==
  ASSUME NEW ss \in Sessions, NEW e \in Entry, cur \in Conn \cup {0}, RteSends(ss, e, <<>>)
  PROVE  /\ rte' \in Entry /\ sess' \in Sessions
         /\ \E n \in Nat \ {0} : rte' = [e EXCEPT !.next = n]
         /\ rte' = IF Pumps(e) THEN [e EXCEPT !.next = PumpTo(e) + 1] ELSE e
         /\ sess' = IF cur = 0 \/ ss[cur].hub = "closed" THEN ss
                    ELSE [ss EXCEPT ![cur].up = @ \o Pumped(e)]
  <1>1. rte' = IF Pumps(e) THEN [e EXCEPT !.next = PumpTo(e) + 1] ELSE e
    BY DEF RteSends
  <1>2. e = [e EXCEPT !.next = e.next] /\ e.next \in Nat \ {0} /\ PumpTo(e) + 1 \in Nat \ {0}
    BY PumpTyping DEF Entry
  <1>3. \E n \in Nat \ {0} : rte' = [e EXCEPT !.next = n]
    BY <1>1, <1>2
  <1>4. rte' \in Entry
    BY <1>3 DEF Entry
  <1>5. cur # 0 => ss[cur].up \in Seq(UpMessage)
    BY DEF Sessions, Session
  <1>6. sess' = IF cur = 0 \/ ss[cur].hub = "closed" THEN ss
                ELSE [ss EXCEPT ![cur].up = @ \o <<>> \o Pumped(e)]
    BY DEF RteSends, Pumped
  <1>7. cur # 0 => ss[cur].up \o <<>> = ss[cur].up
    BY <1>5, ConcatEmptySeq
  <1>8. sess' = IF cur = 0 \/ ss[cur].hub = "closed" THEN ss
                ELSE [ss EXCEPT ![cur].up = @ \o Pumped(e)]
    BY <1>6, <1>7
  <1>9. cur # 0 => [ss[cur] EXCEPT !.up = @ \o Pumped(e)] \in Session
    <2>1. cur # 0 => ss[cur].up \o Pumped(e) \in Seq(UpMessage)
      BY <1>5, PumpTyping, ConcatProperties
    <2>2. cur # 0 => ss[cur] \in Session
      BY DEF Sessions
    <2>. QED
      BY <2>1, <2>2 DEF Session
  <1>10. sess' \in Sessions
    BY <1>8, <1>9 DEF Sessions
  <1>. QED
    BY <1>1, <1>3, <1>4, <1>8, <1>10
-----------------------------------------------------------------------------
(* Type correctness                                                        *)

\* The last order of the output exists: nothing is said of the size of the output otherwise.
HasLast(L) == L = {} \/ \E l \in L : \A k \in L : k.order <= l.order

\* Type correctness needs a last line, to number the next one after, and a process per running entry.
TypeInv == TypeOK /\ HasLast(lines) /\ ProcessInv

\* A set of lines with a last one has a last one with one more line.
LEMMA LineAdded ==
  ASSUME NEW L \in SUBSET [run : Nat, order : Nat], HasLast(L), NEW l \in [run : Nat, order : Nat]
  PROVE  HasLast(L \cup {l})
  <1>1. CASE L = {}
    BY <1>1 DEF HasLast
  <1>2. CASE L # {}
    <2>1. PICK m \in L : \A k \in L : k.order <= m.order
      BY <1>2 DEF HasLast
    <2>2. m.order \in Nat /\ l.order \in Nat /\ \A k \in L : k.order \in Nat
      OBVIOUS
    <2>3. CASE m.order <= l.order
      BY <2>1, <2>2, <2>3 DEF HasLast
    <2>4. CASE ~(m.order <= l.order)
      BY <2>1, <2>2, <2>4 DEF HasLast
    <2>. QED
      BY <2>3, <2>4
  <1>. QED
    BY <1>1, <1>2

\* The app's next line comes after all there are.
LEMMA AppLineTyping ==
  ASSUME lines \subseteq [run : Nat, order : Nat], HasLast(lines)
  PROVE  /\ LastOrder \in Nat /\ \A l \in lines : l.order <= LastOrder
         /\ AppLine \subseteq [run : Nat, order : Nat] /\ HasLast(AppLine)
         /\ \A l \in AppLine : l \in lines \/ l = [run |-> 0, order |-> LastOrder + 1]
         /\ lines \subseteq AppLine
  <1>1. LastOrder \in Nat /\ \A l \in lines : l.order <= LastOrder
    <2>1. CASE lines = {}
      BY <2>1 DEF LastOrder
    <2>2. CASE lines # {}
      <3>. DEFINE orders == {l.order : l \in lines}
      <3>1. PICK m \in lines : \A k \in lines : k.order <= m.order
        BY <2>2 DEF HasLast
      <3>2. m.order \in orders /\ \A p \in orders : p <= m.order
        BY <3>1
      <3>3. LastOrder = CHOOSE o \in orders : \A p \in orders : p <= o
        BY <2>2 DEF LastOrder
      <3>4. LastOrder \in orders /\ \A p \in orders : p <= LastOrder
        BY <3>2, <3>3
      <3>. QED
        BY <3>4
    <2>. QED
      BY <2>1, <2>2
  <1>2. [run |-> 0, order |-> LastOrder + 1] \in [run : Nat, order : Nat]
    BY <1>1
  <1>. QED
    BY <1>1, <1>2, LineAdded DEF AppLine

\* What an item adds to the output.
LEMMA StoreLinesTyping ==
  ASSUME lines \subseteq [run : Nat, order : Nat], HasLast(lines), NEW i \in Item
  PROVE  /\ StoreLines(i) \subseteq [run : Nat, order : Nat] /\ HasLast(StoreLines(i))
         /\ lines \subseteq StoreLines(i)
         /\ \A l \in StoreLines(i) : l \in lines \/ l.run = 0 \/ (i.kind = "output" /\ l = Line(i))
         /\ i.kind = "output" => \E l \in StoreLines(i) : l.order = i.order /\ (l \in lines \/ l = Line(i))
  <1>1. Line(i) \in [run : Nat, order : Nat] /\ Line(i).order = i.order
    BY DEF Line, Item
  <1>2. HasLast(lines \cup {Line(i)})
    BY <1>1, LineAdded
  <1>. QED
    BY <1>1, <1>2, AppLineTyping DEF StoreLines

\* What happens is one of the events there are.
LEMMA EventTyping ==
  ASSUME events \subseteq AllEvents
  PROVE  /\ \A kind : Happens(kind) => events' \subseteq AllEvents
         /\ NoEvent => events' \subseteq AllEvents
  BY RteAssumption DEF Happens, NoEvent

\* The hand-overs there are, and the one a node goes on with.
LEMMA HandTyping ==
  ASSUME hand \in [AppNode -> Hand], reg \in [AppNode -> Conn \cup {0}], NEW n \in AppNode
  PROVE  /\ IdleHand \in Hand /\ Waits(n) \in Hand /\ Sending(n) \in Hand /\ NotTaken(n) \in Hand
         /\ \A pc \in {"idle", "send", "sent", "back", "say", "failing"} : [hand[n] EXCEPT !.pc = pc] \in Hand
         /\ \A res \in {"none", "lost", "busy", "unfit"} :
              [hand[n] EXCEPT !.pc = "back", !.res = res] \in Hand
         /\ [IdleHand EXCEPT !.said = TRUE] \in Hand /\ hand[n] \in Hand
         /\ \A h \in Hand : HandMoves(n, h) => hand' \in [AppNode -> Hand]
  <1>1. IdleHand \in Hand /\ [IdleHand EXCEPT !.said = TRUE] \in Hand /\ hand[n] \in Hand
    BY DEF IdleHand, Hand
  <1>2. reg[n] \in Conn \cup {0} /\ hand[n].said \in BOOLEAN
    BY <1>1 DEF Hand
  <1>3. Waits(n) \in Hand /\ Sending(n) \in Hand
    BY <1>1, <1>2 DEF Waits, Sending, IdleHand, Hand
  <1>4. \A pc \in {"idle", "send", "sent", "back", "say", "failing"} : [hand[n] EXCEPT !.pc = pc] \in Hand
    BY <1>1 DEF Hand
  <1>5. \A res \in {"none", "lost", "busy", "unfit"} : [hand[n] EXCEPT !.pc = "back", !.res = res] \in Hand
    BY <1>1 DEF Hand
  <1>6. NotTaken(n) \in Hand
    BY <1>3, <1>4 DEF NotTaken
  <1>7. \A h \in Hand : HandMoves(n, h) => hand' \in [AppNode -> Hand]
    BY DEF HandMoves
  <1>. QED
    BY <1>1, <1>3, <1>4, <1>5, <1>6, <1>7

\* The type invariant holds at the start.
LEMMA RteInitTyping ==
  Init => TypeInv
  <1>1. ASSUME Init PROVE row \in Row
    BY <1>1 DEF Init, AbsentRow, Row, Status, JobType
  <1>2. NoEntry \in Entry
    BY EmptySeq DEF NoEntry, Entry
  <1>3. UnusedSession \in Session
    BY EmptySeq DEF UnusedSession, Session
  <1>4. IdleHand \in Hand
    BY DEF IdleHand, Hand
  <1>5. Init => ProcessInv
    BY DEF Init, NoEntry, ProcessInv, Counts, HasFields
  <1>. QED
    BY <1>1, <1>2, <1>3, <1>4, <1>5 DEF Init, TypeInv, TypeOK, HasLast

\* The steps of the hub: it reads, stores and answers what the RTE sent on a socket.
LEMMA HubTyping ==
  ASSUME TypeInv, NEW s \in Conn, Hub(s)
  PROVE  TypeOK' /\ HasLast(lines)'
  <1>0. /\ TypeOK /\ HasLast(lines) /\ sess \in Sessions /\ sess[s] \in Session /\ row \in Row
        /\ lines \subseteq [run : Nat, order : Nat]
    BY DEF TypeInv, TypeOK, Sessions
  <1>1. CASE Welcome(s)
    <2>. DEFINE ss == [sess EXCEPT ![s].hub = "welcomed"]
    <2>1. ss \in Sessions
      BY <1>0 DEF Sessions, Session
    <2>2. sess' \in Sessions
      BY <1>1, <2>1, SocketTyping, MessageTyping DEF Welcome
    <2>. QED
      BY <1>0, <1>1, <2>2, EventTyping DEF Welcome, TypeOK, Sessions, appVars, dbVars
  <1>2. CASE Settle(s)
    <2>. DEFINE ss == [sess EXCEPT ![s].hub = "ready", ![s].knew = FALSE]
    <2>1. ss \in Sessions
      BY <1>0 DEF Sessions, Session
    <2>2. sess' \in Sessions
      BY <1>2, <2>1, SocketTyping DEF Settle
    <2>3. row' \in Row
      BY <1>0, <1>2, AbandonJobsMoves DEF Settle, Moves
    <2>. QED
      BY <1>0, <1>2, <2>2, <2>3, EventTyping DEF Settle, TypeOK, Sessions, appVars
  <1>3. CASE SessionCloses(s)
    <2>1. PICK k \in 0..Len(sess[s].up) :
            sess' = [sess EXCEPT ![s].hub = "closed", ![s].cancelled = FALSE, ![s].knew = FALSE,
                                 ![s].up = SubSeq(@, 1, k)]
      BY <1>3 DEF SessionCloses
    <2>. DEFINE u == SubSeq(sess[s].up, 1, k)
    <2>2. u \in Seq(UpMessage)
      <3>1. sess[s].up \in Seq(UpMessage) /\ Len(sess[s].up) \in Nat
        BY <1>0, LenProperties DEF Session
      <3>2. \A i \in 1..k : sess[s].up[i] \in UpMessage
        BY <3>1, ElementOfSeq
      <3>. QED
        BY <3>1, <3>2, SubSeqProperties
    <2>3. sess' \in Sessions
      <3>1. sess' = [sess EXCEPT ![s].hub = "closed", ![s].cancelled = FALSE, ![s].knew = FALSE, ![s].up = u]
        BY <2>1
      <3>. HIDE DEF u
      <3>. QED
        BY <1>0, <2>2, <3>1 DEF Session, Sessions
    <2>4. reg' \in [AppNode -> Conn \cup {0}]
      BY <1>0, <1>3 DEF SessionCloses, TypeOK
    <2>5. hand' \in [AppNode -> Hand]
      <3>1. \A n \in AppNode : hand[n] \in Hand /\ [hand[n] EXCEPT !.pc = "back", !.res = "lost"] \in Hand
        BY <1>0, ZenonT(30) DEF TypeOK, Hand
      <3>. QED
        BY <1>3, <3>1 DEF SessionCloses
    <2>. QED
      BY <1>0, <1>3, <2>3, <2>4, <2>5, EventTyping DEF SessionCloses, TypeOK, Sessions, dbVars
  <1>4. CASE OnClaimed(s) \/ OnRefused(s)
    <2>1. sess[s].up # <<>> /\ sess' = Received(s) /\ UNCHANGED <<row, lines, follower>> /\ NoEvent
      BY <1>4 DEF OnClaimed, OnRefused, Says
    <2>2. sess' \in Sessions
      BY <1>0, <2>1, ReadTyping
    <2>3. CASE sess[s].node \in AppNode
      <3>. DEFINE n == sess[s].node
      <3>1. \E h \in {IdleHand, hand[n], [hand[n] EXCEPT !.pc = "back", !.res = "busy"],
                      [hand[n] EXCEPT !.pc = "back", !.res = "unfit"]} : HandMoves(n, h)
        BY <1>4 DEF OnClaimed, OnRefused
      <3>2. hand' \in [AppNode -> Hand]
        BY <1>0, <2>3, <3>1, HandTyping DEF TypeOK
      <3>. QED
        BY <1>0, <2>1, <2>2, <3>1, <3>2, EventTyping DEF HandMoves, TypeOK, Sessions
    <2>4. CASE sess[s].node \notin AppNode
      <3>1. \E n : n \notin AppNode /\ \E h : HandMoves(n, h)
        BY <1>4, <2>4 DEF OnClaimed, OnRefused
      <3>2. hand' = hand /\ UNCHANGED <<seen, reg, ending, alive, cur, rte, hist>>
        BY <1>0, <3>1 DEF HandMoves, TypeOK
      <3>. QED
        BY <1>0, <2>1, <2>2, <3>2, EventTyping DEF TypeOK, Sessions
    <2>. QED
      BY <2>3, <2>4
  <1>5. CASE OnItem(s) \/ StoreFails(s)
    <2>. DEFINE m == Head(sess[s].up)
    <2>1. sess[s].up # <<>> /\ m.t = "item"
      BY <1>5 DEF OnItem, StoreFails, Says
    <2>2. m \in UpMessage /\ Received(s) \in Sessions
      BY <1>0, <2>1, ReadTyping
    <2>3. m.item \in Item /\ m.seq \in Nat
      BY <2>1, <2>2, MessageTyping
    <2>4. /\ StoreRow(row, m.item) \in Row /\ HasLast(StoreLines(m.item))
          /\ StoreLines(m.item) \subseteq [run : Nat, order : Nat]
      BY <1>0, <2>3, StoreMoves, StoreLinesTyping DEF Moves
    <2>5. row' \in Row /\ lines' \subseteq [run : Nat, order : Nat] /\ HasLast(lines)'
      <3>1. \/ row' = row /\ lines' = lines
            \/ row' = StoreRow(row, m.item) /\ lines' = StoreLines(m.item)
        BY <1>5 DEF OnItem, StoreFails, Skip, Store
      <3>. QED
        BY <1>0, <2>4, <3>1
    <2>6. sess' \in Sessions
      <3>1. Sent(Received(s), s, [t |-> "ack", seq |-> m.seq]) \in Sessions
        BY <2>2, <2>3, SocketTyping, MessageTyping
      <3>2. [Received(s) EXCEPT ![s].failed = TRUE] \in Sessions
        <4>. DEFINE r == Received(s)
        <4>1. r \in Sessions
          BY <2>2
        <4>. HIDE DEF r
        <4>2. [r EXCEPT ![s].failed = TRUE] \in Sessions
          BY <4>1 DEF Sessions, Session
        <4>. QED
          BY <4>2 DEF r
      <3>3. \/ sess' = Received(s)
            \/ sess' = Sent(Received(s), s, [t |-> "ack", seq |-> m.seq])
            \/ sess' = Forgotten(Sent(Received(s), s, [t |-> "ack", seq |-> m.seq]), sess[s].node)
            \/ sess' = Closing([Received(s) EXCEPT ![s].failed = TRUE], s)
        BY <1>5 DEF OnItem, StoreFails, Skip, Store
      <3>. QED
        BY <2>2, <3>1, <3>2, <3>3, SocketTyping
    <2>. QED
      BY <1>0, <1>5, <2>5, <2>6, EventTyping DEF OnItem, StoreFails, TypeOK, Sessions, appVars
  <1>. QED
    BY <1>1, <1>2, <1>3, <1>4, <1>5 DEF Hub

\* The statements on the row give a row.
LEMMA AppRowTyping ==
  ASSUME NEW r \in Row
  PROVE  /\ \A n \in Node : CreateRow(r, n) \in Row
         /\ \A h \in Node \cup {NoNode} : [r EXCEPT !.host = h] \in Row
         /\ \A o \in Outcome : EndRow(r, o) \in Row
         /\ FailRow(r) \in Row /\ RequestAbortRow(r) \in Row
         /\ \A n, u : AbandonOwnRow(r, n, u) \in Row
         /\ \A n, recent, kept : AbandonDeadRow(r, n, recent, kept) \in Row
  <1>1. \A n \in Node : CreateRow(r, n) \in Row
    BY DEF CreateRow, Row, Status
  <1>2. RequestAbortRow(r) \in Row
    BY DEF RequestAbortRow, Row
  <1>. QED
    BY <1>1, <1>2, HostMoves, EndMoves, FailMoves, SweepMoves DEF Moves

\* The steps of a node of the app.
LEMMA AppTyping ==
  ASSUME TypeInv, NEW n \in AppNode, App(n) \/ RteDials(n)
  PROVE  TypeOK' /\ HasLast(lines)'
  <1>0. /\ TypeOK /\ HasLast(lines) /\ sess \in Sessions /\ row \in Row /\ n \in Node
        /\ lines \subseteq [run : Nat, order : Nat] /\ "aborted" \in Outcome
        /\ AppLine \subseteq [run : Nat, order : Nat] /\ HasLast(AppLine) /\ LastOrder \in Nat
    BY AppLineTyping DEF TypeInv, TypeOK, Sessions, AppNode, Outcome
  <1>1. CASE Launch(n)
    BY <1>0, <1>1, AppRowTyping, EventTyping DEF Launch, TypeOK, appVars
  <1>2. CASE Announce(n)
    <2>. DEFINE h == IF CanRun(n) /\ ~HandingOver(n) THEN Sending(n) ELSE hand[n]
    <2>1. HandMoves(n, h) /\ h \in Hand
      BY <1>0, <1>2, HandTyping DEF Announce, TypeOK
    <2>2. hand' \in [AppNode -> Hand]
      BY <1>0, <2>1, HandTyping DEF TypeOK
    <2>. QED
      BY <1>0, <1>2, <2>2, EventTyping DEF Announce, HandMoves, TypeOK
  <1>3. CASE Dispatch(n)
    <2>1. hand' \in [AppNode -> Hand] /\ ending' \subseteq AppNode
      BY <1>0, <1>3, HandTyping DEF Dispatch, TypeOK
    <2>. QED
      BY <1>0, <1>3, <2>1, EventTyping DEF Dispatch, TypeOK, dbVars
  <1>4. CASE AbortWhileWaiting(n)
    BY <1>0, <1>4, AppRowTyping, EventTyping DEF AbortWhileWaiting, TypeOK
  <1>5. CASE HandOver(n)
    <2>1. hand' \in [AppNode -> Hand]
      <3>1. \E h \in Hand : HandMoves(n, h)
        BY <1>0, <1>5, HandTyping DEF HandOver, TypeOK
      <3>. QED
        BY <1>0, <3>1, HandTyping DEF TypeOK
    <2>2. row' \in Row
      BY <1>0, <1>5, AppRowTyping, RteAssumption DEF HandOver
    <2>3. sess' \in Sessions
      <3>1. hand[n].s \in Conn \cup {0}
        BY <1>0 DEF TypeOK, Hand
      <3>2. Sent(sess, hand[n].s, [t |-> "run", last |-> LastOrder]) \in Sessions
        BY <1>0, <3>1, SocketTyping, MessageTyping
      <3>. QED
        BY <1>0, <1>5, <3>2 DEF HandOver
    <2>4. events' \subseteq AllEvents
      BY <1>0, <1>5, EventTyping DEF HandOver, TypeOK
    <2>5. UNCHANGED <<lines, follower, seen, reg, ending, alive, cur, rte, hist>>
      BY <1>5 DEF HandOver, HandMoves
    <2>. QED
      BY <1>0, <2>1, <2>2, <2>3, <2>4, <2>5 DEF TypeOK, Sessions
  <1>6. CASE Say(n)
    <2>1. hand' \in [AppNode -> Hand]
      BY <1>0, <1>6, HandTyping DEF Say, TypeOK
    <2>. QED
      BY <1>0, <1>6, <2>1, EventTyping DEF Say, HandMoves, TypeOK
  <1>7. CASE ClaimTimeout(n)
    <2>1. hand' \in [AppNode -> Hand]
      BY <1>0, <1>7, HandTyping DEF ClaimTimeout, TypeOK
    <2>. QED
      BY <1>0, <1>7, <2>1, EventTyping DEF ClaimTimeout, HandMoves, TypeOK
  <1>8. CASE GiveBack(n)
    <2>1. hand' \in [AppNode -> Hand]
      <3>1. \E h \in Hand : HandMoves(n, h)
        BY <1>0, <1>8, HandTyping DEF GiveBack, TypeOK
      <3>. QED
        BY <1>0, <3>1, HandTyping DEF TypeOK
    <2>2. row' \in Row
      BY <1>0, <1>8, AppRowTyping DEF GiveBack
    <2>3. events' \subseteq AllEvents
      BY <1>0, <1>8, EventTyping DEF GiveBack, TypeOK
    <2>5. UNCHANGED <<lines, sess, follower, seen, reg, ending, alive, cur, rte, hist>>
      BY <1>8 DEF GiveBack, HandMoves
    <2>. QED
      BY <1>0, <2>1, <2>2, <2>3, <2>5 DEF TypeOK
  <1>9. CASE FailJob(n)
    <2>1. hand' \in [AppNode -> Hand]
      BY <1>0, <1>9, HandTyping DEF FailJob, TypeOK
    <2>2. row' \in Row /\ lines' \subseteq [run : Nat, order : Nat] /\ HasLast(lines)'
      BY <1>0, <1>9, AppRowTyping DEF FailJob, Fails
    <2>3. sess' \in Sessions
      BY <1>0, <1>9, SocketTyping DEF FailJob
    <2>. QED
      BY <1>0, <1>9, <2>1, <2>2, <2>3, EventTyping DEF FailJob, HandMoves, TypeOK, Sessions
  <1>10. CASE RequestAbort(n)
    <2>1. row' \in Row
      BY <1>0, <1>10, AppRowTyping DEF RequestAbort
    <2>2. sess' \in Sessions
      <3>1. reg[n] \in Conn \cup {0}
        BY <1>0 DEF TypeOK
      <3>2. Sent(sess, reg[n], [t |-> "cancel"]) \in Sessions
        BY <1>0, <3>1, SocketTyping, MessageTyping
      <3>3. Marked(Sent(sess, reg[n], [t |-> "cancel"]), reg[n]) \in Sessions
        BY <3>1, <3>2, SocketTyping
      <3>. QED
        BY <1>0, <1>10, <3>2, <3>3 DEF RequestAbort
    <2>3. hist' = [hist EXCEPT !.soon = (follower = "launches")]
      BY <1>10 DEF RequestAbort
    <2>4. hist' \in [runs : Nat, written : SUBSET [run : Nat, order : Nat], soon : BOOLEAN]
      BY <1>0, <2>3 DEF TypeOK
    <2>5. events' \subseteq AllEvents
      BY <1>0, <1>10, EventTyping DEF RequestAbort, TypeOK
    <2>6. UNCHANGED <<lines, seen, appVars, cur, rte>>
      BY <1>10 DEF RequestAbort
    <2>. QED
      BY <1>0, <2>1, <2>2, <2>4, <2>5, <2>6 DEF TypeOK, Sessions, appVars
  <1>11. CASE DispatchCancel(n)
    <2>2. sess' \in Sessions
      <3>1. reg[n] \in Conn \cup {0}
        BY <1>0 DEF TypeOK
      <3>2. Sent(sess, reg[n], [t |-> "cancel"]) \in Sessions
        BY <1>0, <3>1, SocketTyping, MessageTyping
      <3>. QED
        BY <1>11, <3>1, <3>2, SocketTyping DEF DispatchCancel
    <2>. QED
      BY <1>0, <1>11, <2>2, EventTyping DEF DispatchCancel, TypeOK, Sessions, dbVars, appVars
  <1>12. CASE Crash(n)
    <2>1. sess' \in Sessions
      <3>1. \A s \in Conn : sess[s] \in Session /\ <<>> \in Seq(UpMessage)
        BY <1>0, EmptySeq DEF Sessions
      <3>2. \A s \in Conn : [sess[s] EXCEPT !.hub = "closed", !.up = <<>>, !.cancelled = FALSE,
                                            !.knew = FALSE] \in Session
        BY <3>1 DEF Session
      <3>. QED
        BY <1>12, <3>1, <3>2 DEF Crash, Sessions
    <2>2. hand' \in [AppNode -> Hand] /\ reg' \in [AppNode -> Conn \cup {0}]
      BY <1>0, <1>12, HandTyping DEF Crash, TypeOK
    <2>3. events' \subseteq AllEvents
      BY <1>0, <1>12, EventTyping DEF Crash, TypeOK
    <2>4. /\ UNCHANGED <<dbVars, cur, rte, hist>> /\ alive' \subseteq alive /\ ending' \subseteq ending
          /\ follower' \in {follower, "gone"}
      BY <1>12 DEF Crash
    <2>. QED
      BY <1>0, <2>1, <2>2, <2>3, <2>4 DEF TypeOK, Sessions, dbVars
  <1>13. CASE Start(n)
    BY <1>0, <1>13, AppRowTyping, EventTyping DEF Start, TypeOK
  <1>14. CASE Sweep(n)
    BY <1>0, <1>14, AppRowTyping, EventTyping DEF Sweep, TypeOK, appVars
  <1>15. CASE RteDials(n)
    <2>1. PICK s \in Conn : /\ sess' = [Closing(sess, reg[n]) EXCEPT ![s] =
                                  [UnusedSession EXCEPT !.node = n, !.hub = "hello", !.knew = rte.known]]
                            /\ reg' = [reg EXCEPT ![n] = s] /\ cur' = s
      BY <1>15 DEF RteDials
    <2>2. sess' \in Sessions
      <3>. DEFINE new == [UnusedSession EXCEPT !.node = n, !.hub = "hello", !.knew = rte.known]
      <3>1. new \in Session
        BY <1>0, EmptySeq DEF UnusedSession, Session, TypeOK, Entry
      <3>2. Closing(sess, reg[n]) \in Sessions
        BY <1>0, SocketTyping DEF TypeOK
      <3>. HIDE DEF new
      <3>3. [Closing(sess, reg[n]) EXCEPT ![s] = new] \in Sessions
        BY <3>1, <3>2 DEF Sessions
      <3>. QED
        BY <2>1, <3>3 DEF new
    <2>3. reg' \in [AppNode -> Conn \cup {0}] /\ cur' \in Conn
      BY <1>0, <2>1 DEF TypeOK
    <2>. QED
      BY <1>0, <1>15, <2>2, <2>3, EventTyping DEF RteDials, TypeOK, Sessions, dbVars
  <1>. QED
    BY <1>1, <1>2, <1>3, <1>4, <1>5, <1>6, <1>7, <1>8, <1>9, <1>10, <1>11, <1>12, <1>13, <1>14, <1>15 DEF App

\* A run that is over leaves an entry.
LEMMA OverTyping ==
  ASSUME NEW i \in Entry
  PROVE  /\ [i EXCEPT !.running = FALSE, !.spawned = FALSE, !.abort = FALSE, !.base = 0, !.wrote = 0] \in Entry
         /\ [i EXCEPT !.running = FALSE, !.spawned = FALSE, !.abort = FALSE, !.base = 0, !.wrote = 0].procs
              = i.procs
  BY DEF Entry

\* What was on its way to the RTE is lost with its end of the socket.
LEMMA EmptiedTyping ==
  ASSUME NEW ss \in Sessions, NEW c \in Conn
  PROVE  [ss EXCEPT ![c].down = <<>>] \in Sessions
  <1>1. ASSUME NEW none \in Seq(DownMessage) PROVE [ss EXCEPT ![c].down = none] \in Sessions
    BY DEF Sessions, Session
  <1>. QED
    BY <1>1, EmptySeq

\* The entries the RTE makes of its own : an entry is sent, or kept.
LEMMA EntryTyping ==
  ASSUME NEW e \in Entry, hist.runs \in Nat
  PROVE  /\ NoEntry \in Entry /\ Rewound([e EXCEPT !.welcomed = TRUE]) \in Entry
         /\ \A last \in Nat : Taken(e, last) \in Entry
         /\ \A seq \in Nat : AckedTo(e, seq) \in Entry
         /\ Removed(e) \in Entry /\ Reloaded(e) \in Entry
         /\ \A o \in Outcome : RunOver(e, o) \in Entry /\ RunOver(e, o).procs = e.procs
         /\ Spooled(e, "started", hist.runs, 0, "none") \in Entry
         /\ \A order \in Nat : Spooled(e, "output", hist.runs, order, "none") \in Entry
         /\ [e EXCEPT !.early = TRUE] \in Entry /\ [e EXCEPT !.early = FALSE] \in Entry
         /\ [e EXCEPT !.abort = TRUE] \in Entry /\ [e EXCEPT !.welcomed = FALSE] \in Entry
  <1>0. /\ e.acked \in Nat /\ e.next \in Nat \ {0} /\ e.items \in Seq(Item) /\ Len(e.items) \in Nat
        /\ e.procs \in Nat
    BY LenProperties DEF Entry
  <1>1. NoEntry \in Entry
    BY EmptySeq DEF NoEntry, Entry
  <1>2. Rewound([e EXCEPT !.welcomed = TRUE]) \in Entry
    <2>. DEFINE w == [e EXCEPT !.welcomed = TRUE]
    <2>1. w \in Entry
      BY DEF Entry
    <2>. HIDE DEF w
    <2>3. w.acked \in Nat
      BY <2>1 DEF Entry
    <2>4. w.acked + 1 \in Nat \ {0}
      BY <2>3
    <2>2. Rewound(w) \in Entry
      <3>. DEFINE next == w.acked + 1
      <3>1. Rewound(w) = [w EXCEPT !.next = next] /\ next \in Nat \ {0}
        BY <2>4 DEF Rewound
      <3>. HIDE DEF next
      <3>. QED
        BY <2>1, <3>1 DEF Entry
    <2>. QED
      BY <2>2 DEF w
  <1>3. \A last \in Nat : Taken(e, last) \in Entry
    BY DEF Taken, Entry
  <1>4. ASSUME NEW seq \in Nat PROVE AckedTo(e, seq) \in Entry
    <2>. DEFINE acked == IF seq <= e.acked THEN e.acked ELSE IF seq < Len(e.items) THEN seq ELSE Len(e.items)
                next == IF e.next <= acked THEN acked + 1 ELSE e.next
    <2>1. acked \in Nat /\ next \in Nat \ {0}
      BY <1>0
    <2>2. AckedTo(e, seq) = [e EXCEPT !.acked = acked, !.next = next]
      BY DEF AckedTo
    <2>. HIDE DEF acked, next
    <2>. QED
      BY <2>1, <2>2 DEF Entry
  <1>5. Removed(e) \in Entry
    BY <1>1 DEF Removed, Entry
  <1>6. /\ [kind |-> "started", run |-> hist.runs, order |-> 0, outcome |-> "none"] \in Item
        /\ [kind |-> "abandon", run |-> 0, order |-> 0, outcome |-> "none"] \in Item
        /\ \A order \in Nat : [kind |-> "output", run |-> hist.runs, order |-> order, outcome |-> "none"] \in Item
        /\ \A o \in Outcome : [kind |-> "end", run |-> hist.runs, order |-> 0, outcome |-> o] \in Item
    BY DEF Item
  <1>7. Spooled(e, "started", hist.runs, 0, "none") \in Entry
    BY <1>6, SpooledTyping
  <1>8. \A order \in Nat : Spooled(e, "output", hist.runs, order, "none") \in Entry
    BY <1>6, SpooledTyping
  <1>9. ASSUME NEW o \in Outcome PROVE RunOver(e, o) \in Entry /\ RunOver(e, o).procs = e.procs
    <2>. DEFINE i == Spooled(e, "end", hist.runs, 0, o)
                it == [kind |-> "end", run |-> hist.runs, order |-> 0, outcome |-> o]
    <2>1. it \in Item
      BY <1>6
    <2>2. i = [e EXCEPT !.items = Append(@, it)]
      BY DEF Spooled
    <2>3. Append(e.items, it) \in Seq(Item)
      BY <1>0, <2>1, AppendProperties
    <2>4. i \in Entry /\ i.procs = e.procs
      BY <2>2, <2>3 DEF Entry
    <2>5. RunOver(e, o) =
            [i EXCEPT !.running = FALSE, !.spawned = FALSE, !.abort = FALSE, !.base = 0, !.wrote = 0]
      BY DEF RunOver
    <2>. HIDE DEF i
    <2>. QED
      BY <2>4, <2>5, OverTyping
  <1>10. Reloaded(e) \in Entry
    <2>. DEFINE left == [NoEntry EXCEPT !.known = TRUE, !.items = e.items, !.acked = e.acked, !.next = e.acked + 1]
                it == [kind |-> "abandon", run |-> 0, order |-> 0, outcome |-> "none"]
    <2>1. left \in Entry
      <3>. DEFINE next == e.acked + 1
                  empty == NoEntry
      <3>1. next \in Nat \ {0} /\ empty \in Entry
        BY <1>0, <1>1
      <3>2. left = [empty EXCEPT !.known = TRUE, !.items = e.items, !.acked = e.acked, !.next = next]
        OBVIOUS
      <3>. HIDE DEF next, left, empty
      <3>. QED
        BY <1>0, <3>1, <3>2 DEF Entry
    <2>2. Spooled(left, "abandon", 0, 0, "none") \in Entry
      <3>. HIDE DEF left
      <3>1. it \in Item /\ it.kind = "abandon" /\ it.run = 0 /\ it.order = 0 /\ it.outcome = "none"
        BY <1>6
      <3>. HIDE DEF it
      <3>. QED
        BY <2>1, <3>1, SpooledTyping
    <2>3. Reloaded(e) \in {NoEntry, left, Spooled(left, "abandon", 0, 0, "none")}
      BY DEF Reloaded
    <2>. QED
      BY <1>1, <2>1, <2>2, <2>3
  <1>11. /\ [e EXCEPT !.early = TRUE] \in Entry /\ [e EXCEPT !.early = FALSE] \in Entry
         /\ [e EXCEPT !.abort = TRUE] \in Entry /\ [e EXCEPT !.welcomed = FALSE] \in Entry
    BY DEF Entry
  <1>. QED
    BY <1>1, <1>2, <1>3, <1>4, <1>5, <1>7, <1>8, <1>9, <1>10, <1>11

\* The steps of the RTE.
LEMMA RteStepTyping ==
  ASSUME TypeInv, RteStep
  PROVE  TypeOK' /\ HasLast(lines)'
  <1>0. /\ TypeOK /\ HasLast(lines) /\ sess \in Sessions /\ rte \in Entry /\ cur \in Conn \cup {0}
        /\ hist.runs \in Nat /\ hist \in [runs : Nat, written : SUBSET [run : Nat, order : Nat], soon : BOOLEAN]
    BY DEF TypeInv, TypeOK, Sessions
  <1>1. ASSUME UNCHANGED <<dbVars, appVars>>, events' \subseteq AllEvents, cur' \in Conn \cup {0},
               hist' \in [runs : Nat, written : SUBSET [run : Nat, order : Nat], soon : BOOLEAN],
               sess' \in Sessions, rte' \in Entry
        PROVE  TypeOK' /\ HasLast(lines)'
    BY <1>0, <1>1 DEF TypeOK, Sessions, dbVars, appVars
  <1>2. CASE OnWelcome
    <2>1. Read(cur) \in Sessions
      BY <1>0, <1>2, ReadTyping DEF OnWelcome, Told
    <2>2. sess' \in Sessions /\ rte' \in Entry
      BY <1>0, <1>2, <2>1, EntryTyping, SendsTyping DEF OnWelcome
    <2>. QED
      BY <1>0, <1>1, <1>2, <2>2, EventTyping DEF OnWelcome, RteReads, TypeOK
  <1>3. CASE OnRun
    <2>1. /\ cur \in Conn /\ sess[cur].down # <<>> /\ Head(sess[cur].down).t = "run"
      BY <1>0, <1>3 DEF OnRun, Told
    <2>2. Read(cur) \in Sessions /\ Head(sess[cur].down).last \in Nat
      BY <1>0, <2>1, ReadTyping, MessageTyping
    <2>3. PICK t \in {"claimed", "busy", "unfit"} :
            /\ rte' = rte \/ rte' = Taken(rte, Head(sess[cur].down).last)
            /\ sess' = [Read(cur) EXCEPT ![cur].up =
                          IF sess[cur].hub = "closed" THEN @ ELSE Append(@, [t |-> t])]
      BY <1>3 DEF OnRun
    <2>4. rte' \in Entry
      BY <1>0, <2>2, <2>3, EntryTyping, ZenonT(30)
    <2>5. sess' \in Sessions
      <3>. DEFINE rd == Read(cur)
                  up == IF sess[cur].hub = "closed" THEN rd[cur].up ELSE Append(rd[cur].up, [t |-> t])
      <3>1. rd \in Sessions /\ sess' = [rd EXCEPT ![cur].up = up]
        BY <2>2, <2>3
      <3>. HIDE DEF rd
      <3>2. up \in Seq(UpMessage)
        BY <2>1, <3>1, AppendProperties, MessageTyping DEF Sessions, Session
      <3>. HIDE DEF up
      <3>. QED
        BY <2>1, <3>1, <3>2 DEF Sessions, Session
    <2>6. hist' \in [runs : Nat, written : SUBSET [run : Nat, order : Nat], soon : BOOLEAN]
      <3>1. hist' = hist \/ hist' = [hist EXCEPT !.runs = @ + 1, !.written = {}]
        BY <1>3 DEF OnRun
      <3>2. hist.runs + 1 \in Nat /\ {} \in SUBSET [run : Nat, order : Nat]
        BY <1>0
      <3>. DEFINE runs == hist.runs + 1
      <3>3. hist' = hist \/ hist' = [hist EXCEPT !.runs = runs, !.written = {}]
        BY <3>1
      <3>. HIDE DEF runs
      <3>. QED
        BY <1>0, <3>2, <3>3 DEF runs
    <2>7. events' \subseteq AllEvents
      BY <1>0, <1>3, EventTyping DEF OnRun, TypeOK
    <2>. QED
      BY <1>0, <1>1, <1>3, <2>4, <2>5, <2>6, <2>7 DEF OnRun, RteReads
  <1>4. CASE OnCancel
    <2>1. sess' \in Sessions /\ rte' \in Entry
      BY <1>0, <1>4, ReadTyping, EntryTyping DEF OnCancel, Told
    <2>. QED
      BY <1>0, <1>1, <1>4, <2>1, EventTyping DEF OnCancel, RteReads, TypeOK
  <1>5. CASE ExpireCancel
    BY <1>0, <1>1, <1>5, EntryTyping, EventTyping DEF ExpireCancel, RteReads, TypeOK
  <1>6. CASE OnAck
    <2>1. /\ cur \in Conn /\ sess[cur].down # <<>> /\ Head(sess[cur].down).t = "ack"
      BY <1>0, <1>6 DEF OnAck, Told
    <2>2. Read(cur) \in Sessions /\ Head(sess[cur].down).seq \in Nat
      BY <1>0, <2>1, ReadTyping, MessageTyping
    <2>. DEFINE e == AckedTo(rte, Head(sess[cur].down).seq)
    <2>3. e \in Entry
      BY <1>0, <2>2, EntryTyping
    <2>4. \/ rte' = rte /\ sess' = Read(cur)
          \/ rte' = Removed(e) /\ sess' = Read(cur)
          \/ RteSends(Read(cur), e, <<>>)
      BY <1>6 DEF OnAck
    <2>. HIDE DEF e
    <2>5. sess' \in Sessions /\ rte' \in Entry
      BY <1>0, <2>2, <2>3, <2>4, EntryTyping, SendsTyping
    <2>. QED
      BY <1>0, <1>1, <1>6, <2>5, EventTyping DEF OnAck, RteReads, TypeOK
  <1>7. CASE Started
    <2>. DEFINE i == Spooled(rte, "started", hist.runs, 0, "none")
                e == [i EXCEPT !.spawned = TRUE, !.procs = @ + 1]
    <2>1. i \in Entry
      BY <1>0, EntryTyping
    <2>2. e \in Entry
      <3>. DEFINE procs == i.procs + 1
      <3>1. e = [i EXCEPT !.spawned = TRUE, !.procs = procs]
        OBVIOUS
      <3>. HIDE DEF i
      <3>2. procs \in Nat
        BY <2>1 DEF Entry
      <3>. HIDE DEF e, procs
      <3>. QED
        BY <2>1, <3>1, <3>2 DEF Entry
    <2>3. RteSends(sess, e, <<>>)
      BY <1>7 DEF Started
    <2>. HIDE DEF e
    <2>4. sess' \in Sessions /\ rte' \in Entry
      BY <1>0, <2>2, <2>3, SendsTyping
    <2>. QED
      BY <1>0, <1>1, <1>7, <2>4, EventTyping DEF Started, RteReads, TypeOK
  <1>8. CASE Write
    <2>. DEFINE order == rte.base + rte.wrote + 1
                i == Spooled(rte, "output", hist.runs, order, "none")
                e == [i EXCEPT !.wrote = @ + 1]
    <2>1. order \in Nat
      BY <1>0 DEF Entry
    <2>2. RteSends(sess, e, <<>>) /\ hist' = [hist EXCEPT !.written = @ \cup {[run |-> hist.runs, order |-> order]}]
      BY <1>8 DEF Write
    <2>. HIDE DEF order
    <2>3. i \in Entry
      BY <1>0, <2>1, EntryTyping
    <2>4. e \in Entry
      <3>. HIDE DEF i
      <3>. QED
        BY <2>3 DEF Entry
    <2>. HIDE DEF e
    <2>5. sess' \in Sessions /\ rte' \in Entry
      BY <1>0, <2>2, <2>4, SendsTyping
    <2>6. hist' \in [runs : Nat, written : SUBSET [run : Nat, order : Nat], soon : BOOLEAN]
      BY <1>0, <2>1, <2>2
    <2>. QED
      BY <1>0, <1>1, <1>8, <2>5, <2>6, EventTyping DEF Write, RteReads, TypeOK
  <1>9. CASE RunEnds
    <2>1. PICK outcome \in Exits \cup {"aborted"} :
            RteSends(sess, [RunOver(rte, outcome) EXCEPT !.procs = @ - 1], <<>>)
      BY <1>9 DEF RunEnds
    <2>. DEFINE i == RunOver(rte, outcome)
                e == [i EXCEPT !.procs = @ - 1]
    <2>2. i \in Entry /\ i.procs = rte.procs
      BY <1>0, EntryTyping, RteAssumption DEF Outcome
    <2>3. rte.procs = 1
      BY <1>0, <1>9 DEF RunEnds, TypeInv, ProcessInv, Counts, Entry
    <2>4. e \in Entry
      <3>. HIDE DEF i
      <3>. QED
        BY <2>2, <2>3 DEF Entry
    <2>. HIDE DEF e
    <2>5. sess' \in Sessions /\ rte' \in Entry
      BY <1>0, <2>1, <2>4, SendsTyping DEF e
    <2>. QED
      BY <1>0, <1>1, <1>9, <2>5, EventTyping DEF RunEnds, RteReads, TypeOK
  <1>10. CASE StartFails
    <2>1. RunOver(rte, "failed") \in Entry /\ RteSends(sess, RunOver(rte, "failed"), <<>>)
      BY <1>0, <1>10, EntryTyping DEF StartFails, Outcome
    <2>2. sess' \in Sessions /\ rte' \in Entry
      BY <1>0, <2>1, SendsTyping
    <2>. QED
      BY <1>0, <1>1, <1>10, <2>2, EventTyping DEF StartFails, RteReads, TypeOK
  <1>11. CASE RteRestarts
    <2>1. rte' \in Entry /\ cur' = 0
      BY <1>0, <1>11, EntryTyping DEF RteRestarts
    <2>2. sess' \in Sessions
      <3>1. cur # 0 => [sess EXCEPT ![cur].down = <<>>] \in Sessions
        BY <1>0, EmptiedTyping
      <3>. QED
        BY <1>0, <1>11, <3>1 DEF RteRestarts
    <2>. QED
      BY <1>0, <1>1, <1>11, <2>1, <2>2, EventTyping DEF RteRestarts, TypeOK
  <1>12. CASE RteLosesSocket
    <2>1. rte' \in Entry /\ cur' = 0
      BY <1>0, <1>12, EntryTyping DEF RteLosesSocket
    <2>2. sess' \in Sessions
      <3>1. cur # 0 => [sess EXCEPT ![cur].down = <<>>] \in Sessions
        BY <1>0, EmptiedTyping
      <3>. QED
        BY <1>0, <1>12, <3>1 DEF RteLosesSocket
    <2>. QED
      BY <1>0, <1>1, <1>12, <2>1, <2>2, EventTyping DEF RteLosesSocket, TypeOK
  <1>. QED
    BY <1>2, <1>3, <1>4, <1>5, <1>6, <1>7, <1>8, <1>9, <1>10, <1>11, <1>12 DEF RteStep

\* Every step keeps the types, and a last line.
LEMMA RteNextTyping == TypeInv /\ Next => TypeOK' /\ HasLast(lines)'
  <1>. SUFFICES ASSUME TypeInv, Next PROVE TypeOK' /\ HasLast(lines)'
    OBVIOUS
  <1>0. /\ TypeOK /\ HasLast(lines) /\ lines \subseteq [run : Nat, order : Nat] /\ row \in Row
        /\ AppLine \subseteq [run : Nat, order : Nat] /\ HasLast(AppLine)
    BY AppLineTyping DEF TypeInv, TypeOK
  <1>1. CASE \E s \in Conn : Hub(s)
    BY <1>1, HubTyping
  <1>2. CASE \E n \in AppNode : App(n) \/ RteDials(n)
    BY <1>2, AppTyping
  <1>3. CASE TrackSocket
    <2>1. row' \in Row /\ lines' \subseteq [run : Nat, order : Nat] /\ HasLast(lines)'
      BY <1>0, <1>3, AppRowTyping DEF TrackSocket, Fails
    <2>. QED
      BY <1>0, <1>3, <2>1, EventTyping DEF TrackSocket, TypeOK
  <1>4. CASE Away
    BY <1>0, <1>4, EventTyping DEF Away, TypeOK, appVars
  <1>5. CASE RteStep
    BY <1>5, RteStepTyping
  <1>. QED
    BY <1>1, <1>2, <1>3, <1>4, <1>5 DEF Next
-----------------------------------------------------------------------------
(* What is on its way on a socket                                          *)

\* q[j] for a j < i is item k
Before(q, i, k) == \E j \in 1..(i - 1) : q[j].t = "item" /\ q[j].seq = k

\* The items of q are those of the spool, and all before one of them are stored or ahead of it.
Ordered(q, items, st) ==
  \A i \in 1..Len(q) : q[i].t = "item" =>
    /\ q[i].seq \in 1..Len(items) /\ q[i].item = items[q[i].seq]
    /\ \A k \in 1..(q[i].seq - 1) : k \in st \/ Before(q, i, k)

\* The first n items of the spool are stored or in q.
Complete(q, n, st) == \A k \in 1..n : k \in st \/ Before(q, Len(q) + 1, k)

\* A queue that lost its end.
Prefix(p, q) == Len(p) <= Len(q) /\ \A i \in 1..Len(p) : p[i] = q[i]

\* A queue without its head: the same messages, one place further on.
LEMMA TailQueue ==
  ASSUME NEW M, NEW q \in Seq(M), q # <<>>
  PROVE  /\ Tail(q) \in Seq(M) /\ Len(Tail(q)) \in Nat /\ Len(q) = Len(Tail(q)) + 1
         /\ \A i \in 1..Len(Tail(q)) : i + 1 \in 1..Len(q) /\ Tail(q)[i] = q[i + 1]
         /\ Head(q) = q[1] /\ Head(q) \in M
         /\ \A i \in 1..Len(q) : i # 1 => i - 1 \in 1..Len(Tail(q)) /\ Tail(q)[i - 1] = q[i]
  <1>1. /\ Tail(q) \in Seq(M) /\ Len(Tail(q)) = Len(q) - 1 /\ Head(q) = q[1] /\ Head(q) \in M
        /\ \A i \in 1..Len(Tail(q)) : Tail(q)[i] = q[i + 1]
    BY HeadTailProperties
  <1>2. Len(q) \in Nat /\ Len(Tail(q)) \in Nat
    BY <1>1, LenProperties
  <1>3. Len(q) = Len(Tail(q)) + 1
    BY <1>1, <1>2
  <1>4. ASSUME NEW i \in 1..Len(q), i # 1 PROVE i - 1 \in 1..Len(Tail(q)) /\ Tail(q)[i - 1] = q[i]
    <2>1. i - 1 \in 1..Len(Tail(q)) /\ (i - 1) + 1 = i
      BY <1>2, <1>3, <1>4
    <2>2. Tail(q)[i - 1] = q[(i - 1) + 1]
      BY <1>1, <2>1
    <2>. QED
      BY <2>1, <2>2
  <1>5. \A i \in 1..Len(Tail(q)) : i + 1 \in 1..Len(q)
    BY <1>2, <1>3
  <1>. QED
    BY <1>1, <1>2, <1>3, <1>4, <1>5

\* A queue with a message more: the same messages, and that one at its end.
LEMMA AppendQueue ==
  ASSUME NEW M, NEW q \in Seq(M), NEW x \in M
  PROVE  /\ Append(q, x) \in Seq(M) /\ Len(q) \in Nat /\ Len(Append(q, x)) = Len(q) + 1
         /\ \A i \in 1..Len(q) : i \in 1..Len(Append(q, x)) /\ Append(q, x)[i] = q[i]
         /\ Append(q, x)[Len(q) + 1] = x
         /\ \A i \in 1..Len(Append(q, x)) : i \in 1..Len(q) \/ i = Len(q) + 1
  <1>1. Append(q, x) \in Seq(M) /\ Len(q) \in Nat /\ Len(Append(q, x)) = Len(q) + 1
    BY AppendProperties, LenProperties
  <1>2. \A i \in 1..Len(q) : Append(q, x)[i] = q[i]
    BY AppendProperties
  <1>3. Append(q, x)[Len(q) + 1] = x
    BY AppendProperties
  <1>4. \A i \in 1..(Len(q) + 1) : i \in 1..Len(q) \/ i = Len(q) + 1
    BY <1>1
  <1>. QED
    BY <1>1, <1>2, <1>3, <1>4

\* The next item is stored, or what is read is not an item.
LEMMA TailOrdered ==
  ASSUME NEW q \in Seq(UpMessage), q # <<>>, NEW items, NEW st, NEW st2, st \subseteq st2,
         Head(q).t = "item" => Head(q).seq \in st2
  PROVE  /\ Ordered(q, items, st) => Ordered(Tail(q), items, st2)
         /\ \A n : Complete(q, n, st) => Complete(Tail(q), n, st2)
  <1>. DEFINE p == Tail(q)
  <1>0. /\ p \in Seq(UpMessage) /\ Len(p) \in Nat /\ Len(q) = Len(p) + 1
        /\ \A i \in 1..Len(p) : i + 1 \in 1..Len(q) /\ p[i] = q[i + 1]
        /\ Head(q) = q[1]
        /\ \A i \in 1..Len(q) : i # 1 => i - 1 \in 1..Len(p) /\ p[i - 1] = q[i]
    BY TailQueue
  <1>. HIDE DEF p
  <1>1. ASSUME NEW i \in 1..(Len(p) + 1), NEW k, Before(q, i + 1, k)
        PROVE  k \in st2 \/ Before(p, i, k)
    <2>1. PICK j \in 1..((i + 1) - 1) : q[j].t = "item" /\ q[j].seq = k
      BY <1>1 DEF Before
    <2>2. CASE j = 1
      BY <1>0, <2>1, <2>2
    <2>3. CASE j # 1
      <3>1. j \in 1..Len(q) /\ j - 1 \in 1..(i - 1)
        BY <1>0, <2>3
      <3>2. p[j - 1] = q[j]
        BY <1>0, <2>3, <3>1
      <3>. QED
        BY <2>1, <3>1, <3>2 DEF Before
    <2>. QED
      BY <2>2, <2>3
  <1>2. ASSUME Ordered(q, items, st) PROVE Ordered(p, items, st2)
    <2>. SUFFICES ASSUME NEW i \in 1..Len(p), p[i].t = "item"
                  PROVE  /\ p[i].seq \in 1..Len(items) /\ p[i].item = items[p[i].seq]
                         /\ \A k \in 1..(p[i].seq - 1) : k \in st2 \/ Before(p, i, k)
      BY DEF Ordered
    <2>1. i + 1 \in 1..Len(q) /\ p[i] = q[i + 1] /\ i \in 1..(Len(p) + 1)
      BY <1>0
    <2>2. /\ p[i].seq \in 1..Len(items) /\ p[i].item = items[p[i].seq]
          /\ \A k \in 1..(p[i].seq - 1) : k \in st \/ Before(q, i + 1, k)
      BY <1>2, <2>1 DEF Ordered
    <2>. QED
      BY <1>1, <2>1, <2>2
  <1>3. ASSUME NEW n, Complete(q, n, st) PROVE Complete(p, n, st2)
    <2>1. \A k \in 1..n : k \in st \/ Before(q, (Len(p) + 1) + 1, k)
      BY <1>0, <1>3 DEF Complete
    <2>2. Len(p) + 1 \in 1..(Len(p) + 1)
      BY <1>0
    <2>. QED
      BY <1>1, <2>1, <2>2 DEF Complete
  <1>. QED
    BY <1>2, <1>3 DEF p

\* The RTE sends something else.
LEMMA AppendOrdered ==
  ASSUME NEW q \in Seq(UpMessage), NEW m \in UpMessage, m.t # "item", NEW items, NEW st
  PROVE  /\ Ordered(q, items, st) => Ordered(Append(q, m), items, st)
         /\ \A n : Complete(q, n, st) => Complete(Append(q, m), n, st)
  <1>. DEFINE p == Append(q, m)
  <1>0. /\ Len(q) \in Nat /\ Len(p) = Len(q) + 1 /\ p[Len(q) + 1] = m
        /\ \A i \in 1..Len(q) : i \in 1..Len(p) /\ p[i] = q[i]
        /\ \A i \in 1..Len(p) : i \in 1..Len(q) \/ i = Len(q) + 1
    BY AppendQueue
  <1>. HIDE DEF p
  <1>1. ASSUME NEW i \in 1..(Len(q) + 1), NEW k, Before(q, i, k)
        PROVE  Before(p, i, k)
    <2>1. PICK j \in 1..(i - 1) : q[j].t = "item" /\ q[j].seq = k
      BY <1>1 DEF Before
    <2>2. j \in 1..Len(q)
      BY <1>0
    <2>. QED
      BY <1>0, <2>1, <2>2 DEF Before
  <1>2. ASSUME Ordered(q, items, st) PROVE Ordered(p, items, st)
    <2>. SUFFICES ASSUME NEW i \in 1..Len(p), p[i].t = "item"
                  PROVE  /\ p[i].seq \in 1..Len(items) /\ p[i].item = items[p[i].seq]
                         /\ \A k \in 1..(p[i].seq - 1) : k \in st \/ Before(p, i, k)
      BY DEF Ordered
    <2>1. i \in 1..Len(q) /\ p[i] = q[i] /\ i \in 1..(Len(q) + 1)
      BY <1>0
    <2>. QED
      BY <1>1, <1>2, <2>1 DEF Ordered
  <1>3. ASSUME NEW n, Complete(q, n, st) PROVE Complete(p, n, st)
    <2>1. \A k : Before(q, Len(q) + 1, k) => Before(p, Len(q) + 1, k)
      BY <1>0, <1>1
    <2>2. \A k : Before(p, Len(q) + 1, k) => Before(p, Len(p) + 1, k)
      BY <1>0 DEF Before
    <2>. QED
      BY <1>3, <2>1, <2>2 DEF Complete
  <1>. QED
    BY <1>2, <1>3 DEF p

\* More is stored, or more is in the spool.
LEMMA OrderedGrows ==
  ASSUME NEW q, NEW items, NEW items2, NEW st, NEW st2, st \subseteq st2,
         Len(items) \in Nat, Len(items2) \in Nat, Prefix(items, items2)
  PROVE  /\ Ordered(q, items, st) => Ordered(q, items2, st2)
         /\ \A n : Complete(q, n, st) => Complete(q, n, st2)
  <1>1. \A k \in 1..Len(items) : k \in 1..Len(items2) /\ items[k] = items2[k]
    BY DEF Prefix
  <1>2. ASSUME Ordered(q, items, st) PROVE Ordered(q, items2, st2)
    <2>. SUFFICES ASSUME NEW i \in 1..Len(q), q[i].t = "item"
                  PROVE  /\ q[i].seq \in 1..Len(items2) /\ q[i].item = items2[q[i].seq]
                         /\ \A k \in 1..(q[i].seq - 1) : k \in st2 \/ Before(q, i, k)
      BY DEF Ordered
    <2>1. /\ q[i].seq \in 1..Len(items) /\ q[i].item = items[q[i].seq]
          /\ \A k \in 1..(q[i].seq - 1) : k \in st \/ Before(q, i, k)
      BY <1>2 DEF Ordered
    <2>2. q[i].seq \in 1..Len(items2) /\ q[i].item = items2[q[i].seq]
      BY <1>1, <2>1
    <2>. QED
      BY <2>1, <2>2
  <1>. QED
    BY <1>2 DEF Complete

\* pump goes on where it stopped.
LEMMA PumpOrdered ==
  ASSUME NEW q \in Seq(UpMessage), NEW p \in Seq(UpMessage), NEW items, NEW st,
         NEW next \in Nat \ {0}, NEW last \in Nat, next <= last, last <= Len(items), Len(items) \in Nat,
         Len(p) = last - next + 1,
         \A k \in 1..Len(p) : p[k] = [t |-> "item", seq |-> next + k - 1, item |-> items[next + k - 1]],
         Ordered(q, items, st), Complete(q, next - 1, st)
  PROVE  Ordered(q \o p, items, st) /\ Complete(q \o p, last, st)
  <1>. DEFINE r == q \o p
  <1>0. /\ Len(q) \in Nat /\ Len(p) \in Nat /\ Len(r) = Len(q) + Len(p)
        /\ \A i \in 1..Len(r) : r[i] = IF i <= Len(q) THEN q[i] ELSE p[i - Len(q)]
    <2>1. Len(q) \in Nat /\ Len(p) \in Nat
      BY LenProperties
    <2>2. Len(r) = Len(q) + Len(p)
      BY ConcatProperties
    <2>3. \A i \in 1..(Len(q) + Len(p)) : r[i] = IF i <= Len(q) THEN q[i] ELSE p[i - Len(q)]
      BY ConcatProperties
    <2>. QED
      BY <2>1, <2>2, <2>3
  <1>. HIDE DEF r
  <1>1. \A i \in 1..Len(q) : i \in 1..Len(r) /\ r[i] = q[i]
    BY <1>0, SMTT(30)
  <1>2. \A k \in 1..Len(p) : Len(q) + k \in 1..Len(r) /\ r[Len(q) + k] = p[k]
    <2>. SUFFICES ASSUME NEW k \in 1..Len(p) PROVE Len(q) + k \in 1..Len(r) /\ r[Len(q) + k] = p[k]
      OBVIOUS
    <2>1. Len(q) + k \in 1..Len(r) /\ ~(Len(q) + k <= Len(q)) /\ (Len(q) + k) - Len(q) = k
      BY <1>0
    <2>. QED
      BY <1>0, <2>1
  <1>3. \A k \in 1..Len(p) : next + k - 1 \in 1..Len(items)
    BY <1>0
  <1>4. ASSUME NEW k \in 1..last, NEW n \in 1..(Len(p) + 1), k < next + n - 1
        PROVE  k \in st \/ Before(r, Len(q) + n, k)
    <2>1. CASE k <= next - 1
      <3>1. k \in st \/ Before(q, Len(q) + 1, k)
        BY <2>1 DEF Complete
      <3>2. ASSUME Before(q, Len(q) + 1, k) PROVE Before(r, Len(q) + n, k)
        <4>1. PICK j \in 1..((Len(q) + 1) - 1) : q[j].t = "item" /\ q[j].seq = k
          BY <3>2 DEF Before
        <4>2. j \in 1..Len(q) /\ j \in 1..((Len(q) + n) - 1)
          BY <1>0
        <4>. QED
          BY <1>1, <4>1, <4>2 DEF Before
      <3>. QED
        BY <3>1, <3>2
    <2>2. CASE ~(k <= next - 1)
      <3>. DEFINE j == k - next + 1
      <3>1. j \in 1..Len(p) /\ next + j - 1 = k /\ Len(q) + j \in 1..((Len(q) + n) - 1)
        BY <1>0, <1>4, <2>2
      <3>2. r[Len(q) + j] = [t |-> "item", seq |-> next + j - 1, item |-> items[next + j - 1]]
        BY <1>2, <3>1
      <3>. HIDE DEF j
      <3>3. r[Len(q) + j].t = "item" /\ r[Len(q) + j].seq = k
        BY <3>1, <3>2
      <3>. QED
        BY <3>1, <3>3 DEF Before
    <2>. QED
      BY <2>1, <2>2
  <1>5. Ordered(r, items, st)
    <2>. SUFFICES ASSUME NEW i \in 1..Len(r), r[i].t = "item"
                  PROVE  /\ r[i].seq \in 1..Len(items) /\ r[i].item = items[r[i].seq]
                         /\ \A k \in 1..(r[i].seq - 1) : k \in st \/ Before(r, i, k)
      BY DEF Ordered
    <2>1. CASE i <= Len(q)
      <3>1. i \in 1..Len(q) /\ r[i] = q[i]
        BY <1>0, <1>1, <2>1
      <3>2. \A k : Before(q, i, k) => Before(r, i, k)
        <4>1. \A j \in 1..(i - 1) : j \in 1..Len(q)
          BY <1>0, <3>1
        <4>. QED
          BY <1>1, <4>1 DEF Before
      <3>. QED
        BY <3>1, <3>2 DEF Ordered
    <2>2. CASE ~(i <= Len(q))
      <3>. DEFINE n == i - Len(q)
      <3>1. n \in 1..Len(p) /\ i = Len(q) + n
        BY <1>0, <2>2, SMTT(30)
      <3>2. r[i] = [t |-> "item", seq |-> next + n - 1, item |-> items[next + n - 1]]
        BY <1>2, <3>1
      <3>. HIDE DEF n
      <3>3. r[i].seq = next + n - 1 /\ r[i].item = items[next + n - 1]
        BY <3>2
      <3>4. n \in 1..(Len(p) + 1) /\ next + n - 1 <= last /\ \A k \in 1..(next + n - 1 - 1) : k \in 1..last /\ k < next + n - 1
        BY <1>0, <3>1
      <3>. QED
        BY <1>3, <1>4, <3>1, <3>3, <3>4, SMTT(30)
    <2>. QED
      BY <2>1, <2>2
  <1>6. Complete(r, last, st)
    <2>1. Len(p) + 1 \in 1..(Len(p) + 1) /\ Len(q) + (Len(p) + 1) = Len(r) + 1
          /\ \A k \in 1..last : k < next + (Len(p) + 1) - 1
      BY <1>0, SMTT(30)
    <2>. QED
      BY <1>4, <2>1 DEF Complete
  <1>. QED
    BY <1>5, <1>6 DEF r
-----------------------------------------------------------------------------
(* What the app does to the sockets                                        *)

\* A message is in a queue.
Has(q, m) == \E i \in 1..Len(q) : q[i] = m

\* What the RTE sent is there, or the session is closed and the rest of it is lost; what goes to the
\* RTE is what did, or of M.
Kept(ss, tt, M) ==
  \A s \in Conn :
    /\ tt[s].failed = ss[s].failed
    /\ ss[s].hub = "closed" => tt[s].hub = "closed"
    /\ tt[s].hub # "closed" => tt[s].up = ss[s].up
    /\ Prefix(tt[s].up, ss[s].up)
    /\ \A m : Has(tt[s].down, m) => Has(ss[s].down, m) \/ m \in M

\* A message more is all an append brings.
LEMMA HasAppend ==
  ASSUME NEW M, NEW q \in Seq(M), NEW x \in M
  PROVE  \A m : Has(Append(q, x), m) <=> Has(q, m) \/ m = x
  <1>1. /\ Len(q) \in Nat /\ Len(Append(q, x)) = Len(q) + 1
        /\ \A i \in 1..Len(q) : i \in 1..Len(Append(q, x)) /\ Append(q, x)[i] = q[i]
        /\ Append(q, x)[Len(q) + 1] = x
        /\ \A i \in 1..Len(Append(q, x)) : i \in 1..Len(q) \/ i = Len(q) + 1
    BY AppendQueue
  <1>2. Len(q) + 1 \in 1..Len(Append(q, x))
    BY <1>1
  <1>. QED
    BY <1>1, <1>2 DEF Has

\* The head is all a read takes.
LEMMA HasTail ==
  ASSUME NEW M, NEW q \in Seq(M), q # <<>>
  PROVE  /\ \A m : Has(q, m) <=> Has(Tail(q), m) \/ m = Head(q)
         /\ Has(q, Head(q)) /\ Head(q) \in M
  <1>1. /\ Tail(q) \in Seq(M) /\ Len(Tail(q)) \in Nat /\ Len(q) = Len(Tail(q)) + 1
        /\ \A i \in 1..Len(Tail(q)) : i + 1 \in 1..Len(q) /\ Tail(q)[i] = q[i + 1]
        /\ Head(q) = q[1] /\ Head(q) \in M
        /\ \A i \in 1..Len(q) : i # 1 => i - 1 \in 1..Len(Tail(q)) /\ Tail(q)[i - 1] = q[i]
    BY TailQueue
  <1>2. 1 \in 1..Len(q)
    BY <1>1
  <1>. QED
    BY <1>1, <1>2, ZenonT(30) DEF Has

\* What a queue holds is of its type.
LEMMA HasTyped ==
  ASSUME NEW M, NEW q \in Seq(M), NEW m, Has(q, m)
  PROVE  m \in M
  BY ElementOfSeq DEF Has

\* A queue is a prefix of itself.
LEMMA PrefixSelf == \A M : \A q \in Seq(M) : Prefix(q, q)
  BY LenProperties DEF Prefix

\* Sockets left alone are kept.
LEMMA KeptSelf ==
  ASSUME NEW ss \in Sessions, NEW M
  PROVE  Kept(ss, ss, M)
  BY PrefixSelf DEF Kept, Sessions, Session

\* Two steps that keep the sockets keep them.
LEMMA KeptOn ==
  ASSUME NEW ss \in Sessions, NEW tt \in Sessions, NEW uu \in Sessions, NEW M,
         Kept(ss, tt, M), Kept(tt, uu, M)
  PROVE  Kept(ss, uu, M)
  <1>. SUFFICES ASSUME NEW s \in Conn
                PROVE  /\ uu[s].failed = ss[s].failed
                       /\ ss[s].hub = "closed" => uu[s].hub = "closed"
                       /\ uu[s].hub # "closed" => uu[s].up = ss[s].up
                       /\ Prefix(uu[s].up, ss[s].up)
                       /\ \A m : Has(uu[s].down, m) => Has(ss[s].down, m) \/ m \in M
    BY DEF Kept
  <1>1. Prefix(uu[s].up, tt[s].up) /\ Prefix(tt[s].up, ss[s].up)
    BY DEF Kept
  <1>2. Len(uu[s].up) \in Nat /\ Len(tt[s].up) \in Nat /\ Len(ss[s].up) \in Nat
    BY LenProperties DEF Sessions, Session
  <1>3. Prefix(uu[s].up, ss[s].up)
    <2>1. Len(uu[s].up) <= Len(ss[s].up) /\ \A i \in 1..Len(uu[s].up) : i \in 1..Len(tt[s].up)
      BY <1>1, <1>2, SMTT(30) DEF Prefix
    <2>. QED
      BY <1>1, <2>1 DEF Prefix
  <1>. QED
    BY <1>3 DEF Kept

\* What the app does to a socket keeps what came on it, and adds what it sends.
LEMMA SocketKeeps ==
  ASSUME NEW ss \in Sessions, NEW s \in Conn \cup {0}, NEW M
  PROVE  /\ \A m \in DownMessage : m \in M => Kept(ss, Sent(ss, s, m), M)
         /\ Kept(ss, Closing(ss, s), M)
         /\ Kept(ss, Marked(ss, s), M)
         /\ \A n : Kept(ss, Forgotten(ss, n), M)
         /\ \A h \in {"hello", "welcomed", "ready", "closing"} :
              s \in Conn /\ ss[s].hub # "closed" => Kept(ss, [ss EXCEPT ![s].hub = h], M)
         /\ \A h \in {"hello", "welcomed", "ready", "closing"} :
              s \in Conn /\ ss[s].hub # "closed" => Kept(ss, [ss EXCEPT ![s].hub = h, ![s].knew = FALSE], M)
  <1>0. /\ \A u \in Conn : Prefix(ss[u].up, ss[u].up)
        /\ \A u \in Conn : ss[u] \in Session /\ ss[u].down \in Seq(DownMessage)
    BY PrefixSelf DEF Sessions, Session
  <1>1. ASSUME NEW m \in DownMessage, m \in M PROVE Kept(ss, Sent(ss, s, m), M)
    <2>. DEFINE tt == [ss EXCEPT ![s].down = Append(@, m)]
    <2>1. CASE Sent(ss, s, m) = ss
      BY <2>1, KeptSelf
    <2>2. CASE Sent(ss, s, m) = tt /\ s = cur /\ s \in Conn
      <3>1. \A x : Has(Append(ss[s].down, m), x) => Has(ss[s].down, x) \/ x = m
        BY <1>0, <2>2, HasAppend
      <3>2. \A u \in Conn : /\ tt[u].failed = ss[u].failed /\ tt[u].hub = ss[u].hub /\ tt[u].up = ss[u].up
                            /\ tt[u].down = IF u = s THEN Append(ss[s].down, m) ELSE ss[u].down
        BY <1>0, <2>2 DEF Sessions, Session
      <3>3. Kept(ss, tt, M)
        BY <1>0, <1>1, <3>1, <3>2, Zenon DEF Kept
      <3>. QED
        BY <2>2, <3>3
    <2>3. s = 0 => Sent(ss, s, m) = ss \/ Sent(ss, s, m) = tt
      BY DEF Sent
    <2>4. CASE s = 0
      <3>1. tt = ss
        BY <2>4 DEF Sessions, Conn
      <3>. QED
        BY <2>1, <2>3, <2>4, <3>1
    <2>. QED
      BY <2>1, <2>2, <2>4 DEF Sent
  <1>2. Kept(ss, Closing(ss, s), M)
    <2>1. Closing(ss, s) = ss \/ (s \in Conn /\ ss[s].hub # "closed" /\ Closing(ss, s) = [ss EXCEPT ![s].hub = "closing"])
      BY DEF Closing
    <2>2. ASSUME s \in Conn, ss[s].hub # "closed" PROVE Kept(ss, [ss EXCEPT ![s].hub = "closing"], M)
      BY <1>0, <2>2 DEF Kept, Sessions, Session
    <2>. QED
      BY <2>1, <2>2, KeptSelf
  <1>3. Kept(ss, Marked(ss, s), M)
    BY <1>0 DEF Kept, Marked, Sessions, Session
  <1>4. \A n : Kept(ss, Forgotten(ss, n), M)
    BY <1>0 DEF Kept, Forgotten, Sessions, Session
  <1>5. ASSUME NEW h \in {"hello", "welcomed", "ready", "closing"}, s \in Conn, ss[s].hub # "closed"
        PROVE  /\ Kept(ss, [ss EXCEPT ![s].hub = h], M)
               /\ Kept(ss, [ss EXCEPT ![s].hub = h, ![s].knew = FALSE], M)
    BY <1>0, <1>5 DEF Kept, Sessions, Session
  <1>. QED
    BY <1>1, <1>2, <1>3, <1>4, <1>5
-----------------------------------------------------------------------------
(* The steps that leave what the RTE has and what it sent alone            *)

\* What the app sends that brings no ack, and a hand-over only of a job that is there.
Harmless == {m \in DownMessage : m.t # "ack" /\ (m.t = "run" => row.status # "absent")}

\* The app's own steps : the output grows by lines of the app, nothing of the RTE's changes, and what
\* it sent is still to be read, but on a session that closed.
Quiet ==
  /\ UNCHANGED <<cur, rte>> /\ hist'.runs = hist.runs /\ hist'.written = hist.written
  /\ lines \subseteq lines' /\ \A l \in lines' : l \in lines \/ l.run = 0
  /\ row'.status = "running" => row.status \in {"running", "absent"}
  /\ row'.status = "absent" => row.status = "absent"
  /\ row'.status = "success" => row.status = "success"
  /\ Kept(sess, sess', Harmless)

\* A line of the app is a line more, of no run.
LEMMA AppLineGrows ==
  ASSUME TypeInv
  PROVE  lines \subseteq AppLine /\ \A l \in AppLine : l \in lines \/ l.run = 0
  BY DEF AppLine

\* The nodes' steps are quiet.
LEMMA AppQuiet ==
  ASSUME TypeInv, NEW n \in AppNode, App(n)
  PROVE  Quiet
  <1>0. /\ TypeOK /\ sess \in Sessions /\ row \in Row
        /\ lines \subseteq [run : Nat, order : Nat] /\ "aborted" \in Outcome /\ LastOrder \in Nat
        /\ lines \subseteq AppLine /\ \A l \in AppLine : l \in lines \/ l.run = 0
        /\ Kept(sess, sess, Harmless) /\ Moves(row, row)
        /\ hist \in [runs : Nat, written : SUBSET [run : Nat, order : Nat], soon : BOOLEAN]
    BY AppLineTyping, AppLineGrows, KeptSelf, StayingMoves DEF TypeInv, TypeOK, Sessions, AppNode, Outcome
  <1>1. CASE Launch(n)
    <2>1. row.status = "absent" /\ row' = CreateRow(row, n) /\ UNCHANGED <<lines, sess, cur, rte, hist>>
      BY <1>1 DEF Launch
    <2>2. row'.status = "running"
      BY <1>0, <2>1 DEF CreateRow, Row
    <2>. QED
      BY <1>0, <2>1, <2>2 DEF Quiet, Moves
  <1>2. CASE Announce(n)
    BY <1>0, <1>2 DEF Announce, HandMoves, Quiet, Moves
  <1>3. CASE Dispatch(n)
    BY <1>0, <1>3 DEF Dispatch, dbVars, Quiet, Moves
  <1>4. CASE AbortWhileWaiting(n)
    <2>1. /\ row' = EndRow(row, "aborted") /\ lines' \in {AppLine, lines} /\ UNCHANGED <<sess, cur, rte, hist>>
      BY <1>4 DEF AbortWhileWaiting
    <2>2. Moves(row, row') /\ row'.status \in {row.status, "aborted"}
      BY <1>0, <2>1, EndMoves
    <2>. QED
      BY <1>0, <2>1, <2>2 DEF Quiet, Moves
  <1>5. CASE HandOver(n)
    <2>1. UNCHANGED <<lines, cur, rte, hist>>
      BY <1>5 DEF HandOver, HandMoves
    <2>2. row' = row \/ row' = [row EXCEPT !.host = Rte]
      BY <1>5 DEF HandOver
    <2>3. Moves(row, row') /\ row'.status = row.status
      <3>1. Rte \in Node \cup {NoNode}
        BY RteAssumption
      <3>2. CASE row' = [row EXCEPT !.host = Rte]
        BY <1>0, <3>1, <3>2, HostMoves
      <3>3. CASE row' = row
        BY <1>0, <3>3, StayingMoves
      <3>. QED
        BY <2>2, <3>2, <3>3
    <2>. DEFINE m == [t |-> "run", last |-> LastOrder]
    <2>4. sess' = sess \/ (Free(row) /\ sess' = Sent(sess, hand[n].s, m))
      BY <1>5 DEF HandOver
    <2>5. m \in DownMessage /\ (Free(row) => m \in Harmless)
      BY <1>0, MessageTyping DEF Free, Harmless
    <2>6. hand[n].s \in Conn \cup {0}
      BY <1>0 DEF TypeOK, Hand
    <2>7. Kept(sess, sess', Harmless)
      <3>. HIDE DEF m
      <3>1. Free(row) => Kept(sess, Sent(sess, hand[n].s, m), Harmless)
        BY <1>0, <2>5, <2>6, SocketKeeps
      <3>. QED
        BY <1>0, <2>4, <3>1
    <2>. QED
      BY <1>0, <2>1, <2>3, <2>7 DEF Quiet, Moves
  <1>6. CASE Say(n)
    BY <1>0, <1>6 DEF Say, HandMoves, Quiet, Moves
  <1>7. CASE ClaimTimeout(n)
    BY <1>0, <1>7 DEF ClaimTimeout, HandMoves, Quiet, Moves
  <1>8. CASE GiveBack(n)
    <2>1. UNCHANGED <<lines, sess, cur, rte, hist>>
      BY <1>8 DEF GiveBack, HandMoves
    <2>2. row' = row \/ row' = [row EXCEPT !.host = NoNode]
      BY <1>8 DEF GiveBack
    <2>3. Moves(row, row') /\ row'.status = row.status
      BY <1>0, <2>2, HostMoves
    <2>. QED
      BY <1>0, <2>1, <2>3 DEF Quiet, Moves
  <1>9. CASE FailJob(n)
    <2>1. UNCHANGED <<cur, rte, hist>> /\ sess' = Forgotten(sess, n) /\ row' = FailRow(row) /\ lines' \in {AppLine, lines}
      BY <1>9 DEF FailJob, Fails, HandMoves
    <2>2. Moves(row, row') /\ row'.status \in {row.status, "failed"}
      BY <1>0, <2>1, FailMoves
    <2>3. Kept(sess, sess', Harmless)
      BY <1>0, <2>1, SocketKeeps
    <2>. QED
      BY <1>0, <2>1, <2>2, <2>3 DEF Quiet, Moves
  <1>10. CASE RequestAbort(n)
    <2>. DEFINE m == [t |-> "cancel"]
    <2>1. /\ UNCHANGED <<lines, cur, rte>> /\ row' = RequestAbortRow(row) /\ row.status = "running"
          /\ hist' = [hist EXCEPT !.soon = (follower = "launches")]
          /\ \/ sess' = sess \/ sess' = Sent(sess, reg[n], m) \/ sess' = Marked(Sent(sess, reg[n], m), reg[n])
      BY <1>10 DEF RequestAbort
    <2>2. row'.status = row.status
      BY <1>0, <2>1 DEF RequestAbortRow, Row
    <2>3. reg[n] \in Conn \cup {0} /\ m \in Harmless
      BY <1>0, MessageTyping DEF TypeOK, Harmless
    <2>. HIDE DEF m
    <2>4. /\ Sent(sess, reg[n], m) \in Sessions /\ Marked(Sent(sess, reg[n], m), reg[n]) \in Sessions
          /\ Kept(sess, Sent(sess, reg[n], m), Harmless)
      BY <1>0, <2>3, SocketKeeps, SocketTyping DEF Harmless
    <2>5. Kept(Sent(sess, reg[n], m), Marked(Sent(sess, reg[n], m), reg[n]), Harmless)
      BY <2>3, <2>4, SocketKeeps
    <2>6. Kept(sess, Marked(Sent(sess, reg[n], m), reg[n]), Harmless)
      BY <1>0, <2>4, <2>5, KeptOn
    <2>7. Kept(sess, sess', Harmless)
      BY <1>0, <2>1, <2>4, <2>6
    <2>8. hist'.runs = hist.runs /\ hist'.written = hist.written
      BY <1>0, <2>1
    <2>. QED
      BY <1>0, <2>1, <2>2, <2>7, <2>8 DEF Quiet, Moves
  <1>11. CASE DispatchCancel(n)
    <2>. DEFINE m == [t |-> "cancel"]
    <2>1. /\ UNCHANGED <<dbVars, cur, rte, hist>>
          /\ sess' = Marked(Sent(sess, reg[n], m), reg[n])
      BY <1>11 DEF DispatchCancel
    <2>3. reg[n] \in Conn \cup {0} /\ m \in Harmless
      BY <1>0, MessageTyping DEF TypeOK, Harmless
    <2>. HIDE DEF m
    <2>4. /\ Sent(sess, reg[n], m) \in Sessions /\ Marked(Sent(sess, reg[n], m), reg[n]) \in Sessions
          /\ Kept(sess, Sent(sess, reg[n], m), Harmless)
      BY <1>0, <2>3, SocketKeeps, SocketTyping DEF Harmless
    <2>5. Kept(Sent(sess, reg[n], m), Marked(Sent(sess, reg[n], m), reg[n]), Harmless)
      BY <2>3, <2>4, SocketKeeps
    <2>6. Kept(sess, sess', Harmless)
      BY <1>0, <2>1, <2>4, <2>5, KeptOn
    <2>. QED
      BY <1>0, <2>1, <2>6 DEF Quiet, Moves, dbVars
  <1>12. CASE Crash(n)
    <2>1. UNCHANGED <<dbVars, cur, rte, hist>>
      BY <1>12 DEF Crash
    <2>2. \A s \in Conn : sess'[s] = sess[s] \/ sess'[s] = [sess[s] EXCEPT !.hub = "closed", !.up = <<>>,
                                                              !.cancelled = FALSE, !.knew = FALSE]
      BY <1>12 DEF Crash
    <2>3. \A s \in Conn : Prefix(sess[s].up, sess[s].up) /\ Prefix(<<>>, sess[s].up)
      <3>1. \A s \in Conn : sess[s].up \in Seq(UpMessage) /\ Len(sess[s].up) \in Nat
        BY <1>0, LenProperties DEF Sessions, Session
      <3>2. Len(<<>>) = 0
        BY EmptySeq
      <3>. QED
        BY <3>1, <3>2, PrefixSelf DEF Prefix
    <2>4. Kept(sess, sess', Harmless)
      <3>. SUFFICES ASSUME NEW s \in Conn
                    PROVE  /\ sess'[s].failed = sess[s].failed
                           /\ sess[s].hub = "closed" => sess'[s].hub = "closed"
                           /\ sess'[s].hub # "closed" => sess'[s].up = sess[s].up
                           /\ Prefix(sess'[s].up, sess[s].up)
                           /\ sess'[s].down = sess[s].down
        BY DEF Kept
      <3>. DEFINE none == <<>>
      <3>1. sess[s] \in Session /\ Prefix(none, sess[s].up) /\ Prefix(sess[s].up, sess[s].up)
            /\ (sess'[s] = sess[s] \/ sess'[s] = [sess[s] EXCEPT !.hub = "closed", !.up = none,
                                                              !.cancelled = FALSE, !.knew = FALSE])
        BY <1>0, <2>2, <2>3 DEF Sessions
      <3>. HIDE DEF none
      <3>. QED
        BY <3>1 DEF Session
    <2>. QED
      BY <1>0, <2>1, <2>4 DEF Quiet, Moves, dbVars
  <1>13. CASE Start(n)
    <2>1. UNCHANGED <<lines, sess, cur, rte, hist>> /\ row' = AbandonOwnRow(row, n, FALSE)
      BY <1>13 DEF Start
    <2>2. Moves(row, row') /\ row'.status \in {row.status, "abandoned"}
      BY <1>0, <2>1, SweepMoves
    <2>. QED
      BY <1>0, <2>1, <2>2 DEF Quiet, Moves
  <1>14. CASE Sweep(n)
    <2>1. UNCHANGED <<lines, sess, cur, rte, hist>> /\ row' = AbandonDeadRow(row, n, alive, IF seen THEN {Rte} ELSE {})
      BY <1>14 DEF Sweep
    <2>2. Moves(row, row') /\ row'.status \in {row.status, "abandoned"}
      BY <1>0, <2>1, SweepMoves
    <2>. QED
      BY <1>0, <2>1, <2>2 DEF Quiet, Moves
  <1>. QED
    BY <1>1, <1>2, <1>3, <1>4, <1>5, <1>6, <1>7, <1>8, <1>9, <1>10, <1>11, <1>12, <1>13, <1>14 DEF App

\* The follower's steps, the clock's and stuttering are quiet.
LEMMA OtherQuiet ==
  ASSUME TypeInv, TrackSocket \/ Away \/ UNCHANGED vars
  PROVE  Quiet
  <1>0. /\ TypeOK /\ sess \in Sessions /\ row \in Row
        /\ lines \subseteq AppLine /\ \A l \in AppLine : l \in lines \/ l.run = 0
        /\ Kept(sess, sess, Harmless) /\ Moves(row, row)
    BY AppLineGrows, KeptSelf, StayingMoves DEF TypeInv, TypeOK, Sessions
  <1>1. UNCHANGED <<sess, cur, rte, hist>>
    BY DEF TrackSocket, Away, vars
  <1>2. (row' = row /\ lines' = lines) \/ (row' = FailRow(row) /\ lines' \in {AppLine, lines})
    BY DEF TrackSocket, Fails, Away, vars, dbVars
  <1>3. Moves(row, row') /\ row'.status \in {row.status, "failed"}
    BY <1>0, <1>2, FailMoves
  <1>. QED
    BY <1>0, <1>1, <1>2, <1>3 DEF Quiet, Moves

\* A socket that is welcomed, settled or closed is a quiet step.
LEMMA HubQuiet ==
  ASSUME TypeInv, NEW s \in Conn, Welcome(s) \/ Settle(s) \/ SessionCloses(s)
  PROVE  Quiet
  <1>0. /\ TypeOK /\ sess \in Sessions /\ sess[s] \in Session /\ row \in Row
        /\ Kept(sess, sess, Harmless) /\ Moves(row, row)
    BY KeptSelf, StayingMoves DEF TypeInv, TypeOK, Sessions
  <1>1. CASE Welcome(s)
    <2>. DEFINE ss == [sess EXCEPT ![s].hub = "welcomed"]
                m == [t |-> "welcome"]
    <2>1. ss \in Sessions /\ Kept(sess, ss, Harmless)
      BY <1>0, <1>1, SocketKeeps DEF Welcome, Sessions, Session
    <2>2. m \in Harmless /\ UNCHANGED <<dbVars, cur, rte, hist>> /\ sess' = Sent(ss, s, m)
      BY <1>1, MessageTyping DEF Welcome, Harmless
    <2>. HIDE DEF ss, m
    <2>3. Kept(ss, sess', Harmless) /\ sess' \in Sessions
      BY <2>1, <2>2, SocketKeeps, SocketTyping DEF Harmless
    <2>4. Kept(sess, sess', Harmless)
      BY <1>0, <2>1, <2>3, KeptOn
    <2>. QED
      BY <1>0, <2>2, <2>4 DEF Quiet, Moves, dbVars
  <1>2. CASE Settle(s)
    <2>. DEFINE ss == [sess EXCEPT ![s].hub = "ready", ![s].knew = FALSE]
    <2>1. ss \in Sessions /\ Kept(sess, ss, Harmless)
      BY <1>0, <1>2, SocketKeeps DEF Settle, Sessions, Session
    <2>2. /\ UNCHANGED <<lines, cur, rte, hist>>
          /\ sess' = ss \/ sess' = Forgotten(ss, sess[s].node)
          /\ row' = row \/ row' = AbandonJobs(row)
      BY <1>2 DEF Settle
    <2>. HIDE DEF ss
    <2>3. Kept(ss, sess', Harmless) /\ sess' \in Sessions
      BY <2>1, <2>2, SocketKeeps, SocketTyping, KeptSelf
    <2>4. Kept(sess, sess', Harmless)
      BY <1>0, <2>1, <2>3, KeptOn
    <2>5. Moves(row, row') /\ row'.status \in {row.status, "abandoned"}
      BY <1>0, <2>2, AbandonJobsMoves
    <2>. QED
      BY <1>0, <2>2, <2>4, <2>5 DEF Quiet, Moves
  <1>3. CASE SessionCloses(s)
    <2>1. PICK k \in 0..Len(sess[s].up) :
            sess' = [sess EXCEPT ![s].hub = "closed", ![s].cancelled = FALSE, ![s].knew = FALSE,
                                 ![s].up = SubSeq(@, 1, k)]
      BY <1>3 DEF SessionCloses
    <2>2. UNCHANGED <<dbVars, cur, rte, hist>>
      BY <1>3 DEF SessionCloses
    <2>. DEFINE u == SubSeq(sess[s].up, 1, k)
    <2>3. Prefix(u, sess[s].up)
      <3>1. sess[s].up \in Seq(UpMessage) /\ Len(sess[s].up) \in Nat
        BY <1>0, LenProperties DEF Session
      <3>2. \A i \in 1..k : sess[s].up[i] \in UpMessage
        BY <3>1, ElementOfSeq
      <3>3. Len(u) = (IF 1 <= k THEN k - 1 + 1 ELSE 0) /\ \A i \in 1..(k - 1 + 1) : u[i] = sess[s].up[1 + i - 1]
        BY <3>1, <3>2, SubSeqProperties
      <3>4. Len(u) = k /\ \A i \in 1..k : u[i] = sess[s].up[i]
        BY <3>1, <3>3
      <3>. QED
        BY <3>1, <3>4 DEF Prefix
    <2>4. sess' = [sess EXCEPT ![s].hub = "closed", ![s].cancelled = FALSE, ![s].knew = FALSE, ![s].up = u]
      BY <2>1
    <2>5. \A t \in Conn : t # s => Prefix(sess[t].up, sess[t].up)
      BY <1>0, PrefixSelf DEF Sessions, Session
    <2>. HIDE DEF u
    <2>6. Kept(sess, sess', Harmless)
      BY <1>0, <2>3, <2>4, <2>5 DEF Kept, Sessions, Session
    <2>. QED
      BY <1>0, <2>2, <2>6 DEF Quiet, Moves, dbVars
  <1>. QED
    BY <1>1, <1>2, <1>3
-----------------------------------------------------------------------------
(* Runs, and what there is before the first                                *)

\* A message is on its way to the app, or to the RTE.
Ups(s, m) == Has(sess[s].up, m)
Downs(s, m) == Has(sess[s].down, m)

\* No run of a job that was not launched, and nothing to report of a job that never ran.
BeforeOK ==
  /\ row.status = "absent" => hist.runs = 0 /\ \A s \in Conn : \A m : Downs(s, m) => m.t # "run"
  /\ hist.runs = 0 =>
       /\ rte.running = FALSE /\ rte.items = <<>> /\ hist.written = {} /\ row.status # "success"
       /\ \A s \in Conn : \A m : (Ups(s, m) => m.t # "item") /\ (Downs(s, m) => m.t # "ack")

\* Every line is the app's or of a run there was, the last run's are the ones it wrote.
RunsOK ==
  /\ \A l \in lines : l.run <= hist.runs
  /\ \A w \in hist.written : w.run = hist.runs /\ w.run > 0
  /\ \A i : Has(rte.items, i) /\ i.kind = "output" => i.run \in 1..hist.runs
  /\ \A s \in Conn : \A m : Ups(s, m) /\ m.t = "item" /\ m.item.kind = "output" => m.item.run \in 1..hist.runs

\* The places in the spool are places in it.
NumbersOK ==
  /\ rte.acked <= Len(rte.items) /\ rte.next <= Len(rte.items) + 1
  /\ cur = 0 => rte.welcomed = FALSE

\* What holds of the runs whatever is delivered.
StructInv == TypeInv /\ BeforeOK /\ RunsOK /\ NumbersOK

\* A prefix holds no more than the queue.
LEMMA HasPrefix ==
  ASSUME NEW p, NEW q, Prefix(p, q), Len(p) \in Nat, Len(q) \in Nat
  PROVE  \A m : Has(p, m) => Has(q, m)
  BY DEF Prefix, Has

\* What is sent out of the spool, and only that.
LEMMA SendsAdds ==
  ASSUME NEW ss \in Sessions, NEW e \in Entry, cur \in Conn \cup {0}, RteSends(ss, e, <<>>)
  PROVE  /\ \A s \in Conn :
              /\ sess'[s].down = ss[s].down /\ sess'[s].hub = ss[s].hub /\ sess'[s].failed = ss[s].failed
              /\ sess'[s].node = ss[s].node /\ sess'[s].cancelled = ss[s].cancelled
              /\ \A m : Has(sess'[s].up, m) => Has(ss[s].up, m) \/ (m.t = "item" /\ Has(e.items, m.item))
         /\ e.next <= Len(e.items) + 1 => rte'.next <= Len(e.items) + 1
         /\ rte'.items = e.items /\ rte'.acked = e.acked /\ rte'.running = e.running
         /\ rte'.known = e.known /\ rte'.abort = e.abort /\ rte'.welcomed = e.welcomed
  <1>0. /\ \E n \in Nat \ {0} : rte' = [e EXCEPT !.next = n]
        /\ rte' = IF Pumps(e) THEN [e EXCEPT !.next = PumpTo(e) + 1] ELSE e
        /\ sess' = IF cur = 0 \/ ss[cur].hub = "closed" THEN ss
                   ELSE [ss EXCEPT ![cur].up = @ \o Pumped(e)]
    BY SendsTyping
  <1>1. /\ PumpTo(e) \in Nat /\ PumpTo(e) <= Len(e.items) /\ Pumped(e) \in Seq(UpMessage)
        /\ Pumps(e) => \A k \in 1..(PumpTo(e) - e.next + 1) : e.next + k - 1 \in 1..Len(e.items)
        /\ Len(Pumped(e)) = IF Pumps(e) THEN PumpTo(e) - e.next + 1 ELSE 0
        /\ Len(e.items) \in Nat
    BY PumpTyping, LenProperties DEF Entry
  <1>2. \A m : Has(Pumped(e), m) => m.t = "item" /\ Has(e.items, m.item)
    <2>. SUFFICES ASSUME NEW k \in 1..Len(Pumped(e))
                  PROVE  Pumped(e)[k].t = "item" /\ Has(e.items, Pumped(e)[k].item)
      BY DEF Has
    <2>1. Pumps(e) /\ k \in 1..(PumpTo(e) - e.next + 1)
      BY <1>1
    <2>2. Pumped(e)[k] = [t |-> "item", seq |-> e.next + k - 1, item |-> e.items[e.next + k - 1]]
      BY <2>1 DEF Pumped
    <2>3. e.next + k - 1 \in 1..Len(e.items)
      BY <1>1, <2>1
    <2>4. Pumped(e)[k].t = "item" /\ Pumped(e)[k].item = e.items[e.next + k - 1]
      BY <2>2
    <2>. QED
      BY <2>3, <2>4 DEF Has
  <1>3. ASSUME NEW s \in Conn
        PROVE  /\ sess'[s].down = ss[s].down /\ sess'[s].hub = ss[s].hub /\ sess'[s].failed = ss[s].failed
               /\ sess'[s].node = ss[s].node /\ sess'[s].cancelled = ss[s].cancelled
               /\ sess'[s].up = ss[s].up \/ sess'[s].up = ss[s].up \o Pumped(e)
    <2>. DEFINE u == ss[cur].up \o Pumped(e)
    <2>1. sess' = ss \/ (cur \in Conn /\ sess' = [ss EXCEPT ![cur].up = u])
      BY <1>0
    <2>2. CASE sess' = ss
      BY <2>2
    <2>3. CASE cur \in Conn /\ sess' = [ss EXCEPT ![cur].up = u]
      <3>. HIDE DEF u
      <3>1. /\ sess'[s].down = ss[s].down /\ sess'[s].hub = ss[s].hub /\ sess'[s].failed = ss[s].failed
            /\ sess'[s].node = ss[s].node /\ sess'[s].cancelled = ss[s].cancelled
            /\ sess'[s].up = IF s = cur THEN u ELSE ss[s].up
        BY <2>3 DEF Sessions, Session
      <3>. QED
        BY <3>1 DEF u
    <2>. QED
      BY <2>1, <2>2, <2>3
  <1>4. ASSUME NEW s \in Conn, NEW m, Has(sess'[s].up, m)
        PROVE  Has(ss[s].up, m) \/ (m.t = "item" /\ Has(e.items, m.item))
    <2>1. CASE sess'[s].up = ss[s].up
      BY <1>4, <2>1
    <2>2. CASE sess'[s].up = ss[s].up \o Pumped(e)
      <3>. DEFINE q == ss[s].up
                  p == Pumped(e)
                  r == q \o p
      <3>1. q \in Seq(UpMessage) /\ p \in Seq(UpMessage)
        BY <1>1 DEF Sessions, Session
      <3>. HIDE DEF q, p
      <3>2. /\ Len(r) = Len(q) + Len(p) /\ Len(q) \in Nat /\ Len(p) \in Nat
        BY <3>1, ConcatProperties, LenProperties
      <3>3. \A i \in 1..(Len(q) + Len(p)) : r[i] = IF i <= Len(q) THEN q[i] ELSE p[i - Len(q)]
        BY <3>1, ConcatProperties
      <3>4. PICK i \in 1..Len(r) : r[i] = m
        BY <1>4, <2>2 DEF Has, q, p
      <3>. HIDE DEF r
      <3>5. i \in 1..Len(q) \/ i - Len(q) \in 1..Len(p)
        BY <3>2
      <3>6. Has(q, m) \/ Has(p, m)
        <4>1. CASE i <= Len(q)
          BY <3>2, <3>3, <3>4, <3>5, <4>1 DEF Has
        <4>2. CASE ~(i <= Len(q))
          <5>1. i - Len(q) \in 1..Len(p) /\ r[i] = p[i - Len(q)]
            BY <3>2, <3>3, <4>2
          <5>. QED
            BY <3>4, <5>1 DEF Has
        <4>. QED
          BY <4>1, <4>2
      <3>. QED
        BY <1>2, <3>6 DEF q, p
    <2>. QED
      BY <1>3, <2>1, <2>2
  <1>5. e.next <= Len(e.items) + 1 => rte'.next <= Len(e.items) + 1
    BY <1>0, <1>1 DEF Entry
  <1>6. /\ rte'.items = e.items /\ rte'.acked = e.acked /\ rte'.running = e.running
        /\ rte'.known = e.known /\ rte'.abort = e.abort /\ rte'.welcomed = e.welcomed
    BY <1>0 DEF Entry
  <1>. QED
    BY <1>3, <1>4, <1>5, <1>6

\* Nothing ran and nothing is on its way at the start.
LEMMA StructInit == Init => StructInv
  <1>. SUFFICES ASSUME Init PROVE StructInv
    OBVIOUS
  <1>1. TypeInv
    BY RteInitTyping
  <1>2. /\ row.status = "absent" /\ lines = {} /\ cur = 0 /\ rte = NoEntry
        /\ hist = [runs |-> 0, written |-> {}, soon |-> FALSE]
        /\ \A s \in Conn : sess[s].up = <<>> /\ sess[s].down = <<>>
    BY DEF Init, AbsentRow, UnusedSession
  <1>3. \A m : ~Has(<<>>, m)
    BY EmptySeq DEF Has
  <1>4. rte.items = <<>> /\ rte.acked = 0 /\ rte.next = 1 /\ rte.welcomed = FALSE /\ rte.running = FALSE
        /\ Len(rte.items) = 0
    BY <1>2, EmptySeq DEF NoEntry
  <1>5. BeforeOK
    BY <1>2, <1>3, <1>4, Zenon DEF BeforeOK, Ups, Downs
  <1>6. RunsOK
    BY <1>2, <1>3, <1>4 DEF RunsOK, Ups
  <1>. QED
    BY <1>1, <1>2, <1>4, <1>5, <1>6 DEF StructInv, NumbersOK

\* A quiet step leaves the runs, and what there is before the first, in order.
LEMMA QuietStruct ==
  ASSUME StructInv, TypeInv', Quiet
  PROVE  BeforeOK' /\ RunsOK' /\ NumbersOK'
  <1>0. /\ sess \in Sessions /\ sess' \in Sessions /\ BeforeOK /\ RunsOK /\ NumbersOK
        /\ hist.runs \in Nat /\ rte \in Entry
    BY DEF StructInv, TypeInv, TypeOK, Sessions
  <1>1. \A s \in Conn : /\ \A m : Ups(s, m)' => Ups(s, m)
                        /\ \A m : Downs(s, m)' => Downs(s, m) \/ m \in Harmless
    <2>. SUFFICES ASSUME NEW s \in Conn
                  PROVE  /\ \A m : Has(sess'[s].up, m) => Has(sess[s].up, m)
                         /\ \A m : Has(sess'[s].down, m) => Has(sess[s].down, m) \/ m \in Harmless
      BY DEF Ups, Downs
    <2>1. Len(sess'[s].up) \in Nat /\ Len(sess[s].up) \in Nat
      BY <1>0, LenProperties DEF Sessions, Session
    <2>. QED
      BY <2>1, HasPrefix DEF Quiet, Kept
  <1>2. BeforeOK'
    <2>1. /\ hist'.runs = hist.runs /\ hist'.written = hist.written /\ rte' = rte
          /\ row'.status = "absent" => row.status = "absent"
          /\ row'.status = "success" => row.status = "success"
      BY DEF Quiet
    <2>2. row'.status = "absent" => hist'.runs = 0 /\ \A s \in Conn : \A m : Downs(s, m)' => m.t # "run"
      BY <1>0, <1>1, <2>1, Zenon DEF BeforeOK, Harmless
    <2>3. ASSUME hist'.runs = 0
          PROVE  /\ rte'.running = FALSE /\ rte'.items = <<>> /\ hist'.written = {} /\ row'.status # "success"
                 /\ \A s \in Conn : \A m : (Ups(s, m)' => m.t # "item") /\ (Downs(s, m)' => m.t # "ack")
      BY <1>0, <1>1, <2>1, <2>3, Zenon DEF BeforeOK, Harmless
    <2>. QED
      BY <2>2, <2>3, Zenon DEF BeforeOK
  <1>3. RunsOK'
    <2>1. /\ hist'.runs = hist.runs /\ hist'.written = hist.written /\ rte' = rte
          /\ \A l \in lines' : l \in lines \/ l.run = 0
      BY DEF Quiet
    <2>2. \A l \in lines' : l.run <= hist.runs
      BY <1>0, <2>1 DEF RunsOK
    <2>. QED
      BY <1>0, <1>1, <2>1, <2>2 DEF RunsOK
  <1>4. NumbersOK'
    BY <1>0 DEF NumbersOK, Quiet
  <1>. QED
    BY <1>2, <1>3, <1>4
-----------------------------------------------------------------------------
(* A message read by the app                                               *)

\* Forgetting a job's cancels changes nothing else of a socket.
LEMMA ForgottenFields ==
  ASSUME NEW ss \in Sessions, NEW n
  PROVE  \A t \in Conn :
         /\ Forgotten(ss, n)[t].up = ss[t].up /\ Forgotten(ss, n)[t].failed = ss[t].failed
         /\ Forgotten(ss, n)[t].hub = ss[t].hub /\ Forgotten(ss, n)[t].down = ss[t].down
         /\ Forgotten(ss, n)[t].node = ss[t].node
         /\ Forgotten(ss, n)[t].cancelled => ss[t].cancelled
  BY DEF Forgotten, Sessions, Session

\* The message the app reads next.
Next1(s) == Head(sess[s].up)

\* It is stored.
Stores(s) == /\ Next1(s).t = "item" /\ sess[s].failed = FALSE
             /\ row' = StoreRow(row, Next1(s).item) /\ lines' = StoreLines(Next1(s).item)

\* The first message is gone, and stored when it is an item and the session did not fail; only then is
\* there an ack more, on the socket the RTE has.
Reads(s) ==
  /\ sess[s].up # <<>> /\ UNCHANGED <<cur, rte, hist>>
  /\ \A t \in Conn : /\ sess'[t].up = IF t = s THEN Tail(sess[s].up) ELSE sess[t].up
                     /\ sess'[t].failed = FALSE => sess[t].failed = FALSE
                     /\ sess[t].hub = "closed" => sess'[t].hub = "closed"
  /\ Stores(s) \/ (UNCHANGED <<row, lines>> /\ (Next1(s).t = "item" => sess'[s].failed = TRUE))
  /\ \A t \in Conn : \A m : Has(sess'[t].down, m) =>
       \/ Has(sess[t].down, m)
       \/ /\ m.t = "ack" /\ m.seq = Next1(s).seq /\ t = s /\ s = cur
          /\ Stores(s) /\ sess[s].hub # "closed"

\* The hub's steps on a message read it.
LEMMA HubReads ==
  ASSUME TypeInv, NEW s \in Conn, OnClaimed(s) \/ OnRefused(s) \/ OnItem(s) \/ StoreFails(s)
  PROVE  Reads(s)
  <1>0. sess \in Sessions /\ sess[s].up \in Seq(UpMessage)
    BY DEF TypeInv, TypeOK, Sessions, Session
  <1>1. sess[s].up # <<>>
    BY DEF OnClaimed, OnRefused, OnItem, StoreFails, Says
  <1>. DEFINE rd == Received(s)
  <1>2. /\ rd \in Sessions /\ Next1(s) \in UpMessage
        /\ \A t \in Conn : /\ rd[t].up = IF t = s THEN Tail(sess[s].up) ELSE sess[t].up
                           /\ rd[t].failed = sess[t].failed /\ rd[t].hub = sess[t].hub
                           /\ rd[t].down = sess[t].down
    <2>1. rd \in Sessions /\ Next1(s) \in UpMessage
      BY <1>0, <1>1, ReadTyping DEF Next1
    <2>2. rd = [sess EXCEPT ![s].up = Tail(sess[s].up)]
      BY DEF Received
    <2>. QED
      BY <1>0, <2>1, <2>2 DEF Sessions, Session
  <1>. HIDE DEF rd
  <1>3. CASE OnClaimed(s) \/ OnRefused(s)
    <2>1. sess' = rd /\ UNCHANGED <<row, lines, cur, rte, hist>> /\ Next1(s).t # "item"
      BY <1>3 DEF OnClaimed, OnRefused, HandMoves, Says, Next1, rd
    <2>. QED
      BY <1>1, <1>2, <2>1 DEF Reads
  <1>4. CASE OnItem(s)
    <2>1. Next1(s).t = "item" /\ UNCHANGED <<cur, rte, hist>>
      BY <1>4 DEF OnItem, Says, Next1
    <2>2. CASE sess[s].failed
      <3>1. sess' = rd /\ UNCHANGED <<row, lines>>
        BY <1>4, <2>2 DEF OnItem, Deaf, Skip, rd
      <3>2. sess'[s].failed = TRUE
        BY <1>0, <1>2, <2>2, <3>1 DEF Sessions, Session
      <3>. QED
        BY <1>1, <1>2, <2>1, <3>1, <3>2 DEF Reads
    <2>3. CASE ~sess[s].failed
      <3>. DEFINE m == [t |-> "ack", seq |-> Next1(s).seq]
                  ss == Sent(rd, s, m)
      <3>1. Stores(s) /\ (sess' = ss \/ sess' = Forgotten(ss, sess[s].node))
        <4>1. Store(s, Next1(s)) /\ sess[s].failed = FALSE
          BY <1>0, <1>4, <2>3 DEF OnItem, Deaf, Next1, Sessions, Session
        <4>. QED
          BY <2>1, <4>1 DEF Store, Stores, rd
      <3>2. m \in DownMessage /\ m.t = "ack" /\ m.seq = Next1(s).seq
        BY <1>2, <2>1, MessageTyping
      <3>3. ss \in Sessions
        BY <1>2, <3>2, SocketTyping
      <3>4. \A t \in Conn : /\ ss[t].up = rd[t].up /\ ss[t].failed = rd[t].failed /\ ss[t].hub = rd[t].hub
                            /\ \/ ss[t].down = rd[t].down
                               \/ t = s /\ s = cur /\ rd[s].hub # "closed" /\ ss[t].down = Append(rd[t].down, m)
        <4>. HIDE DEF m
        <4>1. CASE ss = rd
          BY <4>1
        <4>2. CASE s = cur /\ rd[s].hub # "closed" /\ ss = [rd EXCEPT ![s].down = Append(@, m)]
          <5>. DEFINE d == Append(rd[s].down, m)
          <5>1. ss = [rd EXCEPT ![s].down = d]
            BY <4>2
          <5>. HIDE DEF d, ss
          <5>2. \A t \in Conn : /\ ss[t].up = rd[t].up /\ ss[t].failed = rd[t].failed /\ ss[t].hub = rd[t].hub
                                /\ ss[t].down = IF t = s THEN d ELSE rd[t].down
            BY <1>2, <5>1 DEF Sessions, Session
          <5>. QED
            BY <4>2, <5>2 DEF d
        <4>. QED
          BY <4>1, <4>2 DEF Sent
      <3>5. \A t \in Conn : /\ sess'[t].up = ss[t].up /\ sess'[t].failed = ss[t].failed
                            /\ sess'[t].hub = ss[t].hub /\ sess'[t].down = ss[t].down
        <4>1. ss \in Sessions /\ (sess' = ss \/ sess' = Forgotten(ss, sess[s].node))
          BY <3>1, <3>3
        <4>. HIDE DEF ss
        <4>2. \A t \in Conn :
                /\ Forgotten(ss, sess[s].node)[t].up = ss[t].up
                /\ Forgotten(ss, sess[s].node)[t].failed = ss[t].failed
                /\ Forgotten(ss, sess[s].node)[t].hub = ss[t].hub
                /\ Forgotten(ss, sess[s].node)[t].down = ss[t].down
          BY <4>1, ForgottenFields
        <4>. QED
          BY <4>1, <4>2
      <3>6. \A t \in Conn : \A x : Has(sess'[t].down, x) =>
              \/ Has(sess[t].down, x)
              \/ x = m /\ t = s /\ s = cur /\ sess[s].hub # "closed"
        <4>. SUFFICES ASSUME NEW t \in Conn
                      PROVE  \A x : Has(ss[t].down, x) => \/ Has(rd[t].down, x)
                                                          \/ x = m /\ t = s /\ s = cur /\ rd[s].hub # "closed"
          BY <1>2, <3>5
        <4>1. \A x : Has(Append(rd[t].down, m), x) <=> Has(rd[t].down, x) \/ x = m
          BY <1>2, <3>2, HasAppend DEF Sessions, Session
        <4>. HIDE DEF m, ss
        <4>2. CASE ss[t].down = rd[t].down
          BY <4>2
        <4>3. CASE t = s /\ s = cur /\ rd[s].hub # "closed" /\ ss[t].down = Append(rd[t].down, m)
          BY <4>1, <4>3
        <4>. QED
          BY <3>4, <4>2, <4>3
      <3>7. \A t \in Conn : /\ sess'[t].up = IF t = s THEN Tail(sess[s].up) ELSE sess[t].up
                            /\ sess'[t].failed = sess[t].failed /\ sess'[t].hub = sess[t].hub
        BY <1>2, <3>4, <3>5
      <3>. HIDE DEF m, ss
      <3>. QED
        BY <1>1, <2>1, <3>1, <3>2, <3>6, <3>7, Zenon DEF Reads
    <2>. QED
      BY <2>2, <2>3
  <1>5. CASE StoreFails(s)
    <2>. DEFINE fs == [rd EXCEPT ![s].failed = TRUE]
    <2>1. /\ Next1(s).t = "item" /\ UNCHANGED <<cur, rte, hist>> /\ sess' = Closing(fs, s)
          /\ sess[s].failed = FALSE /\ (Stores(s) \/ UNCHANGED <<row, lines>>)
      BY <1>0, <1>5 DEF StoreFails, Says, Deaf, Stores, Next1, Sessions, Session, rd
    <2>2. /\ fs \in Sessions
          /\ \A t \in Conn : /\ fs[t].up = rd[t].up /\ fs[t].down = rd[t].down /\ fs[t].hub = rd[t].hub
                             /\ fs[t].failed = FALSE => rd[t].failed = FALSE
                             /\ fs[s].failed = TRUE
      BY <1>2 DEF Sessions, Session
    <2>. HIDE DEF fs
    <2>3. /\ \A t \in Conn : /\ sess'[t].up = fs[t].up /\ sess'[t].down = fs[t].down /\ sess'[t].failed = fs[t].failed
                             /\ fs[t].hub = "closed" => sess'[t].hub = "closed"
      BY <2>1, <2>2 DEF Closing, Sessions, Session
    <2>. QED
      BY <1>1, <1>2, <2>1, <2>2, <2>3 DEF Reads
  <1>. QED
    BY <1>3, <1>4, <1>5

\* A message read leaves the runs in order.
LEMMA ReadsStruct ==
  ASSUME StructInv, TypeInv', NEW s \in Conn, Reads(s)
  PROVE  BeforeOK' /\ RunsOK' /\ NumbersOK'
  <1>0. /\ sess \in Sessions /\ sess' \in Sessions /\ BeforeOK /\ RunsOK /\ NumbersOK
        /\ hist.runs \in Nat /\ rte \in Entry /\ row \in Row /\ lines \subseteq [run : Nat, order : Nat] /\ HasLast(lines)
        /\ sess[s].up \in Seq(UpMessage) /\ sess[s].up # <<>> /\ UNCHANGED <<cur, rte, hist>>
    BY DEF StructInv, TypeInv, TypeOK, Sessions, Session, Reads
  <1>1. Ups(s, Next1(s)) /\ Next1(s) \in UpMessage
    BY <1>0, HasTail DEF Ups, Next1
  <1>2. /\ \A t \in Conn : \A m : Ups(t, m)' => Ups(t, m)
        /\ \A t \in Conn : \A m : Downs(t, m)' => Downs(t, m) \/ (m.t = "ack" /\ Stores(s))
    <2>1. \A t \in Conn : \A m : Has(sess'[t].up, m) => Has(sess[t].up, m)
      BY <1>0, HasTail DEF Reads
    <2>2. \A t \in Conn : \A m : Has(sess'[t].down, m) => Has(sess[t].down, m) \/ (m.t = "ack" /\ Stores(s))
      BY DEF Reads
    <2>. QED
      BY <2>1, <2>2 DEF Ups, Downs
  <1>3. ASSUME Stores(s)
        PROVE  /\ Next1(s).item \in Item /\ hist.runs # 0
               /\ Moves(row, row') /\ row' = StoreRow(row, Next1(s).item) /\ lines' = StoreLines(Next1(s).item)
    BY <1>0, <1>1, <1>3, MessageTyping, StoreMoves DEF Stores, BeforeOK
  <1>4. BeforeOK'
    <2>1. row'.status = "absent" => row.status = "absent"
      BY <1>3 DEF Reads, Moves
    <2>2. row'.status = "absent" => hist'.runs = 0 /\ \A t \in Conn : \A m : Downs(t, m)' => m.t # "run"
      BY <1>0, <1>2, <2>1, Zenon DEF BeforeOK
    <2>3. ASSUME hist'.runs = 0
          PROVE  /\ rte'.running = FALSE /\ rte'.items = <<>> /\ hist'.written = {} /\ row'.status # "success"
                 /\ \A t \in Conn : \A m : (Ups(t, m)' => m.t # "item") /\ (Downs(t, m)' => m.t # "ack")
      <3>1. ~Stores(s) /\ row' = row /\ hist.runs = 0
        BY <1>0, <1>3, <2>3 DEF Reads
      <3>. QED
        BY <1>0, <1>2, <3>1, Zenon DEF BeforeOK
    <2>. QED
      BY <2>2, <2>3, Zenon DEF BeforeOK
  <1>5. RunsOK'
    <2>1. \A l \in lines' : l.run <= hist.runs
      <3>1. CASE Stores(s)
        <4>. DEFINE i == Next1(s).item
        <4>1. i \in Item /\ (i.kind = "output" => i.run \in 1..hist.runs)
          BY <1>0, <1>1, <1>3, <3>1 DEF RunsOK, Stores
        <4>2. \A l \in lines' : l \in lines \/ l.run = 0 \/ (i.kind = "output" /\ l = Line(i))
          BY <1>0, <1>3, <3>1, <4>1, StoreLinesTyping
        <4>. HIDE DEF i
        <4>3. Line(i).run = i.run
          BY DEF Line
        <4>. QED
          BY <1>0, <4>1, <4>2, <4>3 DEF RunsOK
      <3>2. CASE ~Stores(s)
        BY <1>0, <3>2 DEF Reads, RunsOK
      <3>. QED
        BY <3>1, <3>2
    <2>. QED
      BY <1>0, <1>2, <2>1 DEF RunsOK
  <1>6. NumbersOK'
    BY <1>0 DEF NumbersOK
  <1>. QED
    BY <1>4, <1>5, <1>6
-----------------------------------------------------------------------------
(* The steps of the RTE                                                    *)

\* A new socket, with nothing on its way.
Dials ==
  /\ cur = 0 /\ cur' \in Conn /\ UNCHANGED <<row, lines, rte, hist>>
  /\ sess'[cur'].up = <<>> /\ sess'[cur'].down = <<>> /\ sess'[cur'].failed = FALSE /\ sess'[cur'].hub = "hello"
  /\ \A t \in Conn : t # cur' => /\ sess'[t].up = sess[t].up /\ sess'[t].down = sess[t].down
                                 /\ sess'[t].failed = sess[t].failed
                                 /\ sess[t].hub = "closed" => sess'[t].hub = "closed"

\* Closing a socket changes what it is to the hub only.
LEMMA ClosingFields ==
  ASSUME NEW ss \in Sessions, NEW s \in Conn \cup {0}
  PROVE  \A t \in Conn :
           /\ Closing(ss, s)[t].up = ss[t].up /\ Closing(ss, s)[t].down = ss[t].down
           /\ Closing(ss, s)[t].failed = ss[t].failed /\ Closing(ss, s)[t].node = ss[t].node
           /\ Closing(ss, s)[t].cancelled = ss[t].cancelled
           /\ ss[t].hub = "closed" => Closing(ss, s)[t].hub = "closed"
           /\ ss[t].hub # "none" => Closing(ss, s)[t].hub # "none"
  <1>1. CASE Closing(ss, s) = ss
    BY <1>1
  <1>2. CASE s \in Conn /\ ss[s].hub # "closed" /\ Closing(ss, s) = [ss EXCEPT ![s].hub = "closing"]
    <2>. DEFINE tt == [ss EXCEPT ![s].hub = "closing"]
    <2>1. \A t \in Conn :
           /\ tt[t].up = ss[t].up /\ tt[t].down = ss[t].down
           /\ tt[t].failed = ss[t].failed /\ tt[t].node = ss[t].node
           /\ tt[t].cancelled = ss[t].cancelled
           /\ tt[t].hub = IF t = s THEN "closing" ELSE ss[t].hub
      BY <1>2 DEF Sessions, Session
    <2>. HIDE DEF tt
    <2>. QED
      BY <1>2, <2>1 DEF tt
  <1>. QED
    BY <1>1, <1>2 DEF Closing

\* The RTE's dialing takes a socket nobody used.
LEMMA RteDialing ==
  ASSUME TypeInv, NEW n \in AppNode, RteDials(n)
  PROVE  Dials
  <1>0. sess \in Sessions /\ reg[n] \in Conn \cup {0} /\ rte \in Entry
    BY DEF TypeInv, TypeOK, Sessions
  <1>1. PICK s \in Conn : /\ sess' = [Closing(sess, reg[n]) EXCEPT ![s] =
                                [UnusedSession EXCEPT !.node = n, !.hub = "hello", !.knew = rte.known]]
                          /\ cur' = s /\ cur = 0 /\ UNCHANGED <<dbVars, rte, hist>>
    BY DEF RteDials
  <1>. DEFINE new == [UnusedSession EXCEPT !.node = n, !.hub = "hello", !.knew = rte.known]
              ss == Closing(sess, reg[n])
  <1>2. new.up = <<>> /\ new.down = <<>> /\ new.failed = FALSE /\ new.hub = "hello"
    BY DEF UnusedSession
  <1>3. /\ ss \in Sessions
        /\ \A t \in Conn : /\ ss[t].up = sess[t].up /\ ss[t].down = sess[t].down /\ ss[t].failed = sess[t].failed
                           /\ sess[t].hub = "closed" => ss[t].hub = "closed"
    <2>1. ss \in Sessions
      BY <1>0, SocketTyping
    <2>. QED
      BY <1>0, <2>1, ClosingFields
  <1>4. sess' = [ss EXCEPT ![s] = new]
    BY <1>1
  <1>. HIDE DEF ss, new
  <1>5. /\ sess'[s] = new /\ \A t \in Conn : t # s => sess'[t] = ss[t]
    BY <1>3, <1>4 DEF Sessions
  <1>. QED
    BY <1>1, <1>2, <1>3, <1>5, ZenonT(30) DEF Dials, dbVars

\* A new socket leaves the runs in order.
LEMMA DialsStruct ==
  ASSUME StructInv, TypeInv', Dials
  PROVE  BeforeOK' /\ RunsOK' /\ NumbersOK'
  <1>0. BeforeOK /\ RunsOK /\ NumbersOK
    BY DEF StructInv
  <1>1. \A m : ~Has(<<>>, m)
    BY EmptySeq DEF Has
  <1>2. \A t \in Conn : \A m : (Ups(t, m)' => Ups(t, m)) /\ (Downs(t, m)' => Downs(t, m))
    BY <1>1 DEF Dials, Ups, Downs
  <1>3. UNCHANGED <<row, lines, rte, hist>> /\ cur' # 0
    BY DEF Dials, Conn
  <1>4. BeforeOK'
    BY <1>0, <1>2, <1>3, Zenon DEF BeforeOK
  <1>5. RunsOK'
    BY <1>0, <1>2, <1>3 DEF RunsOK
  <1>. QED
    BY <1>0, <1>3, <1>4, <1>5 DEF NumbersOK

\* What the RTE reads and sends : the items it sends are of its spool, the ones more in its spool are
\* of its last run, there is a run more only when it read one, and nothing of a job it has nothing of.
RteMoves ==
  /\ UNCHANGED <<row, lines>>
  /\ \A t \in Conn : \A m : /\ Ups(t, m)' => Ups(t, m) \/ m.t # "item" \/ Has(rte'.items, m.item)
                            /\ Downs(t, m)' => Downs(t, m)
  /\ \A i : Has(rte'.items, i) => Has(rte.items, i) \/ i.kind # "output" \/ (i.run = hist.runs /\ rte.running)
  /\ \/ hist'.runs = hist.runs /\ hist'.written = hist.written
     \/ /\ hist'.runs = hist.runs /\ rte.running
        /\ \A w \in hist'.written : w \in hist.written \/ w.run = hist.runs
     \/ /\ hist'.runs = hist.runs + 1 /\ hist'.written = {}
        /\ \E t \in Conn : \E m : Downs(t, m) /\ m.t = "run"
  /\ (rte.running = FALSE /\ rte.items = <<>>) =>
       rte'.items = <<>> /\ (hist'.runs = hist.runs => rte'.running = FALSE)
  /\ NumbersOK'

\* The RTE's reading takes the head of what is on its way to it, and no more.
LEMMA ReadFields ==
  ASSUME sess \in Sessions, NEW c \in Conn, sess[c].down # <<>>
  PROVE  /\ Read(c) \in Sessions
         /\ \A t \in Conn :
              /\ Read(c)[t].up = sess[t].up /\ Read(c)[t].hub = sess[t].hub /\ Read(c)[t].failed = sess[t].failed
              /\ Read(c)[t].node = sess[t].node /\ Read(c)[t].cancelled = sess[t].cancelled
              /\ Read(c)[t].down = IF t = c THEN Tail(sess[c].down) ELSE sess[t].down
              /\ \A m : Has(Read(c)[t].down, m) => Has(sess[t].down, m)
  <1>1. Read(c) \in Sessions
    BY ReadTyping
  <1>2. \A t \in Conn :
          /\ Read(c)[t].up = sess[t].up /\ Read(c)[t].hub = sess[t].hub /\ Read(c)[t].failed = sess[t].failed
          /\ Read(c)[t].node = sess[t].node /\ Read(c)[t].cancelled = sess[t].cancelled
          /\ Read(c)[t].down = IF t = c THEN Tail(sess[c].down) ELSE sess[t].down
    <2>. DEFINE d == Tail(sess[c].down)
    <2>1. Read(c) = [sess EXCEPT ![c].down = d]
      BY DEF Read
    <2>. HIDE DEF d
    <2>2. \A t \in Conn :
            /\ Read(c)[t].up = sess[t].up /\ Read(c)[t].hub = sess[t].hub /\ Read(c)[t].failed = sess[t].failed
            /\ Read(c)[t].node = sess[t].node /\ Read(c)[t].cancelled = sess[t].cancelled
            /\ Read(c)[t].down = IF t = c THEN d ELSE sess[t].down
      BY <2>1 DEF Sessions, Session
    <2>. QED
      BY <2>2 DEF d
  <1>3. \A m : Has(Tail(sess[c].down), m) => Has(sess[c].down, m)
    BY HasTail DEF Sessions, Session
  <1>. QED
    BY <1>1, <1>2, <1>3

\* The RTE goes on with e, which has the spool it had or an item more of its run.
LEMMA SendMoves ==
  ASSUME NEW ss \in Sessions, NEW e \in Entry, cur \in Conn \cup {0}, RteSends(ss, e, <<>>),
         \A t \in Conn : \A m : (Has(ss[t].up, m) => Ups(t, m)) /\ (Has(ss[t].down, m) => Downs(t, m)),
         \A i : Has(e.items, i) => Has(rte.items, i) \/ i.kind # "output" \/ (i.run = hist.runs /\ rte.running),
         e.acked <= Len(e.items), e.next <= Len(e.items) + 1,
         UNCHANGED <<row, lines, cur>>, cur = 0 => e.welcomed = FALSE,
         \/ hist'.runs = hist.runs /\ hist'.written = hist.written
         \/ /\ hist'.runs = hist.runs /\ rte.running
            /\ \A w \in hist'.written : w \in hist.written \/ w.run = hist.runs,
         (rte.running = FALSE /\ rte.items = <<>>) => e.items = <<>> /\ e.running = FALSE
  PROVE  RteMoves
  <1>1. /\ \A t \in Conn :
              /\ sess'[t].down = ss[t].down
              /\ \A m : Has(sess'[t].up, m) => Has(ss[t].up, m) \/ (m.t = "item" /\ Has(e.items, m.item))
        /\ rte'.next <= Len(e.items) + 1
        /\ rte'.items = e.items /\ rte'.acked = e.acked /\ rte'.running = e.running /\ rte'.welcomed = e.welcomed
    BY SendsAdds
  <1>2. \A t \in Conn : \A m : /\ Ups(t, m)' => Ups(t, m) \/ m.t # "item" \/ Has(rte'.items, m.item)
                               /\ Downs(t, m)' => Downs(t, m)
    <2>1. \A t \in Conn : \A m : /\ Has(sess'[t].up, m) => Ups(t, m) \/ (m.t = "item" /\ Has(e.items, m.item))
                                 /\ Has(sess'[t].down, m) => Downs(t, m)
      BY <1>1
    <2>. QED
      BY <1>1, <2>1 DEF Ups, Downs
  <1>3. NumbersOK'
    <2>1. rte'.acked <= Len(rte'.items)
      BY <1>1
    <2>2. rte'.next <= Len(rte'.items) + 1
      BY <1>1
    <2>3. cur' = 0 => rte'.welcomed = FALSE
      BY <1>1
    <2>. QED
      BY <2>1, <2>2, <2>3 DEF NumbersOK
  <1>4. /\ \A i : Has(rte'.items, i) => Has(rte.items, i) \/ i.kind # "output" \/ (i.run = hist.runs /\ rte.running)
        /\ (rte.running = FALSE /\ rte.items = <<>>) => rte'.items = <<>> /\ rte'.running = FALSE
    BY <1>1
  <1>. QED
    BY <1>2, <1>3, <1>4 DEF RteMoves

\* An item more leaves an entry.
LEMMA MoreTyping ==
  ASSUME NEW e \in Entry, NEW it \in Item
  PROVE  [e EXCEPT !.items = Append(@, it)] \in Entry
  <1>1. Append(e.items, it) \in Seq(Item)
    BY AppendProperties DEF Entry
  <1>. QED
    BY <1>1 DEF Entry

\* The RTE puts an item more into its spool, of a job it runs.
Spools(e, it) ==
  /\ e \in Entry /\ it \in Item /\ RteSends(sess, e, <<>>) /\ e.items = Append(rte.items, it)
  /\ e.acked = rte.acked /\ e.next = rte.next /\ e.welcomed = rte.welcomed /\ e.known = rte.known
  /\ rte.running = TRUE /\ (e.running = TRUE => e.abort = rte.abort)
  /\ UNCHANGED <<row, lines, cur>> /\ hist'.runs = hist.runs /\ hist'.soon = hist.soon
  /\ \/ it.kind = "started" /\ e.running = TRUE /\ hist'.written = hist.written
     \/ /\ it.kind = "output" /\ e.running = TRUE /\ it.run = hist.runs
        /\ hist'.written = hist.written \cup {Line(it)}
     \/ it.kind = "end" /\ e.running = FALSE /\ hist'.written = hist.written

\* A run that is over keeps the spool and its places.
LEMMA OverFields ==
  ASSUME NEW x \in Entry, NEW y,
         y = [x EXCEPT !.running = FALSE, !.spawned = FALSE, !.abort = FALSE, !.base = 0, !.wrote = 0]
  PROVE  /\ y.items = x.items /\ y.acked = x.acked /\ y.next = x.next /\ y.welcomed = x.welcomed
         /\ y.known = x.known /\ y.running = FALSE /\ y.procs = x.procs
  BY DEF Entry

\* A run ends with one item more, its end, and keeps the rest.
LEMMA EndFields ==
  ASSUME NEW e \in Entry, hist.runs \in Nat, NEW o \in Outcome
  PROVE  \E it \in Item :
           /\ it.kind = "end" /\ RunOver(e, o) \in Entry /\ RunOver(e, o).items = Append(e.items, it)
           /\ RunOver(e, o).acked = e.acked /\ RunOver(e, o).next = e.next
           /\ RunOver(e, o).welcomed = e.welcomed /\ RunOver(e, o).known = e.known
           /\ RunOver(e, o).running = FALSE /\ RunOver(e, o).procs = e.procs
  <1>. DEFINE it == [kind |-> "end", run |-> hist.runs, order |-> 0, outcome |-> o]
              x == Spooled(e, "end", hist.runs, 0, o)
  <1>1. it \in Item /\ it.kind = "end"
    BY DEF Item
  <1>2. x \in Entry /\ x = [e EXCEPT !.items = Append(@, it)]
    <2>1. x = [e EXCEPT !.items = Append(@, it)]
      BY DEF Spooled
    <2>. HIDE DEF x, it
    <2>. QED
      BY <1>1, <2>1, MoreTyping
  <1>3. /\ x.items = Append(e.items, it) /\ x.acked = e.acked /\ x.next = e.next /\ x.procs = e.procs
        /\ x.welcomed = e.welcomed /\ x.known = e.known
    BY <1>2 DEF Entry
  <1>4. RunOver(e, o) = [x EXCEPT !.running = FALSE, !.spawned = FALSE, !.abort = FALSE, !.base = 0, !.wrote = 0]
    BY DEF RunOver
  <1>. HIDE DEF x, it
  <1>5. /\ RunOver(e, o).items = x.items /\ RunOver(e, o).acked = x.acked /\ RunOver(e, o).next = x.next
        /\ RunOver(e, o).welcomed = x.welcomed /\ RunOver(e, o).known = x.known
        /\ RunOver(e, o).running = FALSE /\ RunOver(e, o).procs = x.procs
    BY <1>2, <1>4, OverFields
  <1>. QED
    BY <1>1, <1>2, <1>3, <1>4, <1>5, OverTyping

\* The steps of a run put one item into the spool each.
LEMMA SpoolSteps ==
  ASSUME TypeInv, Started \/ Write \/ RunEnds \/ StartFails
  PROVE  \E e, it : Spools(e, it)
  <1>0. /\ rte \in Entry /\ hist.runs \in Nat
        /\ hist \in [runs : Nat, written : SUBSET [run : Nat, order : Nat], soon : BOOLEAN]
    BY DEF TypeInv, TypeOK
  <1>1. rte.running = TRUE
    BY <1>0 DEF Started, Write, RunEnds, StartFails, TypeInv, ProcessInv, Counts, Entry
  <1>2. UNCHANGED <<row, lines, cur>>
    BY DEF Started, Write, RunEnds, StartFails, RteReads, dbVars
  <1>3. CASE Started
    <2>. DEFINE it == [kind |-> "started", run |-> hist.runs, order |-> 0, outcome |-> "none"]
                x == Spooled(rte, "started", hist.runs, 0, "none")
                e == [x EXCEPT !.spawned = TRUE, !.procs = @ + 1]
    <2>1. it \in Item /\ it.kind = "started"
      BY <1>0 DEF Item
    <2>2. x \in Entry /\ x = [rte EXCEPT !.items = Append(@, it)]
      <3>1. x = [rte EXCEPT !.items = Append(@, it)]
        BY DEF Spooled
      <3>. HIDE DEF x, it
      <3>. QED
        BY <1>0, <2>1, <3>1, MoreTyping
    <2>3. /\ x.items = Append(rte.items, it) /\ x.acked = rte.acked /\ x.next = rte.next /\ x.abort = rte.abort
          /\ x.welcomed = rte.welcomed /\ x.known = rte.known /\ x.running = rte.running
      BY <1>0, <2>2 DEF Entry
    <2>4. RteSends(sess, e, <<>>) /\ UNCHANGED hist
      BY <1>3 DEF Started
    <2>. HIDE DEF x
    <2>5. e \in Entry
      <3>. DEFINE procs == x.procs + 1
      <3>1. procs \in Nat /\ e = [x EXCEPT !.spawned = TRUE, !.procs = procs]
        BY <2>2 DEF Entry
      <3>. HIDE DEF procs, e
      <3>. QED
        BY <2>2, <3>1 DEF Entry
    <2>6. /\ e.items = x.items /\ e.acked = x.acked /\ e.next = x.next /\ e.abort = x.abort
          /\ e.welcomed = x.welcomed /\ e.known = x.known /\ e.running = x.running
      BY <2>2 DEF Entry
    <2>. HIDE DEF e, it
    <2>7. Spools(e, it)
      BY <1>1, <1>2, <2>1, <2>3, <2>4, <2>5, <2>6 DEF Spools
    <2>. QED
      BY <2>7
  <1>4. CASE Write
    <2>. DEFINE order == rte.base + rte.wrote + 1
                it == [kind |-> "output", run |-> hist.runs, order |-> order, outcome |-> "none"]
                x == Spooled(rte, "output", hist.runs, order, "none")
                e == [x EXCEPT !.wrote = @ + 1]
    <2>0. order \in Nat
      BY <1>0 DEF Entry
    <2>1. it \in Item /\ it.kind = "output" /\ it.run = hist.runs /\ Line(it) = [run |-> hist.runs, order |-> order]
      BY <1>0, <2>0 DEF Item, Line
    <2>2. x \in Entry /\ x = [rte EXCEPT !.items = Append(@, it)]
      <3>1. x = [rte EXCEPT !.items = Append(@, it)]
        BY DEF Spooled
      <3>. HIDE DEF x, it
      <3>. QED
        BY <1>0, <2>1, <3>1, MoreTyping
    <2>3. /\ x.items = Append(rte.items, it) /\ x.acked = rte.acked /\ x.next = rte.next /\ x.abort = rte.abort
          /\ x.welcomed = rte.welcomed /\ x.known = rte.known /\ x.running = rte.running
      BY <1>0, <2>2 DEF Entry
    <2>4. /\ RteSends(sess, e, <<>>)
          /\ hist' = [hist EXCEPT !.written = @ \cup {[run |-> hist.runs, order |-> order]}]
      BY <1>4 DEF Write
    <2>5. hist'.runs = hist.runs /\ hist'.soon = hist.soon /\ hist'.written = hist.written \cup {Line(it)}
      <3>. DEFINE line == [run |-> hist.runs, order |-> order]
                  written == hist.written \cup {line}
      <3>1. line = Line(it) /\ hist' = [hist EXCEPT !.written = written]
        BY <2>1, <2>4
      <3>. HIDE DEF line, written, it
      <3>2. hist'.runs = hist.runs /\ hist'.soon = hist.soon /\ hist'.written = written
        BY <1>0, <3>1
      <3>. QED
        BY <3>1, <3>2 DEF written
    <2>. HIDE DEF x
    <2>6. e \in Entry
      <3>. DEFINE wrote == x.wrote + 1
      <3>1. wrote \in Nat /\ e = [x EXCEPT !.wrote = wrote]
        BY <2>2, SMTT(30) DEF Entry
      <3>. HIDE DEF wrote, e
      <3>. QED
        BY <2>2, <3>1 DEF Entry
    <2>7. /\ e.items = x.items /\ e.acked = x.acked /\ e.next = x.next /\ e.abort = x.abort
          /\ e.welcomed = x.welcomed /\ e.known = x.known /\ e.running = x.running
      BY <2>2 DEF Entry
    <2>. HIDE DEF e, it
    <2>8. Spools(e, it)
      BY <1>1, <1>2, <2>1, <2>3, <2>4, <2>5, <2>6, <2>7 DEF Spools
    <2>. QED
      BY <2>8
  <1>5. CASE RunEnds
    <2>1. PICK outcome \in Exits \cup {"aborted"} :
            RteSends(sess, [RunOver(rte, outcome) EXCEPT !.procs = @ - 1], <<>>)
      BY <1>5 DEF RunEnds
    <2>. DEFINE x == RunOver(rte, outcome)
                e == [x EXCEPT !.procs = @ - 1]
    <2>0. outcome \in Outcome
      BY RteAssumption DEF Outcome
    <2>2. PICK it \in Item :
            /\ it.kind = "end" /\ x \in Entry /\ x.items = Append(rte.items, it)
            /\ x.acked = rte.acked /\ x.next = rte.next /\ x.welcomed = rte.welcomed /\ x.known = rte.known
            /\ x.running = FALSE /\ x.procs = rte.procs
      BY <1>0, <2>0, EndFields
    <2>3. rte.procs = 1 /\ UNCHANGED hist
      BY <1>0, <1>5 DEF RunEnds, TypeInv, ProcessInv, Counts, Entry
    <2>4. RteSends(sess, e, <<>>)
      BY <2>1
    <2>. HIDE DEF x
    <2>5. e \in Entry
      <3>1. e = [x EXCEPT !.procs = 0]
        BY <2>2, <2>3
      <3>. HIDE DEF e
      <3>. QED
        BY <2>2, <3>1 DEF Entry
    <2>6. /\ e.items = x.items /\ e.acked = x.acked /\ e.next = x.next
          /\ e.welcomed = x.welcomed /\ e.known = x.known /\ e.running = x.running
      BY <2>2 DEF Entry
    <2>. HIDE DEF e
    <2>7. Spools(e, it)
      BY <1>1, <1>2, <2>2, <2>3, <2>4, <2>5, <2>6 DEF Spools
    <2>. QED
      BY <2>7
  <1>6. CASE StartFails
    <2>. DEFINE e == RunOver(rte, "failed")
    <2>1. PICK it \in Item :
            /\ it.kind = "end" /\ e \in Entry /\ e.items = Append(rte.items, it)
            /\ e.acked = rte.acked /\ e.next = rte.next /\ e.welcomed = rte.welcomed /\ e.known = rte.known
            /\ e.running = FALSE
      BY <1>0, EndFields DEF Outcome
    <2>2. RteSends(sess, e, <<>>) /\ UNCHANGED hist
      BY <1>6 DEF StartFails
    <2>. HIDE DEF e
    <2>3. Spools(e, it)
      BY <1>1, <1>2, <2>1, <2>2 DEF Spools
    <2>. QED
      BY <2>3
  <1>. QED
    BY <1>3, <1>4, <1>5, <1>6

\* An ack moves the acked place, and the next one past it, and no further than it says.
LEMMA AckedFields ==
  ASSUME NEW e \in Entry, NEW seq \in Nat, e.acked <= Len(e.items), e.next <= Len(e.items) + 1
  PROVE  /\ AckedTo(e, seq) \in Entry
         /\ AckedTo(e, seq).items = e.items /\ AckedTo(e, seq).running = e.running
         /\ AckedTo(e, seq).known = e.known /\ AckedTo(e, seq).welcomed = e.welcomed
         /\ AckedTo(e, seq).abort = e.abort
         /\ AckedTo(e, seq).acked <= Len(e.items) /\ AckedTo(e, seq).next <= Len(e.items) + 1
         /\ \A k \in Nat : k <= AckedTo(e, seq).acked => k <= e.acked \/ k <= seq
         /\ AckedTo(e, seq).next = e.next \/ AckedTo(e, seq).next = AckedTo(e, seq).acked + 1
  <1>0. e.acked \in Nat /\ e.next \in Nat \ {0} /\ Len(e.items) \in Nat
    BY LenProperties DEF Entry
  <1>. DEFINE acked == IF seq <= e.acked THEN e.acked ELSE IF seq < Len(e.items) THEN seq ELSE Len(e.items)
              next == IF e.next <= acked THEN acked + 1 ELSE e.next
  <1>1. AckedTo(e, seq) = [e EXCEPT !.acked = acked, !.next = next]
    BY DEF AckedTo
  <1>2. /\ acked \in Nat /\ acked <= Len(e.items) /\ next \in Nat \ {0} /\ next <= Len(e.items) + 1
        /\ \A k \in Nat : k <= acked => k <= e.acked \/ k <= seq
        /\ next = e.next \/ next = acked + 1
    BY <1>0
  <1>. HIDE DEF acked, next
  <1>3. /\ AckedTo(e, seq) \in Entry /\ AckedTo(e, seq).acked = acked /\ AckedTo(e, seq).next = next
        /\ AckedTo(e, seq).items = e.items /\ AckedTo(e, seq).running = e.running
        /\ AckedTo(e, seq).known = e.known /\ AckedTo(e, seq).welcomed = e.welcomed
        /\ AckedTo(e, seq).abort = e.abort
    BY <1>1, <1>2 DEF Entry
  <1>. QED
    BY <1>2, <1>3

\* A restarted RTE finds its spool, with one item more at most, and runs nothing.
LEMMA ReloadedFields ==
  ASSUME NEW e \in Entry, e.acked <= Len(e.items)
  PROVE  /\ Reloaded(e).running = FALSE /\ Reloaded(e).welcomed = FALSE
         /\ Reloaded(e).acked <= Len(Reloaded(e).items) /\ Reloaded(e).next <= Len(Reloaded(e).items) + 1
         /\ e.items = <<>> => Reloaded(e).items = <<>>
         /\ Reloaded(e).items # <<>> => Reloaded(e).acked = e.acked
         /\ \/ Reloaded(e).items = e.items
            \/ \E it \in Item : it.kind = "abandon" /\ Reloaded(e).items = Append(e.items, it)
  <1>0. e.acked \in Nat /\ e.items \in Seq(Item) /\ Len(e.items) \in Nat
    BY LenProperties DEF Entry
  <1>1. CASE e.items = <<>>
    <2>1. Reloaded(e) = NoEntry
      BY <1>1 DEF Reloaded
    <2>2. /\ NoEntry.running = FALSE /\ NoEntry.welcomed = FALSE /\ NoEntry.acked = 0 /\ NoEntry.next = 1
          /\ NoEntry.items = <<>>
      BY DEF NoEntry
    <2>3. Len(<<>>) = 0
      BY EmptySeq
    <2>. QED
      BY <1>1, <2>1, <2>2, <2>3
  <1>2. CASE e.items # <<>>
    <2>. DEFINE next == e.acked + 1
                left == [NoEntry EXCEPT !.known = TRUE, !.items = e.items, !.acked = e.acked, !.next = next]
                it == [kind |-> "abandon", run |-> 0, order |-> 0, outcome |-> "none"]
                more == Spooled(left, "abandon", 0, 0, "none")
    <2>1. Reloaded(e) = left \/ Reloaded(e) = more
      BY <1>2 DEF Reloaded
    <2>2. it \in Item /\ it.kind = "abandon"
      BY DEF Item
    <2>3. /\ left.running = FALSE /\ left.welcomed = FALSE /\ left.acked = e.acked /\ left.next = next
          /\ left.items = e.items /\ DOMAIN left = DOMAIN NoEntry
      BY DEF NoEntry
    <2>4. more = [left EXCEPT !.items = Append(@, it)]
      BY DEF Spooled
    <2>5. DOMAIN NoEntry = {"known", "running", "spawned", "abort", "base", "wrote", "items", "acked", "next",
                            "early", "welcomed", "procs"}
      BY DEF NoEntry
    <2>. HIDE DEF left, it, more
    <2>6. /\ more.running = FALSE /\ more.welcomed = FALSE /\ more.acked = e.acked /\ more.next = next
          /\ more.items = Append(e.items, it)
      BY <2>3, <2>4, <2>5
    <2>7. Len(Append(e.items, it)) = Len(e.items) + 1
      BY <1>0, <2>2, AppendQueue
    <2>8. next <= Len(e.items) + 1 /\ next <= Len(e.items) + 1 + 1 /\ e.acked <= Len(e.items) + 1
      BY <1>0
    <2>. HIDE DEF next
    <2>9. CASE Reloaded(e) = left
      BY <1>0, <1>2, <2>3, <2>8, <2>9
    <2>10. CASE Reloaded(e) = more
      BY <1>2, <2>2, <2>6, <2>7, <2>8, <2>10
    <2>. QED
      BY <2>1, <2>9, <2>10
  <1>. QED
    BY <1>1, <1>2

\* The RTE sends what its spool holds, and spools output of the run it is in only.
LEMMA RteStepMoves ==
  ASSUME TypeInv, NumbersOK, RteStep
  PROVE  RteMoves
  <1>0. /\ sess \in Sessions /\ rte \in Entry /\ cur \in Conn \cup {0} /\ hist.runs \in Nat
        /\ rte.acked <= Len(rte.items) /\ rte.next <= Len(rte.items) + 1 /\ (cur = 0 => rte.welcomed = FALSE)
        /\ rte.acked \in Nat /\ Len(rte.items) \in Nat /\ rte.items \in Seq(Item)
        /\ hist \in [runs : Nat, written : SUBSET [run : Nat, order : Nat], soon : BOOLEAN]
    BY LenProperties DEF TypeInv, TypeOK, Sessions, NumbersOK, Entry
  <1>1. ASSUME UNCHANGED <<row, lines, hist>>,
               \A t \in Conn : \A m : (Has(sess'[t].up, m) => Has(sess[t].up, m))
                                      /\ (Has(sess'[t].down, m) => Has(sess[t].down, m)),
               \A i : Has(rte'.items, i) => Has(rte.items, i) \/ i.kind # "output",
               rte.items = <<>> => rte'.items = <<>>, rte'.running = TRUE => rte.running = TRUE,
               rte'.running \in BOOLEAN, NumbersOK'
        PROVE  RteMoves
    BY <1>1 DEF RteMoves, Ups, Downs
  <1>2. CASE Started \/ Write \/ RunEnds \/ StartFails
    <2>1. PICK e, it : Spools(e, it)
      BY <1>2, SpoolSteps
    <2>2. /\ Len(Append(rte.items, it)) = Len(rte.items) + 1
          /\ \A i : Has(Append(rte.items, it), i) <=> Has(rte.items, i) \/ i = it
      BY <1>0, <2>1, AppendQueue, HasAppend DEF Spools
    <2>3. /\ RteSends(sess, e, <<>>) /\ e \in Entry /\ e.items = Append(rte.items, it)
          /\ e.acked <= Len(e.items) /\ e.next <= Len(e.items) + 1 /\ (cur = 0 => e.welcomed = FALSE)
      BY <1>0, <2>1, <2>2 DEF Spools, Entry
    <2>4. \A i : Has(e.items, i) => Has(rte.items, i) \/ i.kind # "output" \/ (i.run = hist.runs /\ rte.running)
      BY <2>1, <2>2, <2>3 DEF Spools
    <2>5. \/ hist'.runs = hist.runs /\ hist'.written = hist.written
          \/ /\ hist'.runs = hist.runs /\ rte.running
             /\ \A w \in hist'.written : w \in hist.written \/ w.run = hist.runs
      BY <2>1 DEF Spools, Line
    <2>6. UNCHANGED <<row, lines, cur>> /\ rte.running = TRUE
      BY <2>1 DEF Spools
    <2>. QED
      BY <1>0, <2>3, <2>4, <2>5, <2>6, SendMoves DEF Ups, Downs
  <1>3. CASE OnWelcome
    <2>. DEFINE w == [rte EXCEPT !.welcomed = TRUE]
                next == rte.acked + 1
                e == Rewound(w)
    <2>1. /\ w \in Entry /\ w.acked = rte.acked
      BY <1>0 DEF Entry
    <2>2. e = [rte EXCEPT !.welcomed = TRUE, !.next = next] /\ next \in Nat \ {0}
      BY <1>0, <2>1 DEF Rewound
    <2>3. /\ cur \in Conn /\ cur # 0 /\ sess[cur].down # <<>> /\ RteSends(Read(cur), e, <<>>)
          /\ UNCHANGED <<row, lines, cur, hist>>
      BY <1>0, <1>3 DEF OnWelcome, Told, RteReads, dbVars
    <2>. DEFINE rd == Read(cur)
    <2>4. /\ rd \in Sessions
          /\ \A t \in Conn : \A m : (Has(rd[t].up, m) => Ups(t, m)) /\ (Has(rd[t].down, m) => Downs(t, m))
      BY <1>0, <2>3, ReadFields, ZenonT(30) DEF Ups, Downs
    <2>. HIDE DEF e, next, rd
    <2>5. /\ e \in Entry /\ e.items = rte.items /\ e.acked = rte.acked /\ e.next = next /\ e.running = rte.running
      BY <1>0, <2>2 DEF Entry
    <2>6. e.next <= Len(e.items) + 1
      BY <1>0, <2>5 DEF next
    <2>7. RteSends(rd, e, <<>>)
      BY <2>3 DEF rd
    <2>8. hist'.runs = hist.runs /\ hist'.written = hist.written
      BY <2>3
    <2>. QED
      BY <1>0, <2>3, <2>4, <2>5, <2>6, <2>7, <2>8, SendMoves
  <1>4. CASE OnAck
    <2>1. /\ cur \in Conn /\ cur # 0 /\ sess[cur].down # <<>> /\ Head(sess[cur].down).t = "ack"
          /\ UNCHANGED <<row, lines, cur, hist>>
      BY <1>0, <1>4 DEF OnAck, Told, RteReads, dbVars
    <2>2. Head(sess[cur].down).seq \in Nat
      BY <1>0, <2>1, ReadTyping, MessageTyping
    <2>. DEFINE e == AckedTo(rte, Head(sess[cur].down).seq)
    <2>3. /\ e \in Entry /\ e.items = rte.items /\ e.running = rte.running /\ e.welcomed = rte.welcomed
          /\ e.acked <= Len(rte.items) /\ e.next <= Len(rte.items) + 1
      BY <1>0, <2>2, AckedFields
    <2>4. \/ rte' = rte /\ sess' = Read(cur)
          \/ rte' = Removed(e) /\ sess' = Read(cur)
          \/ RteSends(Read(cur), e, <<>>)
      BY <1>4 DEF OnAck
    <2>. HIDE DEF e
    <2>5. /\ Removed(e).items = <<>> /\ Removed(e).running = FALSE /\ Removed(e).acked = 0
          /\ Removed(e).next = 1 /\ Removed(e).welcomed = e.welcomed /\ Len(<<>>) = 0
      BY EmptySeq DEF Removed, NoEntry
    <2>6. CASE RteSends(Read(cur), e, <<>>)
      <3>. DEFINE rd == Read(cur)
      <3>1. /\ rd \in Sessions
            /\ \A t \in Conn : \A m : (Has(rd[t].up, m) => Ups(t, m)) /\ (Has(rd[t].down, m) => Downs(t, m))
        BY <1>0, <2>1, ReadFields DEF Ups, Downs
      <3>2. RteSends(rd, e, <<>>)
        BY <2>6
      <3>3. hist'.runs = hist.runs /\ hist'.written = hist.written
        BY <2>1
      <3>. HIDE DEF rd
      <3>. QED
        BY <1>0, <2>1, <2>3, <3>1, <3>2, <3>3, SendMoves
    <2>7. CASE sess' = Read(cur) /\ (rte' = rte \/ rte' = Removed(e))
      <3>1. NumbersOK'
        BY <1>0, <2>1, <2>3, <2>5, <2>7 DEF NumbersOK
      <3>2. \A t \in Conn : \A m : (Has(sess'[t].up, m) => Has(sess[t].up, m))
                                   /\ (Has(sess'[t].down, m) => Has(sess[t].down, m))
        BY <1>0, <2>1, <2>7, ReadFields
      <3>3. \A i : ~Has(<<>>, i)
        BY <2>5 DEF Has
      <3>4. rte'.running \in BOOLEAN
        BY <1>0, <2>5, <2>7 DEF Entry
      <3>5. /\ \A i : Has(rte'.items, i) => Has(rte.items, i) \/ i.kind # "output"
            /\ rte.items = <<>> => rte'.items = <<>>
            /\ rte'.running = TRUE => rte.running = TRUE
        BY <2>5, <2>7, <3>3
      <3>. QED
        BY <1>1, <2>1, <3>1, <3>2, <3>4, <3>5
    <2>. QED
      BY <2>4, <2>6, <2>7
  <1>5. CASE OnRun
    <2>1. /\ cur \in Conn /\ cur # 0 /\ sess[cur].down # <<>> /\ Head(sess[cur].down).t = "run"
          /\ UNCHANGED <<row, lines, cur>>
      BY <1>0, <1>5 DEF OnRun, Told, RteReads, dbVars
    <2>2. PICK t \in {"claimed", "busy", "unfit"} :
            /\ \/ rte' = rte /\ hist' = hist
               \/ /\ rte' = Taken(rte, Head(sess[cur].down).last)
                  /\ hist' = [hist EXCEPT !.runs = @ + 1, !.written = {}]
            /\ sess' = [Read(cur) EXCEPT ![cur].up =
                          IF sess[cur].hub = "closed" THEN @ ELSE Append(@, [t |-> t])]
      BY <1>5 DEF OnRun
    <2>. DEFINE a == [t |-> t]
                rd == Read(cur)
                u == IF sess[cur].hub = "closed" THEN rd[cur].up ELSE Append(rd[cur].up, a)
    <2>3. /\ rd \in Sessions
          /\ \A s \in Conn : rd[s].up = sess[s].up /\ \A m : Has(rd[s].down, m) => Has(sess[s].down, m)
      BY <1>0, <2>1, ReadFields
    <2>4. a \in UpMessage /\ a.t # "item"
      BY MessageTyping
    <2>5. sess' = [rd EXCEPT ![cur].up = u]
      BY <2>2
    <2>6. \A m : Has(u, m) => Has(sess[cur].up, m) \/ m = a
      <3>1. \A m : Has(Append(sess[cur].up, a), m) <=> Has(sess[cur].up, m) \/ m = a
        BY <1>0, <2>1, <2>4, HasAppend DEF Sessions, Session
      <3>. QED
        BY <2>1, <2>3, <3>1
    <2>. HIDE DEF a, rd, u
    <2>7. \A s \in Conn : sess'[s].up = (IF s = cur THEN u ELSE rd[s].up) /\ sess'[s].down = rd[s].down
      BY <2>1, <2>3, <2>5 DEF Sessions, Session
    <2>8. \A s \in Conn : \A m : /\ Ups(s, m)' => Ups(s, m) \/ m.t # "item" \/ Has(rte'.items, m.item)
                                 /\ Downs(s, m)' => Downs(s, m)
      <3>1. \A s \in Conn : \A m : /\ Has(sess'[s].up, m) => Has(sess[s].up, m) \/ m = a
                                   /\ Has(sess'[s].down, m) => Has(sess[s].down, m)
        BY <2>3, <2>6, <2>7
      <3>. QED
        BY <2>4, <3>1 DEF Ups, Downs
    <2>9. Downs(cur, Head(sess[cur].down))
      BY <1>0, <2>1, HasTail DEF Downs, Sessions, Session
    <2>10. CASE rte' = rte /\ hist' = hist
      BY <1>0, <2>1, <2>8, <2>10 DEF RteMoves, NumbersOK
    <2>11. CASE /\ rte' = Taken(rte, Head(sess[cur].down).last)
                /\ hist' = [hist EXCEPT !.runs = @ + 1, !.written = {}]
      <3>1. /\ rte'.items = rte.items /\ rte'.acked = rte.acked /\ rte'.next = rte.next /\ rte'.welcomed = rte.welcomed
        BY <1>0, <2>11 DEF Taken, Entry
      <3>2. hist'.runs = hist.runs + 1 /\ hist'.written = {}
        <4>. DEFINE runs == hist.runs + 1
        <4>1. hist' = [hist EXCEPT !.runs = runs, !.written = {}]
          BY <2>11
        <4>. HIDE DEF runs
        <4>2. hist'.runs = runs /\ hist'.written = {}
          BY <1>0, <4>1
        <4>. QED
          BY <4>2 DEF runs
      <3>3. NumbersOK'
        BY <1>0, <2>1, <3>1 DEF NumbersOK
      <3>4. hist'.runs # hist.runs
        BY <1>0, <3>2
      <3>. QED
        BY <2>1, <2>8, <2>9, <3>1, <3>2, <3>3, <3>4 DEF RteMoves
    <2>. QED
      BY <2>2, <2>10, <2>11
  <1>6. CASE OnCancel
    <2>1. /\ cur \in Conn /\ sess[cur].down # <<>> /\ sess' = Read(cur) /\ UNCHANGED <<row, lines, cur, hist>>
      BY <1>0, <1>6 DEF OnCancel, Told, RteReads, dbVars
    <2>2. rte' = rte \/ rte' = [rte EXCEPT !.early = TRUE] \/ rte' = [rte EXCEPT !.abort = TRUE]
      BY <1>6 DEF OnCancel
    <2>3. /\ rte'.items = rte.items /\ rte'.acked = rte.acked /\ rte'.next = rte.next /\ rte'.welcomed = rte.welcomed
          /\ rte'.running = rte.running /\ rte.running \in BOOLEAN
      BY <1>0, <2>2 DEF Entry
    <2>. QED
      BY <1>0, <1>1, <2>1, <2>3, ReadFields DEF NumbersOK
  <1>7. CASE ExpireCancel
    <2>1. UNCHANGED <<row, lines, cur, hist, sess>> /\ rte' = [rte EXCEPT !.early = FALSE]
      BY <1>7 DEF ExpireCancel, RteReads, dbVars
    <2>3. /\ rte'.items = rte.items /\ rte'.acked = rte.acked /\ rte'.next = rte.next /\ rte'.welcomed = rte.welcomed
          /\ rte'.running = rte.running /\ rte.running \in BOOLEAN
      BY <1>0, <2>1 DEF Entry
    <2>. QED
      BY <1>0, <1>1, <2>1, <2>3 DEF NumbersOK
  <1>8. CASE RteRestarts \/ RteLosesSocket
    <2>1. /\ UNCHANGED <<row, lines, hist>> /\ cur' = 0
          /\ sess' = sess \/ (cur # 0 /\ sess' = [sess EXCEPT ![cur].down = <<>>])
      BY <1>8 DEF RteRestarts, RteLosesSocket, dbVars
    <2>2. \A m : ~Has(<<>>, m)
      BY EmptySeq DEF Has
    <2>3. \A t \in Conn : \A m : (Has(sess'[t].up, m) => Has(sess[t].up, m))
                                   /\ (Has(sess'[t].down, m) => Has(sess[t].down, m))
      <3>. DEFINE none == <<>>
      <3>1. CASE sess' = sess
        BY <3>1
      <3>2. CASE cur # 0 /\ sess' = [sess EXCEPT ![cur].down = none]
        <4>1. \A m : ~Has(none, m)
          BY <2>2
        <4>. HIDE DEF none
        <4>2. \A t \in Conn : sess'[t].up = sess[t].up /\ sess'[t].down = IF t = cur THEN none ELSE sess[t].down
          BY <1>0, <3>2 DEF Sessions, Session
        <4>. QED
          BY <4>1, <4>2
      <3>. QED
        BY <2>1, <3>1, <3>2
    <2>4. rte' \in {[rte EXCEPT !.welcomed = FALSE], Reloaded(rte), NoEntry}
      BY <1>8 DEF RteRestarts, RteLosesSocket
    <2>5. CASE rte' = [rte EXCEPT !.welcomed = FALSE]
      <3>1. /\ rte'.items = rte.items /\ rte'.acked = rte.acked /\ rte'.next = rte.next /\ rte'.welcomed = FALSE
            /\ rte'.running = rte.running /\ rte.running \in BOOLEAN
        BY <1>0, <2>5 DEF Entry
      <3>2. NumbersOK'
        BY <1>0, <3>1 DEF NumbersOK
      <3>. QED
        BY <1>1, <2>1, <2>3, <3>1, <3>2
    <2>6. CASE rte' = NoEntry
      <3>1. /\ rte'.items = <<>> /\ rte'.acked = 0 /\ rte'.next = 1 /\ rte'.welcomed = FALSE /\ rte'.running = FALSE
            /\ Len(<<>>) = 0
        BY <2>6, EmptySeq DEF NoEntry
      <3>2. NumbersOK'
        BY <3>1 DEF NumbersOK
      <3>. QED
        BY <1>1, <2>1, <2>2, <2>3, <3>1, <3>2
    <2>7. CASE rte' = Reloaded(rte)
      <3>1. /\ rte'.running = FALSE /\ rte'.welcomed = FALSE
            /\ rte'.acked <= Len(rte'.items) /\ rte'.next <= Len(rte'.items) + 1
            /\ rte.items = <<>> => rte'.items = <<>>
            /\ \/ rte'.items = rte.items
               \/ \E it \in Item : it.kind = "abandon" /\ rte'.items = Append(rte.items, it)
        BY <1>0, <2>7, ReloadedFields
      <3>2. \A i : Has(rte'.items, i) => Has(rte.items, i) \/ i.kind # "output"
        <4>1. CASE rte'.items = rte.items
          BY <4>1
        <4>2. ASSUME NEW it \in Item, it.kind = "abandon", rte'.items = Append(rte.items, it)
              PROVE  \A i : Has(rte'.items, i) => Has(rte.items, i) \/ i.kind # "output"
          <5>1. \A m : Has(Append(rte.items, it), m) <=> Has(rte.items, m) \/ m = it
            BY <1>0, HasAppend
          <5>. QED
            BY <4>2, <5>1
        <4>. QED
          BY <3>1, <4>1, <4>2
      <3>3. NumbersOK'
        BY <3>1 DEF NumbersOK
      <3>. QED
        BY <1>1, <2>1, <2>3, <3>1, <3>2, <3>3
    <2>. QED
      BY <2>4, <2>5, <2>6, <2>7
  <1>. QED
    BY <1>2, <1>3, <1>4, <1>5, <1>6, <1>7, <1>8 DEF RteStep

\* The steps of the RTE leave the runs in order.
LEMMA RteMovesStruct ==
  ASSUME StructInv, TypeInv', RteMoves
  PROVE  BeforeOK' /\ RunsOK' /\ NumbersOK'
  <1>0. /\ BeforeOK /\ RunsOK /\ hist.runs \in Nat /\ hist'.runs \in Nat /\ UNCHANGED <<row, lines>>
        /\ hist.runs = 0 => rte.running = FALSE
    <2>1. BeforeOK /\ RunsOK /\ hist.runs \in Nat /\ hist'.runs \in Nat /\ UNCHANGED <<row, lines>>
      BY DEF StructInv, TypeInv, TypeOK, RteMoves
    <2>. QED
      BY <2>1 DEF BeforeOK
  <1>1. \A t \in Conn : \A m : /\ Ups(t, m)' => Ups(t, m) \/ m.t # "item" \/ Has(rte'.items, m.item)
                               /\ Downs(t, m)' => Downs(t, m)
    BY DEF RteMoves
  <1>2. \/ hist'.runs = hist.runs /\ hist'.written = hist.written
        \/ /\ hist'.runs = hist.runs /\ rte.running /\ hist.runs > 0
           /\ \A w \in hist'.written : w \in hist.written \/ w.run = hist.runs
        \/ /\ hist'.runs = hist.runs + 1 /\ hist'.written = {}
           /\ \E t \in Conn : \E m : Downs(t, m) /\ m.t = "run"
    BY <1>0 DEF RteMoves
  <1>3. 1..hist.runs \subseteq 1..hist'.runs /\ hist.runs <= hist'.runs
    BY <1>0, <1>2
  <1>4. BeforeOK'
    <2>1. ASSUME row'.status = "absent" PROVE hist'.runs = 0 /\ \A s \in Conn : \A m : Downs(s, m)' => m.t # "run"
      <3>1. row.status = "absent" /\ hist.runs = 0 /\ \A s \in Conn : \A m : Downs(s, m) => m.t # "run"
        BY <1>0, <2>1, Zenon DEF BeforeOK
      <3>. QED
        BY <1>1, <1>2, <3>1, Zenon
    <2>2. ASSUME hist'.runs = 0
          PROVE  /\ rte'.running = FALSE /\ rte'.items = <<>> /\ hist'.written = {} /\ row'.status # "success"
                 /\ \A s \in Conn : \A m : (Ups(s, m)' => m.t # "item") /\ (Downs(s, m)' => m.t # "ack")
      <3>1. hist.runs = 0 /\ hist'.written = hist.written
        BY <1>0, <1>2, <2>2
      <3>2. /\ rte.running = FALSE /\ rte.items = <<>> /\ hist.written = {} /\ row.status # "success"
            /\ \A s \in Conn : \A m : (Ups(s, m) => m.t # "item") /\ (Downs(s, m) => m.t # "ack")
        BY <1>0, <3>1, Zenon DEF BeforeOK
      <3>3. rte'.items = <<>> /\ rte'.running = FALSE
        BY <2>2, <3>1, <3>2 DEF RteMoves
      <3>4. \A i : ~Has(<<>>, i)
        BY EmptySeq DEF Has
      <3>5. \A t \in Conn : \A m : (Ups(t, m)' => m.t # "item") /\ (Downs(t, m)' => m.t # "ack")
        BY <1>1, <3>2, <3>3, <3>4, Zenon
      <3>. QED
        BY <1>0, <3>1, <3>2, <3>3, <3>5
    <2>. QED
      BY <2>1, <2>2, Zenon DEF BeforeOK
  <1>5. RunsOK'
    <2>1. \A l \in lines' : l.run <= hist'.runs
      <3>1. \A l \in lines : l.run \in Nat /\ l.run <= hist.runs
        BY <1>0 DEF StructInv, TypeInv, TypeOK, RunsOK
      <3>. QED
        BY <1>0, <1>3, <3>1
    <2>2. \A w \in hist'.written : w.run = hist'.runs /\ w.run > 0
      BY <1>0, <1>2 DEF RunsOK
    <2>3. \A i : Has(rte'.items, i) /\ i.kind = "output" => i.run \in 1..hist'.runs
      <3>1. \A i : Has(rte'.items, i) => Has(rte.items, i) \/ i.kind # "output" \/ (i.run = hist.runs /\ rte.running)
        BY DEF RteMoves
      <3>2. rte.running => hist.runs \in 1..hist.runs
        BY <1>0
      <3>. QED
        BY <1>0, <1>3, <3>1, <3>2 DEF RunsOK
    <2>4. \A s \in Conn : \A m : Ups(s, m)' /\ m.t = "item" /\ m.item.kind = "output" => m.item.run \in 1..hist'.runs
      <3>1. \A s \in Conn : \A m : Ups(s, m) /\ m.t = "item" /\ m.item.kind = "output" => m.item.run \in 1..hist'.runs
        BY <1>0, <1>3 DEF RunsOK
      <3>. QED
        BY <1>1, <2>3, <3>1, Zenon
    <2>. QED
      BY <2>1, <2>2, <2>3, <2>4 DEF RunsOK
  <1>. QED
    BY <1>4, <1>5 DEF RteMoves

\* The kinds of steps there are.
LEMMA StepKinds ==
  ASSUME StructInv, [Next]_vars
  PROVE  Quiet \/ (\E s \in Conn : Reads(s)) \/ Dials \/ RteStep
  <1>1. TypeInv /\ NumbersOK
    BY DEF StructInv
  <1>. QED
    BY <1>1, AppQuiet, OtherQuiet, HubQuiet, HubReads, RteDialing DEF Next, Hub

\* No step breaks the types, nor the order of the runs.
LEMMA StructNext == StructInv /\ [Next]_vars => StructInv'
  <1>. SUFFICES ASSUME StructInv, [Next]_vars PROVE StructInv'
    OBVIOUS
  <1>1. TypeInv'
    <2>1. TypeInv
      BY DEF StructInv
    <2>2. CASE Next
      <3>1. TypeOK' /\ HasLast(lines)'
        BY <2>1, <2>2, RteNextTyping
      <3>2. ProcessInv'
        BY <2>1, <2>2, ProcessNext DEF TypeInv
      <3>. QED
        BY <3>1, <3>2 DEF TypeInv
    <2>3. CASE UNCHANGED vars
      <3>1. TypeOK' /\ HasLast(lines)'
        BY <2>1, <2>3 DEF TypeInv, TypeOK, vars, dbVars, appVars
      <3>2. ProcessInv'
        BY <2>1, <2>3, ProcessNext DEF TypeInv
      <3>. QED
        BY <3>1, <3>2 DEF TypeInv
    <2>. QED
      BY <2>2, <2>3
  <1>2. TypeInv /\ NumbersOK
    BY DEF StructInv
  <1>. QED
    BY <1>1, <1>2, StepKinds, QuietStruct, ReadsStruct, DialsStruct, RteStepMoves, RteMovesStruct DEF StructInv
-----------------------------------------------------------------------------
(* What is acked is stored                                                 *)

\* The items of the spool that are in the database.
StoredSet == {k \in 1..Len(rte.items) : ItemStored(rte.items[k])}

\* A session whose messages are read and stored as they come: all of them, none that failed.
Usable(x) == x.hub # "closed" /\ x.failed = FALSE

\* Of the items of e, the acked ones and those whose ack is on its way on socket c are stored; what is
\* on its way to the app comes in order, with everything before it, and so does what was sent since
\* the welcome.
Delivered(ss, e, c, st) ==
  /\ \A k \in 1..e.acked : k \in st
  /\ c # 0 => \A m : Has(ss[c].down, m) /\ m.t = "ack" =>
       m.seq \in 0..Len(e.items) /\ \A k \in 1..m.seq : k \in st
  /\ c # 0 /\ Usable(ss[c]) =>
       /\ Ordered(ss[c].up, e.items, st)
       /\ e.welcomed = TRUE => Complete(ss[c].up, e.next - 1, st)

\* The RTE has nothing of the job.
Gone == rte.items = <<>> /\ rte.running = FALSE

\* A job that ran once, and is not gone from the RTE, is delivered as far as the RTE thinks.
DeliveryOK == hist.runs <= 1 /\ ~Gone => Delivered(sess, rte, cur, StoredSet)

\* Delivery, with the order of the runs it needs.
DeliveryInv == StructInv /\ DeliveryOK

\* What is stored of the spool stays stored: lines are only added, a job that ended does not run again.
LEMMA StoredGrows ==
  ASSUME StructInv, TypeInv', lines \subseteq lines',
         row'.status = "running" => row.status \in {"running", "absent"},
         Prefix(rte.items, rte'.items)
  PROVE  StoredSet \subseteq StoredSet'
  <1>0. Len(rte.items) \in Nat /\ Len(rte'.items) \in Nat /\ BeforeOK
    BY LenProperties DEF StructInv, TypeInv, TypeOK, Entry
  <1>. SUFFICES ASSUME NEW k \in 1..Len(rte.items), ItemStored(rte.items[k])
                PROVE  k \in 1..Len(rte'.items) /\ ItemStored(rte.items[k])'
    BY DEF StoredSet
  <1>1. k \in 1..Len(rte'.items) /\ rte'.items[k] = rte.items[k]
    BY <1>0 DEF Prefix
  <1>2. rte.items # <<>>
    BY <1>0, EmptySeq
  <1>3. row.status # "absent"
    BY <1>0, <1>2, Zenon DEF BeforeOK
  <1>4. ItemStored(rte.items[k])'
    BY <1>1, <1>3 DEF ItemStored, AppLineAt
  <1>. QED
    BY <1>1, <1>4

\* A step that stores no less, and sends and acks nothing of its own, keeps what is delivered.
LEMMA DeliveredOn ==
  ASSUME NEW ss, NEW tt, NEW e, NEW e2, NEW c, NEW st, NEW st2, st \subseteq st2,
         Len(e.items) \in Nat, Len(e2.items) \in Nat, Prefix(e.items, e2.items), Delivered(ss, e, c, st),
         \A k \in 1..e2.acked : k \in st2,
         c # 0 => \A m : Has(tt[c].down, m) /\ m.t = "ack" => Has(ss[c].down, m),
         c # 0 /\ Usable(tt[c]) => Usable(ss[c]) /\ tt[c].up = ss[c].up,
         e2.welcomed = TRUE => (\A k \in 1..(e2.next - 1) : k \in st2) \/ (e.welcomed = TRUE /\ e2.next = e.next)
  PROVE  Delivered(tt, e2, c, st2)
  <1>1. ASSUME c # 0, NEW m, Has(tt[c].down, m), m.t = "ack"
        PROVE  m.seq \in 0..Len(e2.items) /\ \A k \in 1..m.seq : k \in st2
    <2>1. Has(ss[c].down, m)
      BY <1>1
    <2>2. m.seq \in 0..Len(e.items) /\ \A k \in 1..m.seq : k \in st
      BY <1>1, <2>1 DEF Delivered
    <2>3. Len(e.items) <= Len(e2.items)
      BY DEF Prefix
    <2>. QED
      BY <2>2, <2>3
  <1>2. ASSUME c # 0, Usable(tt[c])
        PROVE  Ordered(tt[c].up, e2.items, st2) /\ (e2.welcomed = TRUE => Complete(tt[c].up, e2.next - 1, st2))
    <2>1. Usable(ss[c]) /\ tt[c].up = ss[c].up
      BY <1>2
    <2>2. Ordered(ss[c].up, e.items, st) /\ (e.welcomed = TRUE => Complete(ss[c].up, e.next - 1, st))
      BY <1>2, <2>1 DEF Delivered
    <2>3. Ordered(ss[c].up, e2.items, st2) /\ (e.welcomed = TRUE => Complete(ss[c].up, e.next - 1, st2))
      <3>1. /\ Ordered(ss[c].up, e.items, st) => Ordered(ss[c].up, e2.items, st2)
            /\ \A n : Complete(ss[c].up, n, st) => Complete(ss[c].up, n, st2)
        BY OrderedGrows
      <3>. QED
        BY <2>2, <3>1
    <2>4. (\A k \in 1..(e2.next - 1) : k \in st2) => Complete(ss[c].up, e2.next - 1, st2)
      BY DEF Complete
    <2>. QED
      BY <2>1, <2>3, <2>4
  <1>. QED
    BY <1>1, <1>2, Zenon DEF Delivered

\* The RTE goes on with e, and what pump sends comes after all before it.
LEMMA SendsDelivered ==
  ASSUME NEW ss \in Sessions, NEW e \in Entry, NEW st, cur \in Conn \cup {0}, RteSends(ss, e, <<>>),
         Delivered(ss, e, cur, st)
  PROVE  Delivered(sess', rte', cur, st)
  <1>1. /\ \A s \in Conn : /\ sess'[s].down = ss[s].down /\ sess'[s].hub = ss[s].hub
                           /\ sess'[s].failed = ss[s].failed
        /\ rte'.items = e.items /\ rte'.acked = e.acked /\ rte'.welcomed = e.welcomed
    BY SendsAdds
  <1>2. /\ rte' = IF Pumps(e) THEN [e EXCEPT !.next = PumpTo(e) + 1] ELSE e
        /\ sess' = IF cur = 0 \/ ss[cur].hub = "closed" THEN ss
                   ELSE [ss EXCEPT ![cur].up = @ \o Pumped(e)]
    BY SendsTyping
  <1>3. \A k \in 1..rte'.acked : k \in st
    BY <1>1 DEF Delivered
  <1>4. cur # 0 => \A m : Has(sess'[cur].down, m) /\ m.t = "ack" =>
                            m.seq \in 0..Len(rte'.items) /\ \A k \in 1..m.seq : k \in st
    BY <1>1 DEF Delivered
  <1>5. ASSUME cur # 0, Usable(sess'[cur])
        PROVE  /\ Ordered(sess'[cur].up, rte'.items, st)
               /\ rte'.welcomed = TRUE => Complete(sess'[cur].up, rte'.next - 1, st)
    <2>1. Usable(ss[cur]) /\ cur \in Conn /\ ss[cur].hub # "closed" /\ ss[cur].up \in Seq(UpMessage)
      BY <1>1, <1>5 DEF Usable, Sessions, Session
    <2>2. Ordered(ss[cur].up, e.items, st) /\ (e.welcomed = TRUE => Complete(ss[cur].up, e.next - 1, st))
      BY <1>5, <2>1 DEF Delivered
    <2>3. sess'[cur].up = ss[cur].up \o Pumped(e)
      BY <1>2, <1>5, <2>1 DEF Sessions, Session
    <2>4. CASE ~Pumps(e)
      <3>1. Pumped(e) = <<>> /\ rte' = e
        BY <1>2, <2>4 DEF Pumped
      <3>2. ss[cur].up \o <<>> = ss[cur].up
        BY <2>1, ConcatEmptySeq
      <3>. QED
        BY <2>2, <2>3, <3>1, <3>2
    <2>5. CASE Pumps(e)
      <3>1. e.welcomed = TRUE /\ e.next <= PumpTo(e)
        BY <2>5 DEF Pumps, Entry
      <3>2. /\ PumpTo(e) \in Nat /\ PumpTo(e) <= Len(e.items) /\ Pumped(e) \in Seq(UpMessage)
            /\ Len(Pumped(e)) = PumpTo(e) - e.next + 1 /\ Len(e.items) \in Nat /\ e.next \in Nat \ {0}
        BY <2>5, PumpTyping, LenProperties DEF Entry
      <3>3. \A k \in 1..Len(Pumped(e)) :
              Pumped(e)[k] = [t |-> "item", seq |-> e.next + k - 1, item |-> e.items[e.next + k - 1]]
        BY <2>5, <3>2 DEF Pumped
      <3>. DEFINE p == Pumped(e)
                  last == PumpTo(e)
                  items == e.items
                  next == e.next
                  q == ss[cur].up
      <3>4. Complete(q, next - 1, st) /\ Ordered(q, items, st)
        BY <2>2, <3>1
      <3>5. /\ last \in Nat /\ last <= Len(items) /\ p \in Seq(UpMessage) /\ Len(p) = last - next + 1
            /\ Len(items) \in Nat /\ next \in Nat \ {0} /\ next <= last /\ q \in Seq(UpMessage)
            /\ \A k \in 1..Len(p) : p[k] = [t |-> "item", seq |-> next + k - 1, item |-> items[next + k - 1]]
        BY <2>1, <3>1, <3>2, <3>3
      <3>6. rte'.next = last + 1
        BY <1>2, <2>5 DEF Entry
      <3>7. sess'[cur].up = q \o p
        BY <2>3
      <3>8. rte'.items = items
        BY <1>1
      <3>. HIDE DEF p, last, items, next, q
      <3>9. Ordered(q \o p, items, st) /\ Complete(q \o p, last, st)
        BY <3>4, <3>5, PumpOrdered
      <3>10. rte'.next - 1 = last
        BY <3>5, <3>6
      <3>11. Complete(sess'[cur].up, rte'.next - 1, st)
        BY <3>7, <3>9, <3>10, Zenon
      <3>. QED
        BY <3>7, <3>8, <3>9, <3>11, Zenon
    <2>. QED
      BY <2>4, <2>5
  <1>. QED
    BY <1>3, <1>4, <1>5, Zenon DEF Delivered

\* The types StructInv gives.
LEMMA StructTypes ==
  ASSUME StructInv
  PROVE  /\ TypeInv /\ NumbersOK /\ BeforeOK /\ RunsOK /\ sess \in Sessions /\ rte \in Entry
         /\ cur \in Conn \cup {0} /\ hist.runs \in Nat /\ row \in Row
         /\ lines \subseteq [run : Nat, order : Nat] /\ HasLast(lines)
         /\ rte.items \in Seq(Item) /\ Len(rte.items) \in Nat /\ Prefix(rte.items, rte.items)
         /\ rte.acked \in Nat /\ rte.next \in Nat \ {0} /\ rte.running \in BOOLEAN
         /\ hist \in [runs : Nat, written : SUBSET [run : Nat, order : Nat], soon : BOOLEAN]
  BY LenProperties, PrefixSelf DEF StructInv, TypeInv, TypeOK, Sessions, Entry

\* A quiet step keeps what is delivered.
LEMMA QuietDelivered ==
  ASSUME DeliveryInv, TypeInv', Quiet
  PROVE  DeliveryOK'
  <1>0. StructInv /\ DeliveryOK
    BY DEF DeliveryInv
  <1>. SUFFICES ASSUME hist'.runs <= 1, ~Gone'
                PROVE  Delivered(sess', rte', cur', StoredSet')
    BY DEF DeliveryOK
  <1>1. /\ rte' = rte /\ cur' = cur /\ hist'.runs = hist.runs /\ Kept(sess, sess', Harmless)
        /\ lines \subseteq lines' /\ (row'.status = "running" => row.status \in {"running", "absent"})
    BY DEF Quiet
  <1>2. /\ Len(rte.items) \in Nat /\ Prefix(rte.items, rte.items) /\ cur \in Conn \cup {0}
    BY <1>0, StructTypes
  <1>3. StoredSet \subseteq StoredSet'
    BY <1>0, <1>1, <1>2, StoredGrows
  <1>4. Delivered(sess, rte, cur, StoredSet)
    BY <1>0, <1>1 DEF DeliveryOK, Gone
  <1>5. cur # 0 => \A m : Has(sess'[cur].down, m) /\ m.t = "ack" => Has(sess[cur].down, m)
    BY <1>1, <1>2 DEF Kept, Harmless
  <1>6. cur # 0 /\ Usable(sess'[cur]) => Usable(sess[cur]) /\ sess'[cur].up = sess[cur].up
    BY <1>1, <1>2 DEF Kept, Usable
  <1>7. \A k \in 1..rte.acked : k \in StoredSet'
    BY <1>3, <1>4 DEF Delivered
  <1>. DEFINE st == StoredSet
              st2 == StoredSet'
  <1>8. st \subseteq st2 /\ Delivered(sess, rte, cur, st) /\ \A k \in 1..rte.acked : k \in st2
    BY <1>3, <1>4, <1>7
  <1>. HIDE DEF st, st2
  <1>9. Delivered(sess', rte, cur, st2)
    BY <1>2, <1>5, <1>6, <1>8, DeliveredOn
  <1>. QED
    BY <1>1, <1>9 DEF st2

\* A new socket has nothing on it, and the RTE is not welcomed there yet.
LEMMA DialsDelivered ==
  ASSUME DeliveryInv, TypeInv', Dials
  PROVE  DeliveryOK'
  <1>0. StructInv /\ DeliveryOK
    BY DEF DeliveryInv
  <1>. SUFFICES ASSUME hist'.runs <= 1, ~Gone'
                PROVE  Delivered(sess', rte', cur', StoredSet')
    BY DEF DeliveryOK
  <1>1. /\ UNCHANGED <<row, lines, rte, hist>> /\ cur = 0
        /\ sess'[cur'].up = <<>> /\ sess'[cur'].down = <<>>
    BY DEF Dials
  <1>2. StoredSet' = StoredSet
    BY <1>1 DEF StoredSet, ItemStored, AppLineAt
  <1>3. Delivered(sess, rte, cur, StoredSet) /\ rte.welcomed = FALSE
    BY <1>0, <1>1 DEF DeliveryOK, Gone, StructInv, NumbersOK
  <1>4. \A m : ~Has(<<>>, m)
    BY EmptySeq DEF Has
  <1>5. \A items, st : Ordered(<<>>, items, st)
    BY EmptySeq DEF Ordered
  <1>. QED
    BY <1>1, <1>2, <1>3, <1>4, <1>5 DEF Delivered

\* An item that is stored is: with the lines of one run and of the app, an order that is taken is the
\* line's own, or the app's.
LEMMA StoreStores ==
  ASSUME StructInv, hist.runs <= 1, NEW i \in Item, i.kind = "output" => i.run \in 1..hist.runs,
         row' = StoreRow(row, i), lines' = StoreLines(i)
  PROVE  ItemStored(i)'
  <1>0. /\ row \in Row /\ \A l \in lines : l.run \in Nat /\ l.order \in Nat /\ l = [run |-> l.run, order |-> l.order]
        /\ lines \subseteq [run : Nat, order : Nat] /\ HasLast(lines) /\ hist.runs \in Nat
        /\ \A l \in lines : l.run <= hist.runs
    BY StructTypes DEF RunsOK
  <1>1. CASE i.kind = "output"
    <2>1. PICK l \in lines' : l.order = i.order /\ (l \in lines \/ l = Line(i))
      BY <1>0, <1>1, StoreLinesTyping
    <2>2. l.run = 0 \/ l = Line(i)
      <3>1. i.run = 1
        BY <1>0, <1>1
      <3>. QED
        BY <1>0, <2>1, <3>1 DEF Line
    <2>3. l.run = 0 => l = [run |-> 0, order |-> i.order]
      BY <1>0, <2>1 DEF Line
    <2>. QED
      BY <1>1, <2>1, <2>2, <2>3 DEF ItemStored, AppLineAt
  <1>2. CASE i.kind \in {"end", "abandon"}
    <2>1. row'.status # "running"
      BY <1>0, <1>2, StoreMoves
    <2>. QED
      BY <1>2, <2>1 DEF ItemStored
  <1>3. CASE i.kind = "started"
    BY <1>3 DEF ItemStored
  <1>. QED
    BY <1>1, <1>2, <1>3 DEF Item

\* An item read is stored before its ack goes; one that failed is not acked, nor is anything after it.
LEMMA ReadsDelivered ==
  ASSUME DeliveryInv, TypeInv', NEW s \in Conn, Reads(s)
  PROVE  DeliveryOK'
  <1>0. StructInv /\ DeliveryOK
    BY DEF DeliveryInv
  <1>. SUFFICES ASSUME hist'.runs <= 1, ~Gone'
                PROVE  Delivered(sess', rte', cur', StoredSet')
    BY DEF DeliveryOK
  <1>1. /\ UNCHANGED <<cur, rte, hist>> /\ sess[s].up # <<>>
        /\ \A t \in Conn : /\ sess'[t].up = IF t = s THEN Tail(sess[s].up) ELSE sess[t].up
                           /\ sess'[t].failed = FALSE => sess[t].failed = FALSE
                           /\ sess[t].hub = "closed" => sess'[t].hub = "closed"
        /\ Stores(s) \/ (UNCHANGED <<row, lines>> /\ (Next1(s).t = "item" => sess'[s].failed = TRUE))
    BY DEF Reads
  <1>2. /\ sess \in Sessions /\ sess[s].up \in Seq(UpMessage) /\ Next1(s) \in UpMessage
        /\ Len(rte.items) \in Nat /\ Prefix(rte.items, rte.items) /\ cur \in Conn \cup {0} /\ row \in Row
        /\ lines \subseteq [run : Nat, order : Nat] /\ HasLast(lines) /\ RunsOK
    BY <1>0, <1>1, StructTypes, HasTail DEF Sessions, Session, Next1
  <1>3. Next1(s).t = "item" => Next1(s).item \in Item /\ Next1(s).seq \in Nat
    BY <1>2, MessageTyping
  <1>4. /\ lines \subseteq lines'
        /\ row'.status = "running" => row.status \in {"running", "absent"}
    BY <1>1, <1>2, <1>3, StoreMoves, StoreLinesTyping DEF Stores, Moves
  <1>5. StoredSet \subseteq StoredSet'
    BY <1>0, <1>1, <1>2, <1>4, StoredGrows
  <1>6. Delivered(sess, rte, cur, StoredSet) /\ hist.runs <= 1
    BY <1>0, <1>1 DEF DeliveryOK, Gone
  <1>m. PICK m1 : m1 = Next1(s)
    OBVIOUS
  <1>7. ASSUME Stores(s)
        PROVE  ItemStored(m1.item)'
    <2>1. Ups(s, Next1(s))
      BY <1>1, <1>2, HasTail DEF Ups, Next1
    <2>2. m1.item.kind = "output" => m1.item.run \in 1..hist.runs
      BY <1>2, <1>7, <1>m, <2>1 DEF Stores, RunsOK
    <2>3. m1.item \in Item /\ row' = StoreRow(row, m1.item) /\ lines' = StoreLines(m1.item)
      BY <1>3, <1>7, <1>m DEF Stores
    <2>. QED
      BY <1>0, <1>6, <2>2, <2>3, StoreStores
  <1>. DEFINE st == StoredSet
              st2 == StoredSet'
              q == sess[s].up
  \* the first item of the socket the RTE has is the spool's, and nothing is ahead of it
  <1>8. ASSUME s = cur, Usable(sess[s]), Next1(s).t = "item"
        PROVE  /\ Next1(s).seq \in 1..Len(rte.items) /\ rte.items[Next1(s).seq] = Next1(s).item
               /\ \A k \in 1..(Next1(s).seq - 1) : k \in st
               /\ Stores(s) => Next1(s).seq \in st2
    <2>1. Ordered(q, rte.items, st)
      BY <1>6, <1>8 DEF Delivered, Conn
    <2>2. 1 \in 1..Len(q) /\ Next1(s) = q[1]
      BY <1>1, <1>2, TailQueue DEF Next1
    <2>3. ~\E j \in 1..(1 - 1) : TRUE
      OBVIOUS
    <2>4. /\ Next1(s).seq \in 1..Len(rte.items) /\ rte.items[Next1(s).seq] = Next1(s).item
          /\ \A k \in 1..(Next1(s).seq - 1) : k \in st
      BY <1>8, <2>1, <2>2, <2>3 DEF Ordered, Before
    <2>5. Stores(s) => Next1(s).seq \in st2
      <3>1. rte'.items = rte.items
        BY <1>1
      <3>2. m1.seq \in 1..Len(rte'.items) /\ rte'.items[m1.seq] = m1.item
        BY <1>m, <2>4, <3>1
      <3>3. Stores(s) => ItemStored(rte.items[m1.seq])'
        BY <1>7, <3>2
      <3>4. Stores(s) => m1.seq \in StoredSet'
        BY <3>2, <3>3 DEF StoredSet
      <3>. QED
        BY <1>m, <3>4
    <2>. QED
      BY <2>4, <2>5
  <1>9. st \subseteq st2 /\ Delivered(sess, rte, cur, st)
    BY <1>5, <1>6
  <1>10. \A k \in 1..rte.acked : k \in st2
    BY <1>9 DEF Delivered
  <1>. HIDE DEF st, st2
  <1>11. ASSUME cur # 0, NEW m, Has(sess'[cur].down, m), m.t = "ack"
         PROVE  m.seq \in 0..Len(rte.items) /\ \A k \in 1..m.seq : k \in st2
    <2>1. CASE Has(sess[cur].down, m)
      BY <1>9, <1>11, <2>1 DEF Delivered
    <2>2. CASE m.seq = Next1(s).seq /\ s = cur /\ Stores(s) /\ sess[s].hub # "closed"
      <3>1. Usable(sess[s]) /\ Next1(s).t = "item"
        BY <2>2 DEF Stores, Usable
      <3>2. /\ m.seq \in 1..Len(rte.items) /\ m.seq \in st2
            /\ \A k \in 1..(m.seq - 1) : k \in st
        BY <1>8, <2>2, <3>1
      <3>3. \A k \in 1..m.seq : k = m.seq \/ k \in 1..(m.seq - 1)
        BY <3>2
      <3>. QED
        BY <1>2, <1>9, <3>2, <3>3
    <2>. QED
      BY <1>2, <1>11, <2>1, <2>2 DEF Reads
  <1>12. ASSUME cur # 0, Usable(sess'[cur])
         PROVE  Ordered(sess'[cur].up, rte.items, st2) /\ (rte.welcomed = TRUE => Complete(sess'[cur].up, rte.next - 1, st2))
    <2>0. Usable(sess[cur]) /\ cur \in Conn
      BY <1>1, <1>2, <1>12 DEF Usable
    <2>1. Ordered(sess[cur].up, rte.items, st) /\ (rte.welcomed = TRUE => Complete(sess[cur].up, rte.next - 1, st))
      BY <1>9, <1>12, <2>0 DEF Delivered
    <2>2. CASE s # cur
      <3>1. sess'[cur].up = sess[cur].up
        BY <1>1, <2>0, <2>2
      <3>2. /\ Ordered(sess[cur].up, rte.items, st) => Ordered(sess[cur].up, rte.items, st2)
            /\ \A n : Complete(sess[cur].up, n, st) => Complete(sess[cur].up, n, st2)
        BY <1>2, <1>9, OrderedGrows
      <3>. QED
        BY <2>1, <3>1, <3>2, Zenon
    <2>3. CASE s = cur
      <3>1. Next1(s).t = "item" => Next1(s).seq \in st2
        BY <1>1, <1>8, <1>12, <2>0, <2>3 DEF Usable
      <3>2. /\ Ordered(q, rte.items, st) => Ordered(Tail(q), rte.items, st2)
            /\ \A n : Complete(q, n, st) => Complete(Tail(q), n, st2)
        BY <1>1, <1>2, <1>9, <3>1, TailOrdered DEF Next1
      <3>3. sess'[cur].up = Tail(q)
        BY <1>1, <2>3
      <3>. QED
        BY <2>1, <2>3, <3>2, <3>3, Zenon
    <2>. QED
      BY <2>2, <2>3
  <1>13. Delivered(sess', rte, cur, st2)
    BY <1>10, <1>11, <1>12, Zenon DEF Delivered
  <1>. QED
    BY <1>1, <1>13 DEF st2

\* An RTE that goes on with its spool and sends keeps what is delivered.
LEMMA RteOn ==
  ASSUME DeliveryInv, TypeInv', RteMoves, hist'.runs <= 1, ~Gone', hist'.runs = hist.runs,
         Prefix(rte.items, rte'.items)
  PROVE  Delivered(sess, rte, cur, StoredSet) /\ StoredSet \subseteq StoredSet'
  <1>1. StructInv /\ DeliveryOK /\ UNCHANGED <<row, lines>>
    BY DEF DeliveryInv, RteMoves
  <1>2. row \in Row /\ rte.running \in BOOLEAN
    BY <1>1, StructTypes
  <1>3. ~Gone
    BY DEF RteMoves, Gone
  <1>4. StoredSet \subseteq StoredSet'
    <2>1. lines \subseteq lines' /\ (row'.status = "running" => row.status \in {"running", "absent"})
      BY <1>1
    <2>. QED
      BY <1>1, <2>1, StoredGrows
  <1>. QED
    BY <1>1, <1>3, <1>4 DEF DeliveryOK

\* A step on from what the RTE has, and pump.
LEMMA RteSendsOn ==
  ASSUME DeliveryInv, TypeInv', RteMoves, hist'.runs <= 1, ~Gone', hist'.runs = hist.runs, cur' = cur,
         NEW ss \in Sessions, NEW e \in Entry, RteSends(ss, e, <<>>), Prefix(rte.items, e.items),
         \A k \in 1..e.acked : k <= rte.acked
                               \/ (cur # 0 /\ \E m : Has(sess[cur].down, m) /\ m.t = "ack" /\ k <= m.seq),
         cur # 0 => \A m : Has(ss[cur].down, m) => Has(sess[cur].down, m),
         \A t \in Conn : ss[t].up = sess[t].up /\ ss[t].hub = sess[t].hub /\ ss[t].failed = sess[t].failed,
         e.welcomed = TRUE => (e.next = e.acked + 1) \/ (rte.welcomed = TRUE /\ e.next = rte.next)
  PROVE  Delivered(sess', rte', cur', StoredSet')
  <1>0. /\ StructInv /\ cur \in Conn \cup {0} /\ Len(rte.items) \in Nat /\ Len(e.items) \in Nat /\ e.acked \in Nat
        /\ rte.acked \in Nat /\ sess \in Sessions
    BY StructTypes, LenProperties DEF DeliveryInv, Entry
  <1>1. rte'.items = e.items
    BY <1>0, SendsAdds
  <1>2. Delivered(sess, rte, cur, StoredSet) /\ StoredSet \subseteq StoredSet'
    BY <1>1, RteOn
  <1>. DEFINE st == StoredSet
              st2 == StoredSet'
  <1>3. st \subseteq st2 /\ Delivered(sess, rte, cur, st)
    BY <1>2
  <1>. HIDE DEF st, st2
  <1>4. \A k \in 1..e.acked : k \in st2
    <2>. SUFFICES ASSUME NEW k \in 1..e.acked PROVE k \in st2
      OBVIOUS
    <2>1. CASE k <= rte.acked
      BY <1>0, <1>3, <2>1 DEF Delivered
    <2>2. ASSUME cur # 0, NEW m, Has(sess[cur].down, m), m.t = "ack", k <= m.seq PROVE k \in st2
      <3>1. m.seq \in 0..Len(rte.items) /\ \A j \in 1..m.seq : j \in st
        BY <1>3, <2>2 DEF Delivered
      <3>. QED
        BY <1>0, <1>3, <2>2, <3>1
    <2>. QED
      BY <2>1, <2>2
  <1>5. cur # 0 => \A m : Has(ss[cur].down, m) /\ m.t = "ack" => Has(sess[cur].down, m)
    OBVIOUS
  <1>6. cur # 0 /\ Usable(ss[cur]) => Usable(sess[cur]) /\ ss[cur].up = sess[cur].up
    BY <1>0 DEF Usable
  <1>7. e.welcomed = TRUE => (\A k \in 1..(e.next - 1) : k \in st2) \/ (rte.welcomed = TRUE /\ e.next = rte.next)
    <2>1. e.next = e.acked + 1 => e.next - 1 = e.acked
      BY <1>0
    <2>. QED
      BY <1>4, <2>1
  <1>8. Delivered(ss, e, cur, st2)
    BY <1>0, <1>3, <1>4, <1>5, <1>6, <1>7, DeliveredOn, ZenonT(30)
  <1>9. Delivered(sess', rte', cur, st2)
    BY <1>0, <1>8, SendsDelivered
  <1>. QED
    BY <1>9 DEF st2

\* The steps of the RTE keep what is delivered.
LEMMA RteDelivered ==
  ASSUME DeliveryInv, TypeInv', RteMoves, RteStep
  PROVE  DeliveryOK'
  <1>. SUFFICES ASSUME hist'.runs <= 1, ~Gone'
                PROVE  Delivered(sess', rte', cur', StoredSet')
    BY DEF DeliveryOK
  <1>0. /\ StructInv /\ TypeInv /\ NumbersOK /\ sess \in Sessions /\ rte \in Entry /\ cur \in Conn \cup {0}
        /\ hist.runs \in Nat /\ rte.acked \in Nat /\ rte.next \in Nat \ {0} /\ rte.items \in Seq(Item)
        /\ Len(rte.items) \in Nat /\ Prefix(rte.items, rte.items)
        /\ rte.acked <= Len(rte.items) /\ rte.next <= Len(rte.items) + 1
        /\ hist \in [runs : Nat, written : SUBSET [run : Nat, order : Nat], soon : BOOLEAN]
    BY StructTypes DEF DeliveryInv, NumbersOK
  <1>1. CASE Started \/ Write \/ RunEnds \/ StartFails
    <2>1. PICK e, it : Spools(e, it)
      BY <1>0, <1>1, SpoolSteps
    <2>2. Prefix(rte.items, e.items)
      BY <1>0, <2>1, AppendQueue DEF Spools, Prefix
    <2>3. hist'.runs = hist.runs
      <3>1. hist'.runs = hist.runs \/ hist'.runs = hist.runs + 1
        BY DEF RteMoves
      <3>2. UNCHANGED hist \/ \E w : hist' = [hist EXCEPT !.written = @ \cup {w}]
        BY <1>1 DEF Started, Write, RunEnds, StartFails
      <3>. QED
        BY <1>0, <3>2
    <2>4. /\ e \in Entry /\ RteSends(sess, e, <<>>) /\ e.acked = rte.acked /\ e.next = rte.next
          /\ e.welcomed = rte.welcomed
      BY <2>1 DEF Spools
    <2>5. cur' = cur
      BY <1>1 DEF Started, Write, RunEnds, StartFails, RteReads
    <2>6. \A k \in 1..e.acked : k <= rte.acked
      BY <1>0, <2>4
    <2>. QED
      BY <1>0, <2>2, <2>3, <2>4, <2>5, <2>6, RteSendsOn
  <1>2. CASE OnWelcome
    <2>. DEFINE w == [rte EXCEPT !.welcomed = TRUE]
                next == rte.acked + 1
                e == Rewound(w)
                rd == Read(cur)
    <2>1. /\ w \in Entry /\ w.acked = rte.acked
      BY <1>0 DEF Entry
    <2>2. e = [rte EXCEPT !.welcomed = TRUE, !.next = next] /\ next \in Nat \ {0}
      BY <1>0, <2>1 DEF Rewound
    <2>3. cur \in Conn /\ sess[cur].down # <<>> /\ RteSends(rd, e, <<>>) /\ UNCHANGED <<cur, hist>>
      BY <1>0, <1>2 DEF OnWelcome, Told, RteReads
    <2>4. /\ rd \in Sessions /\ \A m : Has(rd[cur].down, m) => Has(sess[cur].down, m)
          /\ \A t \in Conn : rd[t].up = sess[t].up /\ rd[t].hub = sess[t].hub /\ rd[t].failed = sess[t].failed
      BY <1>0, <2>3, ReadFields, ZenonT(30)
    <2>. HIDE DEF e, next, rd
    <2>5. e \in Entry /\ e.items = rte.items /\ e.acked = rte.acked /\ e.next = next
      BY <1>0, <2>2 DEF Entry
    <2>6. e.next = e.acked + 1 /\ \A k \in 1..e.acked : k <= rte.acked
      BY <1>0, <2>5 DEF next
    <2>7. Prefix(rte.items, e.items) /\ hist'.runs = hist.runs /\ cur' = cur
      BY <1>0, <2>3, <2>5
    <2>. QED
      BY <2>3, <2>4, <2>5, <2>6, <2>7, RteSendsOn
  <1>3. CASE OnAck
    <2>. DEFINE m == Head(sess[cur].down)
                e == AckedTo(rte, m.seq)
                rd == Read(cur)
    <2>1. cur \in Conn /\ cur # 0 /\ sess[cur].down # <<>> /\ m.t = "ack" /\ UNCHANGED <<cur, hist>>
      BY <1>0, <1>3 DEF OnAck, Told, RteReads
    <2>2. m.seq \in Nat /\ Has(sess[cur].down, m)
      BY <1>0, <2>1, ReadTyping, MessageTyping, HasTail DEF Sessions, Session
    <2>3. /\ e \in Entry /\ e.items = rte.items /\ e.welcomed = rte.welcomed /\ e.acked \in Nat
          /\ \A k \in Nat : k <= e.acked => k <= rte.acked \/ k <= m.seq
          /\ e.next = rte.next \/ e.next = e.acked + 1
      BY <1>0, <2>2, AckedFields DEF Entry
    <2>4. /\ rd \in Sessions /\ \A x : Has(rd[cur].down, x) => Has(sess[cur].down, x)
          /\ \A t \in Conn : rd[t].up = sess[t].up /\ rd[t].hub = sess[t].hub /\ rd[t].failed = sess[t].failed
      BY <1>0, <2>1, ReadFields, SMTT(30)
    <2>5. \/ rte' = rte /\ sess' = rd
          \/ rte' = Removed(e)
          \/ RteSends(rd, e, <<>>)
      BY <1>3 DEF OnAck
    <2>. HIDE DEF m, e, rd
    <2>6. CASE RteSends(rd, e, <<>>)
      <3>1. \A k \in 1..e.acked : k <= rte.acked \/ (cur # 0 /\ \E x : Has(sess[cur].down, x) /\ x.t = "ack" /\ k <= x.seq)
        BY <2>1, <2>2, <2>3
      <3>2. Prefix(rte.items, e.items) /\ hist'.runs = hist.runs /\ cur' = cur
        BY <1>0, <2>1, <2>3
      <3>. QED
        BY <2>3, <2>4, <2>6, <3>1, <3>2, RteSendsOn
    <2>7. CASE rte' = Removed(e)
      BY <2>7 DEF Gone, Removed, NoEntry
    <2>8. CASE rte' = rte /\ sess' = rd
      <3>. DEFINE st == StoredSet
                  st2 == StoredSet'
      <3>1. Prefix(rte.items, rte'.items) /\ hist'.runs = hist.runs /\ cur' = cur
        BY <1>0, <2>1, <2>8
      <3>2. Delivered(sess, rte, cur, st) /\ st \subseteq st2
        BY <3>1, RteOn
      <3>. HIDE DEF st, st2
      <3>3. \A k \in 1..rte.acked : k \in st2
        BY <3>2 DEF Delivered
      <3>4. Delivered(rd, rte, cur, st2)
        BY <1>0, <2>1, <2>4, <3>2, <3>3, DeliveredOn DEF Usable
      <3>. QED
        BY <2>8, <3>1, <3>4 DEF st2
    <2>. QED
      BY <2>5, <2>6, <2>7, <2>8
  <1>4. CASE OnRun
    <2>1. cur \in Conn /\ cur # 0 /\ sess[cur].down # <<>> /\ UNCHANGED cur
      BY <1>0, <1>4 DEF OnRun, Told, RteReads
    <2>2. PICK t \in {"claimed", "busy", "unfit"} :
            /\ \/ rte' = rte /\ hist' = hist
               \/ /\ rte' = Taken(rte, Head(sess[cur].down).last)
                  /\ hist' = [hist EXCEPT !.runs = @ + 1, !.written = {}]
            /\ sess' = [Read(cur) EXCEPT ![cur].up =
                          IF sess[cur].hub = "closed" THEN @ ELSE Append(@, [t |-> t])]
      BY <1>4 DEF OnRun
    <2>. DEFINE a == [t |-> t]
                rd == Read(cur)
                u == IF sess[cur].hub = "closed" THEN rd[cur].up ELSE Append(rd[cur].up, a)
                st == StoredSet
                st2 == StoredSet'
    <2>3. /\ rd \in Sessions
          /\ \A s \in Conn : /\ rd[s].up = sess[s].up /\ rd[s].hub = sess[s].hub /\ rd[s].failed = sess[s].failed
                             /\ \A m : Has(rd[s].down, m) => Has(sess[s].down, m)
      BY <1>0, <2>1, ReadFields, ZenonT(30)
    <2>4. a \in UpMessage /\ a.t # "item" /\ sess[cur].up \in Seq(UpMessage)
      BY <1>0, <2>1, MessageTyping DEF Sessions, Session
    <2>5. sess' = [rd EXCEPT ![cur].up = u]
      BY <2>2
    <2>6. sess[cur].hub # "closed" => u = Append(sess[cur].up, a)
      BY <2>1, <2>3
    <2>. HIDE DEF a, rd, u, st, st2
    <2>7. /\ sess'[cur].up = u /\ sess'[cur].hub = sess[cur].hub /\ sess'[cur].failed = sess[cur].failed
          /\ sess'[cur].down = rd[cur].down
      BY <2>1, <2>3, <2>5 DEF Sessions, Session
    <2>8. /\ \A items, S : Ordered(sess[cur].up, items, S) => Ordered(Append(sess[cur].up, a), items, S)
          /\ \A n, S : Complete(sess[cur].up, n, S) => Complete(Append(sess[cur].up, a), n, S)
      BY <2>4, AppendOrdered
    <2>9. rte'.items = rte.items /\ rte'.acked = rte.acked /\ rte'.next = rte.next /\ rte'.welcomed = rte.welcomed
      BY <1>0, <2>2 DEF Taken, Entry
    <2>10. Delivered(sess, rte, cur, st) /\ st \subseteq st2
      <3>1. CASE rte' = rte /\ hist' = hist
        BY <1>0, <3>1, RteOn DEF st, st2
      <3>2. CASE hist' = [hist EXCEPT !.runs = @ + 1, !.written = {}]
        <4>1. hist'.runs = hist.runs + 1
          <5>. DEFINE runs == hist.runs + 1
          <5>1. hist' = [hist EXCEPT !.runs = runs, !.written = {}]
            BY <3>2
          <5>. HIDE DEF runs
          <5>2. hist'.runs = runs
            BY <1>0, <5>1
          <5>. QED
            BY <5>2 DEF runs
        <4>2. hist.runs = 0
          BY <1>0, <4>1
        <4>3. BeforeOK
          BY <1>0 DEF StructInv
        <4>4. /\ rte.items = <<>> /\ \A m : (Ups(cur, m) => m.t # "item") /\ (Downs(cur, m) => m.t # "ack")
          BY <2>1, <4>2, <4>3, Zenon DEF BeforeOK
        <4>5. Len(rte.items) = 0 /\ rte.acked = 0 /\ rte.next = 1
          BY <1>0, <4>4, EmptySeq
        <4>6. st = {}
          BY <4>5 DEF StoredSet, st
        <4>7. Ordered(sess[cur].up, rte.items, st)
          BY <4>4 DEF Ordered, Ups, Has
        <4>8. Complete(sess[cur].up, rte.next - 1, st)
          BY <4>5 DEF Complete
        <4>. QED
          BY <4>4, <4>5, <4>6, <4>7, <4>8 DEF Delivered, Downs
      <3>. QED
        BY <2>2, <3>1, <3>2
    <2>11. \A k \in 1..rte'.acked : k \in st2
      BY <2>9, <2>10 DEF Delivered
    <2>12. \A m : Has(sess'[cur].down, m) /\ m.t = "ack" =>
                    m.seq \in 0..Len(rte'.items) /\ \A k \in 1..m.seq : k \in st2
      BY <2>1, <2>3, <2>7, <2>9, <2>10 DEF Delivered
    <2>13. ASSUME Usable(sess'[cur])
           PROVE  /\ Ordered(sess'[cur].up, rte'.items, st2)
                  /\ rte'.welcomed = TRUE => Complete(sess'[cur].up, rte'.next - 1, st2)
      <3>1. Usable(sess[cur]) /\ sess'[cur].up = Append(sess[cur].up, a)
        BY <2>6, <2>7, <2>13 DEF Usable
      <3>2. Ordered(sess[cur].up, rte.items, st) /\ (rte.welcomed = TRUE => Complete(sess[cur].up, rte.next - 1, st))
        BY <2>1, <2>10, <3>1 DEF Delivered
      <3>3. /\ Ordered(sess[cur].up, rte.items, st) => Ordered(sess[cur].up, rte.items, st2)
            /\ \A n : Complete(sess[cur].up, n, st) => Complete(sess[cur].up, n, st2)
        BY <1>0, <2>10, OrderedGrows
      <3>. QED
        BY <2>8, <2>9, <3>1, <3>2, <3>3, Zenon
    <2>14. Delivered(sess', rte', cur, st2)
      BY <2>11, <2>12, <2>13, Zenon DEF Delivered
    <2>. QED
      BY <2>1, <2>14 DEF st2
  <1>5. CASE OnCancel \/ ExpireCancel
    <2>1. /\ UNCHANGED <<cur, hist>>
          /\ sess' = sess \/ (cur # 0 /\ sess[cur].down # <<>> /\ sess' = Read(cur))
      BY <1>5 DEF OnCancel, ExpireCancel, RteReads, Told
    <2>2. \/ rte' = rte \/ rte' = [rte EXCEPT !.early = TRUE] \/ rte' = [rte EXCEPT !.abort = TRUE]
          \/ rte' = [rte EXCEPT !.early = FALSE]
      BY <1>5 DEF OnCancel, ExpireCancel
    <2>3. rte'.items = rte.items /\ rte'.acked = rte.acked /\ rte'.next = rte.next /\ rte'.welcomed = rte.welcomed
      BY <1>0, <2>2 DEF Entry
    <2>4. \A t \in Conn : /\ sess'[t].up = sess[t].up /\ sess'[t].hub = sess[t].hub /\ sess'[t].failed = sess[t].failed
                          /\ \A m : Has(sess'[t].down, m) => Has(sess[t].down, m)
      BY <1>0, <2>1, ReadFields
    <2>. DEFINE st == StoredSet
                st2 == StoredSet'
    <2>5. Delivered(sess, rte, cur, st) /\ st \subseteq st2
      BY <1>0, <2>1, <2>3, RteOn
    <2>. HIDE DEF st, st2
    <2>6. \A k \in 1..rte'.acked : k \in st2
      BY <2>3, <2>5 DEF Delivered
    <2>7. Delivered(sess', rte', cur, st2)
      BY <1>0, <2>3, <2>4, <2>5, <2>6, DeliveredOn DEF Usable
    <2>. QED
      BY <2>1, <2>7 DEF st2
  <1>6. CASE RteRestarts \/ RteLosesSocket
    <2>1. UNCHANGED hist /\ cur' = 0
      BY <1>6 DEF RteRestarts, RteLosesSocket
    <2>2. rte' \in {[rte EXCEPT !.welcomed = FALSE], Reloaded(rte), NoEntry}
      BY <1>6 DEF RteRestarts, RteLosesSocket
    <2>3. NoEntry.items = <<>> /\ NoEntry.running = FALSE
      BY DEF NoEntry
    <2>4. rte'.items # <<>> \/ rte'.running # FALSE
      BY DEF Gone
    <2>5. rte'.acked = rte.acked /\ Prefix(rte.items, rte'.items)
      <3>1. CASE rte' = [rte EXCEPT !.welcomed = FALSE]
        BY <1>0, <3>1 DEF Entry
      <3>2. CASE rte' = Reloaded(rte)
        <4>1. /\ rte'.running = FALSE
              /\ rte'.items # <<>> => rte'.acked = rte.acked
              /\ \/ rte'.items = rte.items
                 \/ \E it \in Item : it.kind = "abandon" /\ rte'.items = Append(rte.items, it)
          BY <1>0, <3>2, ReloadedFields
        <4>2. Prefix(rte.items, rte'.items)
          BY <1>0, <4>1, AppendQueue DEF Prefix
        <4>. QED
          BY <2>4, <4>1, <4>2
      <3>. QED
        BY <2>2, <2>3, <2>4, <3>1, <3>2
    <2>6. Delivered(sess, rte, cur, StoredSet) /\ StoredSet \subseteq StoredSet'
      BY <2>1, <2>5, RteOn
    <2>. QED
      BY <2>1, <2>5, <2>6 DEF Delivered
  <1>. QED
    BY <1>1, <1>2, <1>3, <1>4, <1>5, <1>6 DEF RteStep

\* Nothing is acked at the start.
LEMMA DeliveryInit == Init => DeliveryInv
  <1>. SUFFICES ASSUME Init PROVE DeliveryInv
    OBVIOUS
  <1>1. Gone
    BY DEF Init, NoEntry, Gone
  <1>. QED
    BY <1>1, StructInit DEF DeliveryInv, DeliveryOK

\* No step acks what is not stored.
LEMMA DeliveryNext == DeliveryInv /\ [Next]_vars => DeliveryInv'
  <1>. SUFFICES ASSUME DeliveryInv, [Next]_vars PROVE DeliveryInv'
    OBVIOUS
  <1>1. StructInv /\ StructInv' /\ TypeInv /\ TypeInv' /\ NumbersOK
    BY StructNext DEF DeliveryInv, StructInv
  <1>2. DeliveryOK'
    BY <1>1, StepKinds, QuietDelivered, ReadsDelivered, DialsDelivered, RteStepMoves, RteDelivered
  <1>. QED
    BY <1>1, <1>2 DEF DeliveryInv

\* AckedIsStored of RteDelivery.
THEOREM AckedIsStoredAlways == Spec => []AckedIsStored
  <1>1. DeliveryInv => AckedIsStored
    <2>. SUFFICES ASSUME DeliveryInv, hist.runs <= 1, NEW k \in 1..Len(rte.items),
                         k <= rte.acked \/ AckOnItsWay(k)
                  PROVE  ItemStored(rte.items[k])
      BY DEF AckedIsStored, EachItemOnce
    <2>0. Len(rte.items) \in Nat /\ rte.acked \in Nat /\ cur \in Conn \cup {0}
      BY StructTypes DEF DeliveryInv
    <2>1. rte.items # <<>>
      BY <2>0, EmptySeq
    <2>2. Delivered(sess, rte, cur, StoredSet)
      BY <2>1 DEF DeliveryInv, DeliveryOK, Gone
    <2>3. k \in StoredSet
      <3>1. CASE k <= rte.acked
        BY <2>0, <2>2, <3>1 DEF Delivered
      <3>2. CASE AckOnItsWay(k)
        <4>1. PICK i \in 1..Len(sess[cur].down) : sess[cur].down[i].t = "ack" /\ sess[cur].down[i].seq >= k
          BY <3>2 DEF AckOnItsWay
        <4>2. cur # 0 /\ Has(sess[cur].down, sess[cur].down[i])
          BY <3>2 DEF AckOnItsWay, Has
        <4>3. /\ sess[cur].down[i].seq \in 0..Len(rte.items)
              /\ \A j \in 1..sess[cur].down[i].seq : j \in StoredSet
          BY <2>2, <4>1, <4>2 DEF Delivered
        <4>. QED
          BY <2>0, <4>1, <4>3
      <3>. QED
        BY <3>1, <3>2
    <2>. QED
      BY <2>3 DEF StoredSet
  <1>. QED
    BY DeliveryInit, DeliveryNext, <1>1, PTL DEF Spec
-----------------------------------------------------------------------------
(* A success has all its output                                            *)

\* The lines the last run wrote that are not in the database, nor their order the app's.
Owed == {w \in hist.written : w \notin lines /\ ~AppLineAt(w.order)}

\* All of a run's output is among the first n items.
OutputsBefore(items, n, W) == \A w \in W : \E k \in 1..n : items[k].kind = "output" /\ Line(items[k]) = w

\* Ahead of the end of a run in q is every line that is owed.
EndsLast(q, owed) ==
  \A i \in 1..Len(q) : (q[i].t = "item" /\ q[i].item.kind = "end") =>
    \A w \in owed : \E j \in 1..(i - 1) : q[j].t = "item" /\ q[j].item.kind = "output" /\ Line(q[j].item) = w

\* The end of a run comes after its output, in the spool, on the sockets and in the database.
WholeOK ==
  /\ rte.running = TRUE =>
       /\ row.status # "success" /\ \A i : Has(rte.items, i) => i.kind # "end"
       /\ \A s \in Conn : \A m : Ups(s, m) /\ m.t = "item" => m.item.kind # "end"
  /\ ~Gone => OutputsBefore(rte.items, Len(rte.items), hist.written)
  /\ \A k \in 1..Len(rte.items) : rte.items[k].kind = "end" => OutputsBefore(rte.items, k - 1, hist.written)
  /\ \A s \in Conn : sess[s].failed = FALSE => EndsLast(sess[s].up, Owed)
  /\ row.status = "success" => Owed = {}

\* The same of a job that ran once.
WholeInv == DeliveryInv /\ (hist.runs <= 1 => WholeOK)

\* What is written and not stored becomes less when lines are added.
LEMMA OwedShrinks ==
  ASSUME lines \subseteq lines', hist'.written = hist.written
  PROVE  Owed' \subseteq Owed
  BY DEF Owed, AppLineAt

\* Ends stay after the output when a queue loses its last messages.
LEMMA EndsPrefix ==
  ASSUME NEW p, NEW q, NEW owed, NEW owed2, owed2 \subseteq owed, Prefix(p, q),
         Len(p) \in Nat, Len(q) \in Nat, EndsLast(q, owed)
  PROVE  EndsLast(p, owed2)
  <1>. SUFFICES ASSUME NEW i \in 1..Len(p), p[i].t = "item", p[i].item.kind = "end", NEW w \in owed2
                PROVE  \E j \in 1..(i - 1) : p[j].t = "item" /\ p[j].item.kind = "output" /\ Line(p[j].item) = w
    BY DEF EndsLast
  <1>1. i \in 1..Len(q) /\ p[i] = q[i] /\ \A j \in 1..(i - 1) : p[j] = q[j]
    BY DEF Prefix
  <1>2. \E j \in 1..(i - 1) : q[j].t = "item" /\ q[j].item.kind = "output" /\ Line(q[j].item) = w
    BY <1>1 DEF EndsLast
  <1>. QED
    BY <1>1, <1>2

\* Ends stay after the output when its head is read, and what is read is not owed.
LEMMA EndsTail ==
  ASSUME NEW q \in Seq(UpMessage), q # <<>>, NEW owed, NEW owed2, owed2 \subseteq owed,
         Head(q).t = "item" /\ Head(q).item.kind = "output" => Line(Head(q).item) \notin owed2,
         EndsLast(q, owed)
  PROVE  EndsLast(Tail(q), owed2)
  <1>. DEFINE p == Tail(q)
  <1>0. /\ Len(p) \in Nat /\ Len(q) = Len(p) + 1 /\ Head(q) = q[1]
        /\ \A i \in 1..Len(p) : i + 1 \in 1..Len(q) /\ p[i] = q[i + 1]
        /\ \A i \in 1..Len(q) : i # 1 => i - 1 \in 1..Len(p) /\ p[i - 1] = q[i]
    BY TailQueue
  <1>. HIDE DEF p
  <1>. SUFFICES ASSUME NEW i \in 1..Len(p), p[i].t = "item", p[i].item.kind = "end", NEW w \in owed2
                PROVE  \E j \in 1..(i - 1) : p[j].t = "item" /\ p[j].item.kind = "output" /\ Line(p[j].item) = w
    BY DEF EndsLast, p
  <1>1. i + 1 \in 1..Len(q) /\ p[i] = q[i + 1] /\ (i + 1) - 1 = i
    BY <1>0
  <1>2. PICK j \in 1..i : q[j].t = "item" /\ q[j].item.kind = "output" /\ Line(q[j].item) = w
    BY <1>1 DEF EndsLast
  <1>3. j # 1
    BY <1>0, <1>2
  <1>4. j - 1 \in 1..(i - 1) /\ j \in 1..Len(q)
    BY <1>0, <1>3
  <1>5. p[j - 1] = q[j]
    BY <1>0, <1>3, <1>4
  <1>. QED
    BY <1>2, <1>4, <1>5

\* Ends stay after the output when a message that is no end is added.
LEMMA EndsAppend ==
  ASSUME NEW q \in Seq(UpMessage), NEW m \in UpMessage, m.t # "item", NEW owed, EndsLast(q, owed)
  PROVE  EndsLast(Append(q, m), owed)
  <1>. DEFINE p == Append(q, m)
  <1>0. /\ Len(q) \in Nat /\ Len(p) = Len(q) + 1 /\ p[Len(q) + 1] = m
        /\ \A i \in 1..Len(q) : i \in 1..Len(p) /\ p[i] = q[i]
        /\ \A i \in 1..Len(p) : i \in 1..Len(q) \/ i = Len(q) + 1
    BY AppendQueue
  <1>. HIDE DEF p
  <1>. SUFFICES ASSUME NEW i \in 1..Len(p), p[i].t = "item", p[i].item.kind = "end", NEW w \in owed
                PROVE  \E j \in 1..(i - 1) : p[j].t = "item" /\ p[j].item.kind = "output" /\ Line(p[j].item) = w
    BY DEF EndsLast, p
  <1>1. i \in 1..Len(q) /\ p[i] = q[i]
    BY <1>0
  <1>2. PICK j \in 1..(i - 1) : q[j].t = "item" /\ q[j].item.kind = "output" /\ Line(q[j].item) = w
    BY <1>1 DEF EndsLast
  <1>3. p[j] = q[j]
    BY <1>0, <1>1
  <1>. QED
    BY <1>2, <1>3

\* What is on its way in order, out of a spool whose ends come last, has its ends last.
LEMMA EndsOrdered ==
  ASSUME NEW q \in Seq(UpMessage), NEW items, NEW st, NEW owed, NEW W, owed \subseteq W, Len(items) \in Nat,
         Ordered(q, items, st),
         \A k \in 1..Len(items) : items[k].kind = "end" => OutputsBefore(items, k - 1, W),
         \A k \in st : items[k].kind = "output" => Line(items[k]) \notin owed
  PROVE  EndsLast(q, owed)
  <1>0. Len(q) \in Nat
    BY LenProperties
  <1>. SUFFICES ASSUME NEW i \in 1..Len(q), q[i].t = "item", q[i].item.kind = "end", NEW w \in owed
                PROVE  \E j \in 1..(i - 1) : q[j].t = "item" /\ q[j].item.kind = "output" /\ Line(q[j].item) = w
    BY DEF EndsLast
  <1>1. /\ q[i].seq \in 1..Len(items) /\ q[i].item = items[q[i].seq]
        /\ \A k \in 1..(q[i].seq - 1) : k \in st \/ Before(q, i, k)
    BY DEF Ordered
  <1>2. PICK k \in 1..(q[i].seq - 1) : items[k].kind = "output" /\ Line(items[k]) = w
    BY <1>1 DEF OutputsBefore
  <1>3. k \notin st
    BY <1>2
  <1>4. PICK j \in 1..(i - 1) : q[j].t = "item" /\ q[j].seq = k
    BY <1>1, <1>3 DEF Before
  <1>5. j \in 1..Len(q)
    BY <1>0
  <1>6. q[j].item = items[k]
    BY <1>4, <1>5 DEF Ordered
  <1>. QED
    BY <1>2, <1>4, <1>6

\* A queue without ends has none before the output.
LEMMA EndsNone ==
  ASSUME NEW q, NEW owed, \A m : Has(q, m) /\ m.t = "item" => m.item.kind # "end"
  PROVE  EndsLast(q, owed)
  BY DEF EndsLast, Has

\* A quiet step keeps the ends after the output.
LEMMA QuietWhole ==
  ASSUME WholeInv, TypeInv', Quiet, hist'.runs <= 1
  PROVE  WholeOK'
  <1>0. StructInv /\ WholeOK /\ hist'.runs = hist.runs /\ hist'.written = hist.written /\ rte' = rte
    BY DEF WholeInv, DeliveryInv, Quiet
  <1>1. /\ lines \subseteq lines' /\ (row'.status = "success" => row.status = "success")
        /\ Kept(sess, sess', Harmless)
    BY DEF Quiet
  <1>2. Owed' \subseteq Owed
    BY <1>0, <1>1, OwedShrinks
  <1>3. \A s \in Conn : /\ Len(sess[s].up) \in Nat /\ Len(sess'[s].up) \in Nat /\ Prefix(sess'[s].up, sess[s].up)
                        /\ sess'[s].failed = sess[s].failed
    BY <1>0, <1>1, LenProperties DEF Kept, StructInv, TypeInv, TypeOK, Session
  <1>4. \A s \in Conn : \A m : Ups(s, m)' => Ups(s, m)
    BY <1>3, HasPrefix DEF Ups
  <1>. DEFINE owed == Owed
              owed2 == Owed'
  <1>5. owed2 \subseteq owed /\ \A s \in Conn : sess[s].failed = FALSE => EndsLast(sess[s].up, owed)
    BY <1>0, <1>2 DEF WholeOK
  <1>. HIDE DEF owed, owed2
  <1>6. \A s \in Conn : sess'[s].failed = FALSE => EndsLast(sess'[s].up, owed2)
    BY <1>3, <1>5, EndsPrefix
  <1>7. row'.status = "success" => Owed' = {}
    BY <1>0, <1>1, <1>2 DEF WholeOK
  <1>8. Gone' <=> Gone
    BY <1>0 DEF Gone
  <1>9. rte'.running = TRUE =>
          /\ row'.status # "success" /\ \A i : Has(rte'.items, i) => i.kind # "end"
          /\ \A s \in Conn : \A m : Ups(s, m)' /\ m.t = "item" => m.item.kind # "end"
    BY <1>0, <1>1, <1>4, Zenon DEF WholeOK
  <1>10. /\ ~Gone' => OutputsBefore(rte'.items, Len(rte'.items), hist'.written)
         /\ \A k \in 1..Len(rte'.items) :
              rte'.items[k].kind = "end" => OutputsBefore(rte'.items, k - 1, hist'.written)
    BY <1>0, <1>8 DEF WholeOK
  <1>. QED
    BY <1>6, <1>7, <1>9, <1>10, Zenon DEF WholeOK, owed2

\* A new socket has no ends on it.
LEMMA DialsWhole ==
  ASSUME WholeInv, TypeInv', Dials, hist'.runs <= 1
  PROVE  WholeOK'
  <1>0. WholeOK /\ UNCHANGED <<row, lines, hist, rte>>
    BY DEF WholeInv, Dials
  <1>1. \A m : ~Has(<<>>, m)
    BY EmptySeq DEF Has
  <1>2. \A t \in Conn : \A m : Ups(t, m)' => Ups(t, m)
    BY <1>1 DEF Dials, Ups
  <1>3. Owed' = Owed /\ (Gone' <=> Gone)
    BY <1>0 DEF Owed, AppLineAt, Gone
  <1>4. EndsLast(<<>>, Owed)
    BY <1>1, EndsNone
  <1>5. \A s \in Conn : sess'[s].failed = FALSE => EndsLast(sess'[s].up, Owed')
    BY <1>0, <1>3, <1>4 DEF WholeOK, Dials
  <1>6. rte'.running = TRUE =>
          /\ row'.status # "success" /\ \A i : Has(rte'.items, i) => i.kind # "end"
          /\ \A s \in Conn : \A m : Ups(s, m)' /\ m.t = "item" => m.item.kind # "end"
    BY <1>0, <1>2, Zenon DEF WholeOK
  <1>7. /\ ~Gone' => OutputsBefore(rte'.items, Len(rte'.items), hist'.written)
        /\ \A k \in 1..Len(rte'.items) :
             rte'.items[k].kind = "end" => OutputsBefore(rte'.items, k - 1, hist'.written)
        /\ row'.status = "success" => Owed' = {}
    BY <1>0, <1>3 DEF WholeOK
  <1>. QED
    BY <1>5, <1>6, <1>7, Zenon DEF WholeOK

\* An end that is read finds all output stored, and the job is a success only then.
LEMMA ReadsWhole ==
  ASSUME WholeInv, TypeInv', NEW s \in Conn, Reads(s), hist'.runs <= 1
  PROVE  WholeOK'
  <1>1. /\ UNCHANGED <<cur, rte, hist>> /\ sess[s].up # <<>>
        /\ \A t \in Conn : /\ sess'[t].up = IF t = s THEN Tail(sess[s].up) ELSE sess[t].up
                           /\ sess'[t].failed = FALSE => sess[t].failed = FALSE
        /\ Stores(s) \/ (UNCHANGED <<row, lines>> /\ (Next1(s).t = "item" => sess'[s].failed = TRUE))
    BY DEF Reads
  <1>0. StructInv /\ WholeOK /\ hist.runs <= 1
    BY <1>1 DEF WholeInv, DeliveryInv
  <1>2. /\ sess \in Sessions /\ sess[s].up \in Seq(UpMessage) /\ Next1(s) \in UpMessage
        /\ row \in Row /\ lines \subseteq [run : Nat, order : Nat] /\ HasLast(lines) /\ RunsOK
    BY <1>0, <1>1, StructTypes, HasTail DEF Sessions, Session, Next1
  <1>m. PICK m : m = Next1(s)
    OBVIOUS
  <1>3. Stores(s) => /\ m.item \in Item /\ m.t = "item" /\ row' = StoreRow(row, m.item)
                     /\ lines' = StoreLines(m.item) /\ sess[s].failed = FALSE
    BY <1>2, <1>m, MessageTyping DEF Stores
  <1>4. Ups(s, m) /\ m = Head(sess[s].up) /\ m = sess[s].up[1] /\ 1 \in 1..Len(sess[s].up)
    BY <1>1, <1>2, <1>m, HasTail, TailQueue DEF Ups, Next1
  <1>5. Stores(s) => ItemStored(m.item)'
    <2>1. Stores(s) /\ m.item.kind = "output" => m.item.run \in 1..hist.runs
      BY <1>2, <1>3, <1>4 DEF RunsOK
    <2>. QED
      BY <1>0, <1>3, <2>1, StoreStores
  <1>6. lines \subseteq lines' /\ (Stores(s) /\ row'.status = "success" => row.status = "success" \/ m.item.kind = "end")
    BY <1>1, <1>2, <1>3, StoreMoves, StoreLinesTyping
  <1>7. Owed' \subseteq Owed
    BY <1>1, <1>6, OwedShrinks
  <1>8. \A t \in Conn : \A x : Ups(t, x)' => Ups(t, x)
    <2>1. \A t \in Conn : \A x : Has(sess'[t].up, x) => Has(sess[t].up, x)
      BY <1>1, <1>2, HasTail
    <2>. QED
      BY <2>1 DEF Ups
  <1>9. rte'.running = TRUE =>
          /\ row'.status # "success" /\ \A i : Has(rte'.items, i) => i.kind # "end"
          /\ \A t \in Conn : \A x : Ups(t, x)' /\ x.t = "item" => x.item.kind # "end"
    <2>. SUFFICES ASSUME rte.running = TRUE
                  PROVE  /\ row'.status # "success" /\ \A i : Has(rte.items, i) => i.kind # "end"
                         /\ \A t \in Conn : \A x : Ups(t, x)' /\ x.t = "item" => x.item.kind # "end"
      BY <1>1
    <2>1. /\ row.status # "success" /\ \A i : Has(rte.items, i) => i.kind # "end"
          /\ \A t \in Conn : \A x : Ups(t, x) /\ x.t = "item" => x.item.kind # "end"
      BY <1>0, Zenon DEF WholeOK
    <2>2. row'.status # "success"
      BY <1>1, <1>3, <1>4, <1>6, <2>1
    <2>. QED
      BY <1>8, <2>1, <2>2, Zenon
  <1>. DEFINE owed == Owed
              owed2 == Owed'
              q == sess[s].up
  <1>10. owed2 \subseteq owed /\ \A t \in Conn : sess[t].failed = FALSE => EndsLast(sess[t].up, owed)
    BY <1>0, <1>7 DEF WholeOK
  <1>11. m.t = "item" /\ m.item.kind = "output" /\ sess'[s].failed = FALSE => Line(m.item) \notin owed2
    <2>1. Stores(s) /\ m.item.kind = "output" => Line(m.item) \notin owed2
      BY <1>5 DEF Owed, ItemStored, Line
    <2>. QED
      BY <1>1, <1>m, <2>1
  <1>12. row'.status = "success" => owed2 = {}
    <2>1. CASE row.status = "success"
      BY <1>0, <1>7, <2>1 DEF WholeOK
    <2>2. CASE Stores(s) /\ m.item.kind = "end"
      <3>1. EndsLast(q, owed)
        BY <1>3, <1>10, <2>2
      <3>2. \A w \in owed : \E j \in 1..(1 - 1) : TRUE
        BY <1>3, <1>4, <2>2, <3>1 DEF EndsLast
      <3>. QED
        BY <1>10, <3>2
    <2>. QED
      BY <1>1, <1>6, <2>1, <2>2
  <1>. HIDE DEF owed, owed2
  <1>13. ASSUME NEW t \in Conn, sess'[t].failed = FALSE
         PROVE  EndsLast(sess'[t].up, owed2)
    <2>0. EndsLast(sess[t].up, owed) /\ sess[t].up \in Seq(UpMessage)
      BY <1>1, <1>2, <1>10, <1>13 DEF Sessions, Session
    <2>1. CASE t # s
      <3>1. sess'[t].up = sess[t].up
        BY <1>1, <2>1
      <3>2. Prefix(sess[t].up, sess[t].up) /\ Len(sess[t].up) \in Nat
        BY <2>0, PrefixSelf, LenProperties
      <3>. QED
        BY <1>10, <2>0, <3>1, <3>2, EndsPrefix
    <2>2. CASE t = s
      <3>1. sess'[t].up = Tail(q)
        BY <1>1, <2>2
      <3>2. EndsLast(q, owed) /\ q \in Seq(UpMessage) /\ q # <<>> /\ m = Head(q)
        BY <1>1, <1>4, <2>0, <2>2
      <3>3. m.t = "item" /\ m.item.kind = "output" => Line(m.item) \notin owed2
        BY <1>11, <1>13, <2>2
      <3>4. EndsLast(Tail(q), owed2)
        BY <1>10, <3>2, <3>3, EndsTail
      <3>. QED
        BY <3>1, <3>4
    <2>. QED
      BY <2>1, <2>2
  <1>14. /\ ~Gone' => OutputsBefore(rte'.items, Len(rte'.items), hist'.written)
         /\ \A k \in 1..Len(rte'.items) :
              rte'.items[k].kind = "end" => OutputsBefore(rte'.items, k - 1, hist'.written)
    <2>1. Gone' <=> Gone
      BY <1>1 DEF Gone
    <2>. QED
      BY <1>0, <1>1, <2>1 DEF WholeOK
  <1>. QED
    BY <1>9, <1>12, <1>13, <1>14, Zenon DEF WholeOK, owed2

-----------------------------------------------------------------------------
(* The steps of the RTE, by what they do to its spool and its sockets      *)

\* What was to be read is there ; a message more is no item, or goes out on the socket it has.
UpsGrow ==
  \A s \in Conn :
    /\ sess'[s].failed = sess[s].failed
    /\ \/ sess'[s].up = sess[s].up
       \/ \E m \in UpMessage : m.t # "item" /\ sess'[s].up = Append(sess[s].up, m)
       \/ s = cur' /\ sess'[s].hub # "closed" /\ rte'.items # <<>>

\* An item more in the spool, and what is sent of it.
Spooling ==
  /\ rte.running = TRUE /\ hist'.runs = hist.runs
  /\ \E it \in Item :
       /\ rte'.items = Append(rte.items, it)
       /\ \/ it.kind = "started" /\ rte'.running = TRUE /\ hist'.written = hist.written
          \/ it.kind = "output" /\ rte'.running = TRUE /\ hist'.written = hist.written \cup {Line(it)}
          \/ it.kind = "end" /\ rte'.running = FALSE /\ hist'.written = hist.written
\* No run begins, and the spool stays, goes, or gets the item that gives the job up.
Keeping ==
  /\ hist'.runs = hist.runs /\ hist'.written = hist.written
  /\ rte'.running = TRUE => rte.running = TRUE /\ rte'.items = rte.items
  /\ \/ rte'.items = <<>> /\ rte'.running = FALSE
     \/ rte'.items = rte.items
     \/ rte.items # <<>> /\ \E it \in Item : it.kind = "abandon" /\ rte'.items = Append(rte.items, it)
\* A run begins.
Starting == hist'.runs = hist.runs + 1 /\ hist'.written = {} /\ rte'.items = rte.items

\* The RTE sends items that follow each other in its spool, on its own socket.
LEMMA SendsUps ==
  ASSUME NEW ss \in Sessions, NEW e \in Entry, cur \in Conn \cup {0}, RteSends(ss, e, <<>>)
  PROVE  \A s \in Conn : /\ sess'[s].failed = ss[s].failed
                         /\ \/ sess'[s].up = ss[s].up
                            \/ s = cur /\ sess'[s].hub # "closed" /\ e.items # <<>>
  <1>1. /\ sess' = IF cur = 0 \/ ss[cur].hub = "closed" THEN ss
                   ELSE [ss EXCEPT ![cur].up = @ \o Pumped(e)]
    BY SendsTyping
  <1>2. \A s \in Conn : sess'[s].failed = ss[s].failed /\ sess'[s].hub = ss[s].hub
    BY SendsAdds
  <1>3. CASE cur = 0 \/ ss[cur].hub = "closed"
    BY <1>1, <1>3
  <1>4. CASE cur \in Conn /\ ss[cur].hub # "closed"
    <2>. DEFINE u == ss[cur].up \o Pumped(e)
    <2>1. sess' = [ss EXCEPT ![cur].up = u]
      BY <1>1, <1>4 DEF Conn
    <2>. HIDE DEF u
    <2>2. \A s \in Conn : sess'[s].up = IF s = cur THEN u ELSE ss[s].up
      BY <1>4, <2>1 DEF Sessions, Session
    <2>3. e.items # <<>> \/ u = ss[cur].up
      <3>1. Pumps(e) => e.items # <<>>
        <4>1. PumpTo(e) \in Nat /\ PumpTo(e) <= Len(e.items) /\ e.next \in Nat \ {0}
          BY PumpTyping DEF Entry
        <4>2. Len(<<>>) = 0
          BY EmptySeq
        <4>. QED
          BY <4>1, <4>2 DEF Pumps
      <3>2. ~Pumps(e) => Pumped(e) = <<>>
        BY DEF Pumped
      <3>3. ss[cur].up \o <<>> = ss[cur].up
        BY <1>4, ConcatEmptySeq DEF Sessions, Session
      <3>. QED
        BY <3>1, <3>2, <3>3 DEF u
    <2>. QED
      BY <1>2, <1>4, <2>2, <2>3
  <1>. QED
    BY <1>3, <1>4

\* A step of the RTE spools an item of its run, starts a run, or does neither.
LEMMA RteKinds ==
  ASSUME StructInv, RteStep
  PROVE  UpsGrow /\ (Spooling \/ Keeping \/ Starting)
  <1>0. /\ TypeInv /\ sess \in Sessions /\ rte \in Entry /\ cur \in Conn \cup {0}
        /\ hist.runs \in Nat /\ rte.items \in Seq(Item) /\ rte.running \in BOOLEAN /\ rte.acked \in Nat
        /\ rte.acked <= Len(rte.items) /\ rte.next <= Len(rte.items) + 1
        /\ hist \in [runs : Nat, written : SUBSET [run : Nat, order : Nat], soon : BOOLEAN]
    BY StructTypes DEF NumbersOK
  <1>1. CASE Started \/ Write \/ RunEnds \/ StartFails
    <2>1. PICK e, it : Spools(e, it)
      BY <1>0, <1>1, SpoolSteps
    <2>2. /\ e \in Entry /\ it \in Item /\ RteSends(sess, e, <<>>) /\ e.items = Append(rte.items, it) /\ cur' = cur
          /\ rte.running = TRUE /\ hist'.runs = hist.runs
          /\ \/ it.kind = "started" /\ e.running = TRUE /\ hist'.written = hist.written
             \/ it.kind = "output" /\ e.running = TRUE /\ hist'.written = hist.written \cup {Line(it)}
             \/ it.kind = "end" /\ e.running = FALSE /\ hist'.written = hist.written
      BY <2>1 DEF Spools
    <2>3. rte'.items = e.items /\ rte'.running = e.running
      BY <1>0, <2>2, SendsAdds
    <2>4. UpsGrow
      BY <1>0, <2>2, <2>3, SendsUps DEF UpsGrow
    <2>5. Spooling
      BY <2>2, <2>3 DEF Spooling
    <2>. QED
      BY <2>4, <2>5
  <1>2. CASE OnWelcome
    <2>. DEFINE w == [rte EXCEPT !.welcomed = TRUE]
                next == rte.acked + 1
                e == Rewound(w)
                rd == Read(cur)
    <2>1. /\ w \in Entry /\ w.acked = rte.acked
      BY <1>0 DEF Entry
    <2>2. e = [rte EXCEPT !.welcomed = TRUE, !.next = next] /\ next \in Nat \ {0}
      BY <1>0, <2>1 DEF Rewound
    <2>3. cur \in Conn /\ sess[cur].down # <<>> /\ RteSends(rd, e, <<>>) /\ UNCHANGED <<cur, hist>>
      BY <1>0, <1>2 DEF OnWelcome, Told, RteReads
    <2>4. rd \in Sessions /\ \A t \in Conn : rd[t].up = sess[t].up /\ rd[t].failed = sess[t].failed
      BY <1>0, <2>3, ReadFields
    <2>. HIDE DEF e, next, rd
    <2>5. e \in Entry /\ e.items = rte.items /\ e.running = rte.running
      BY <1>0, <2>2 DEF Entry
    <2>6. rte'.items = e.items /\ rte'.running = e.running
      BY <1>0, <2>3, <2>4, <2>5, SendsAdds
    <2>7. UpsGrow
      BY <1>0, <2>3, <2>4, <2>5, <2>6, SendsUps DEF UpsGrow
    <2>. QED
      BY <2>3, <2>5, <2>6, <2>7 DEF Keeping
  <1>3. CASE OnAck
    <2>. DEFINE m == Head(sess[cur].down)
                e == AckedTo(rte, m.seq)
                rd == Read(cur)
    <2>1. cur \in Conn /\ cur # 0 /\ sess[cur].down # <<>> /\ m.t = "ack" /\ UNCHANGED <<cur, hist>>
      BY <1>0, <1>3 DEF OnAck, Told, RteReads
    <2>2. m.seq \in Nat
      BY <1>0, <2>1, ReadTyping, MessageTyping
    <2>3. /\ e \in Entry /\ e.items = rte.items /\ e.running = rte.running
      BY <1>0, <2>2, AckedFields
    <2>4. rd \in Sessions /\ \A t \in Conn : rd[t].up = sess[t].up /\ rd[t].failed = sess[t].failed
      BY <1>0, <2>1, ReadFields
    <2>5. \/ rte' = rte /\ sess' = rd
          \/ rte' = Removed(e) /\ sess' = rd
          \/ RteSends(rd, e, <<>>)
      BY <1>3 DEF OnAck
    <2>. HIDE DEF m, e, rd
    <2>6. CASE RteSends(rd, e, <<>>)
      <3>1. rte'.items = e.items /\ rte'.running = e.running
        BY <1>0, <2>3, <2>4, <2>6, SendsAdds
      <3>2. UpsGrow
        BY <1>0, <2>1, <2>3, <2>4, <2>6, <3>1, SendsUps DEF UpsGrow
      <3>. QED
        BY <2>1, <2>3, <3>1, <3>2 DEF Keeping
    <2>7. CASE sess' = rd /\ (rte' = rte \/ rte' = Removed(e))
      <3>1. Removed(e).items = <<>> /\ Removed(e).running = FALSE
        BY DEF Removed, NoEntry
      <3>2. UpsGrow
        BY <2>4, <2>7 DEF UpsGrow
      <3>. QED
        BY <2>1, <2>7, <3>1, <3>2 DEF Keeping
    <2>. QED
      BY <2>5, <2>6, <2>7
  <1>4. CASE OnRun
    <2>1. cur \in Conn /\ cur # 0 /\ sess[cur].down # <<>> /\ UNCHANGED cur
      BY <1>0, <1>4 DEF OnRun, Told, RteReads
    <2>2. PICK t \in {"claimed", "busy", "unfit"} :
            /\ \/ rte' = rte /\ hist' = hist
               \/ /\ rte' = Taken(rte, Head(sess[cur].down).last)
                  /\ hist' = [hist EXCEPT !.runs = @ + 1, !.written = {}]
            /\ sess' = [Read(cur) EXCEPT ![cur].up =
                          IF sess[cur].hub = "closed" THEN @ ELSE Append(@, [t |-> t])]
      BY <1>4 DEF OnRun
    <2>. DEFINE a == [t |-> t]
                rd == Read(cur)
                u == IF sess[cur].hub = "closed" THEN rd[cur].up ELSE Append(rd[cur].up, a)
    <2>3. rd \in Sessions /\ \A s \in Conn : rd[s].up = sess[s].up /\ rd[s].failed = sess[s].failed
      BY <1>0, <2>1, ReadFields
    <2>4. a \in UpMessage /\ a.t # "item"
      BY MessageTyping
    <2>5. sess' = [rd EXCEPT ![cur].up = u] /\ (u = sess[cur].up \/ u = Append(sess[cur].up, a))
      BY <2>1, <2>2, <2>3
    <2>. HIDE DEF a, rd, u
    <2>6. \A s \in Conn : sess'[s].up = (IF s = cur THEN u ELSE rd[s].up) /\ sess'[s].failed = rd[s].failed
      BY <2>1, <2>3, <2>5 DEF Sessions, Session
    <2>7. UpsGrow
      BY <2>3, <2>4, <2>5, <2>6 DEF UpsGrow
    <2>8. CASE rte' = rte /\ hist' = hist
      BY <2>7, <2>8 DEF Keeping
    <2>9. CASE rte' = Taken(rte, Head(sess[cur].down).last) /\ hist' = [hist EXCEPT !.runs = @ + 1, !.written = {}]
      <3>. DEFINE runs == hist.runs + 1
      <3>1. hist' = [hist EXCEPT !.runs = runs, !.written = {}]
        BY <2>9
      <3>. HIDE DEF runs
      <3>2. hist'.runs = runs /\ hist'.written = {}
        BY <1>0, <3>1
      <3>3. rte'.items = rte.items
        BY <1>0, <2>9 DEF Taken, Entry
      <3>. QED
        BY <2>7, <3>2, <3>3 DEF Starting, runs
    <2>. QED
      BY <2>2, <2>8, <2>9
  <1>5. CASE OnCancel \/ ExpireCancel
    <2>1. /\ UNCHANGED <<cur, hist>>
          /\ sess' = sess \/ (cur # 0 /\ sess[cur].down # <<>> /\ sess' = Read(cur))
      BY <1>5 DEF OnCancel, ExpireCancel, RteReads, Told
    <2>2. \/ rte' = rte \/ rte' = [rte EXCEPT !.early = TRUE] \/ rte' = [rte EXCEPT !.abort = TRUE]
          \/ rte' = [rte EXCEPT !.early = FALSE]
      BY <1>5 DEF OnCancel, ExpireCancel
    <2>3. rte'.items = rte.items /\ rte'.running = rte.running
      BY <1>0, <2>2 DEF Entry
    <2>4. \A t \in Conn : sess'[t].up = sess[t].up /\ sess'[t].failed = sess[t].failed
      BY <1>0, <2>1, ReadFields
    <2>. QED
      BY <2>1, <2>3, <2>4 DEF UpsGrow, Keeping
  <1>6. CASE RteRestarts \/ RteLosesSocket
    <2>1. UNCHANGED hist /\ (sess' = sess \/ (cur # 0 /\ sess' = [sess EXCEPT ![cur].down = <<>>]))
      BY <1>6 DEF RteRestarts, RteLosesSocket
    <2>2. rte' \in {[rte EXCEPT !.welcomed = FALSE], Reloaded(rte), NoEntry}
      BY <1>6 DEF RteRestarts, RteLosesSocket
    <2>3. NoEntry.items = <<>> /\ NoEntry.running = FALSE
      BY DEF NoEntry
    <2>4. \A t \in Conn : sess'[t].up = sess[t].up /\ sess'[t].failed = sess[t].failed
      <3>. DEFINE none == <<>>
      <3>1. CASE sess' = sess
        BY <3>1
      <3>2. CASE cur # 0 /\ sess' = [sess EXCEPT ![cur].down = none]
        <4>. HIDE DEF none
        <4>. QED
          BY <1>0, <3>2 DEF Sessions, Session
      <3>. QED
        BY <2>1, <3>1, <3>2
    <2>5. CASE rte' = [rte EXCEPT !.welcomed = FALSE]
      <3>1. rte'.items = rte.items /\ rte'.running = rte.running
        BY <1>0, <2>5 DEF Entry
      <3>. QED
        BY <2>1, <2>4, <3>1 DEF UpsGrow, Keeping
    <2>6. CASE rte' = NoEntry
      BY <2>1, <2>3, <2>4, <2>6 DEF UpsGrow, Keeping
    <2>7. CASE rte' = Reloaded(rte)
      <3>1. /\ rte'.running = FALSE
            /\ rte.items = <<>> => rte'.items = <<>>
            /\ \/ rte'.items = rte.items
               \/ \E it \in Item : it.kind = "abandon" /\ rte'.items = Append(rte.items, it)
        BY <1>0, <2>7, ReloadedFields
      <3>2. UpsGrow
        BY <2>4 DEF UpsGrow
      <3>3. Keeping
        <4>1. CASE rte.items = <<>>
          BY <2>1, <3>1, <4>1 DEF Keeping
        <4>2. CASE rte.items # <<>>
          BY <2>1, <3>1, <4>2 DEF Keeping
        <4>. QED
          BY <4>1, <4>2
      <3>. QED
        BY <3>2, <3>3
    <2>. QED
      BY <2>2, <2>5, <2>6, <2>7
  <1>. QED
    BY <1>1, <1>2, <1>3, <1>4, <1>5, <1>6 DEF RteStep

\* Output that was in the spool is there in a longer one.
LEMMA OutputsGrow ==
  ASSUME NEW items, NEW items2, NEW n \in Int, NEW n2 \in Int, NEW W, n <= Len(items), n <= n2,
         Len(items) \in Nat, Prefix(items, items2), OutputsBefore(items, n, W)
  PROVE  OutputsBefore(items2, n2, W)
  <1>. SUFFICES ASSUME NEW w \in W
                PROVE  \E k \in 1..n2 : items2[k].kind = "output" /\ Line(items2[k]) = w
    BY DEF OutputsBefore
  <1>1. PICK k \in 1..n : items[k].kind = "output" /\ Line(items[k]) = w
    BY DEF OutputsBefore
  <1>2. k \in 1..n2 /\ items2[k] = items[k]
    BY DEF Prefix
  <1>. QED
    BY <1>1, <1>2

\* The lines of a run come before its end in the spool.
LEMMA SpoolWhole ==
  ASSUME StructInv, WholeOK, Spooling \/ Keeping \/ Starting, TypeInv'
  PROVE  /\ ~Gone' => OutputsBefore(rte'.items, Len(rte'.items), hist'.written)
         /\ \A k \in 1..Len(rte'.items) :
              rte'.items[k].kind = "end" => OutputsBefore(rte'.items, k - 1, hist'.written)
  <1>0. /\ rte.items \in Seq(Item) /\ Len(rte.items) \in Nat /\ Prefix(rte.items, rte.items)
        /\ Len(rte'.items) \in Nat
    BY StructTypes, LenProperties DEF TypeInv, TypeOK, Entry
  <1>. DEFINE items == rte.items
              W == hist.written
  <1>1. /\ ~Gone => OutputsBefore(items, Len(items), W)
        /\ \A k \in 1..Len(items) : items[k].kind = "end" => OutputsBefore(items, k - 1, W)
    BY DEF WholeOK
  <1>2. CASE Starting
    BY <1>2 DEF Starting, OutputsBefore
  <1>3. CASE Spooling
    <2>1. PICK it \in Item :
             /\ rte'.items = Append(items, it)
             /\ \/ it.kind = "started" /\ hist'.written = W
                \/ it.kind = "output" /\ hist'.written = W \cup {Line(it)}
                \/ it.kind = "end" /\ hist'.written = W
      BY <1>3 DEF Spooling
    <2>. DEFINE items2 == Append(items, it)
    <2>2. /\ Len(items2) = Len(items) + 1 /\ Prefix(items, items2) /\ items2[Len(items) + 1] = it
          /\ \A k \in 1..Len(items2) : k \in 1..Len(items) \/ k = Len(items) + 1
          /\ \A k \in 1..Len(items) : items2[k] = items[k]
      BY <1>0, AppendQueue DEF Prefix
    <2>3. rte.running = TRUE
      BY <1>3 DEF Spooling
    <2>4. OutputsBefore(items, Len(items), W)
      BY <1>1, <2>3 DEF Gone
    <2>5. \A k \in 1..Len(items) : items[k].kind # "end"
      BY <2>3 DEF WholeOK, Has
    <2>6. rte'.items = items2
      BY <2>1
    <2>. HIDE DEF items2, items, W
    <2>7. OutputsBefore(items2, Len(items2), W) /\ OutputsBefore(items2, Len(items), W)
      <3>1. Len(items) \in Int /\ Len(items2) \in Int /\ Len(items) <= Len(items2) /\ Len(items) \in Nat
        BY <1>0, <2>2 DEF items
      <3>. QED
        BY <2>2, <2>4, <3>1, OutputsGrow
    <2>8. OutputsBefore(items2, Len(items2), hist'.written)
      <3>1. CASE hist'.written = W
        BY <2>7, <3>1
      <3>2. CASE it.kind = "output" /\ hist'.written = W \cup {Line(it)}
        <4>1. Len(items) + 1 \in 1..Len(items2) /\ items2[Len(items) + 1].kind = "output"
              /\ Line(items2[Len(items) + 1]) = Line(it)
          BY <1>0, <2>2, <3>2 DEF items
        <4>. QED
          BY <2>7, <3>2, <4>1 DEF OutputsBefore
      <3>. QED
        BY <2>1, <3>1, <3>2
    <2>9. ASSUME NEW k \in 1..Len(items2), items2[k].kind = "end"
          PROVE  OutputsBefore(items2, k - 1, hist'.written)
      <3>1. k = Len(items) + 1 /\ it.kind = "end"
        BY <2>2, <2>5, <2>9
      <3>2. k - 1 = Len(items) /\ hist'.written = W
        BY <1>0, <2>1, <3>1 DEF items
      <3>. QED
        BY <2>7, <3>2
    <2>. QED
      BY <2>6, <2>8, <2>9
  <1>4. CASE Keeping
    <2>1. hist'.written = W
      BY <1>4 DEF Keeping
    <2>2. CASE rte'.items = <<>> /\ rte'.running = FALSE
      BY <2>2, EmptySeq DEF Gone
    <2>3. CASE rte'.items = items
      <3>1. ~Gone' => ~Gone
        BY <1>4, <2>3 DEF Gone, Keeping
      <3>. QED
        BY <1>1, <2>1, <2>3, <3>1
    <2>4. ASSUME rte.items # <<>>, NEW it \in Item, it.kind = "abandon", rte'.items = Append(rte.items, it)
          PROVE  /\ ~Gone' => OutputsBefore(rte'.items, Len(rte'.items), hist'.written)
                 /\ \A k \in 1..Len(rte'.items) :
                      rte'.items[k].kind = "end" => OutputsBefore(rte'.items, k - 1, hist'.written)
      <3>. DEFINE items2 == Append(items, it)
      <3>1. /\ Len(items2) = Len(items) + 1 /\ Prefix(items, items2) /\ items2[Len(items) + 1] = it
            /\ \A k \in 1..Len(items2) : k \in 1..Len(items) \/ k = Len(items) + 1
            /\ \A k \in 1..Len(items) : items2[k] = items[k]
        BY <1>0, AppendQueue DEF Prefix
      <3>2. rte'.items = items2 /\ OutputsBefore(items, Len(items), W)
        BY <1>1, <2>4 DEF Gone
      <3>3. Len(items) \in Nat
        BY <1>0
      <3>. HIDE DEF items2, items, W
      <3>4. OutputsBefore(items2, Len(items2), W)
        <4>1. Len(items) \in Int /\ Len(items2) \in Int /\ Len(items) <= Len(items2)
          BY <3>1, <3>3
        <4>. QED
          BY <3>1, <3>2, <3>3, <4>1, OutputsGrow
      <3>5. ASSUME NEW k \in 1..Len(items2), items2[k].kind = "end"
            PROVE  OutputsBefore(items2, k - 1, W)
        <4>1. k \in 1..Len(items) /\ items[k].kind = "end"
          BY <2>4, <3>1, <3>5
        <4>2. OutputsBefore(items, k - 1, W)
          BY <1>1, <4>1
        <4>3. k - 1 \in Int /\ k - 1 <= Len(items) /\ k - 1 <= k - 1
          BY <3>3, <4>1
        <4>. QED
          BY <3>1, <3>3, <4>2, <4>3, OutputsGrow
      <3>. QED
        BY <2>1, <3>2, <3>4, <3>5
    <2>. QED
      BY <1>4, <2>2, <2>3, <2>4 DEF Keeping
  <1>. QED
    BY <1>2, <1>3, <1>4

\* The steps of the RTE keep the ends after the output.
LEMMA RteWhole ==
  ASSUME WholeInv, StructInv', DeliveryOK', RteMoves, RteStep, hist'.runs <= 1
  PROVE  WholeOK'
  <1>0. /\ StructInv /\ TypeInv' /\ hist.runs \in Nat /\ sess \in Sessions /\ rte.items \in Seq(Item)
        /\ rte'.running \in BOOLEAN /\ UNCHANGED <<row, lines>>
    <2>1. StructInv /\ TypeInv'
      BY DEF WholeInv, DeliveryInv, StructInv
    <2>2. rte'.running \in BOOLEAN
      BY <2>1 DEF TypeInv, TypeOK, Entry
    <2>. QED
      BY <2>1, <2>2, StructTypes DEF RteMoves
  <1>1. UpsGrow /\ (Spooling \/ Keeping \/ Starting)
    BY <1>0, RteKinds
  <1>2. WholeOK /\ hist.runs <= 1
    <2>1. hist.runs <= 1
      BY <1>0, <1>1 DEF Spooling, Keeping, Starting
    <2>. QED
      BY <2>1 DEF WholeInv
  <1>3. /\ ~Gone' => OutputsBefore(rte'.items, Len(rte'.items), hist'.written)
        /\ \A k \in 1..Len(rte'.items) :
             rte'.items[k].kind = "end" => OutputsBefore(rte'.items, k - 1, hist'.written)
    BY <1>0, <1>1, <1>2, SpoolWhole
  <1>4. \A t \in Conn : \A m : Ups(t, m)' => Ups(t, m) \/ m.t # "item" \/ Has(rte'.items, m.item)
    BY DEF RteMoves
  <1>5. ASSUME rte'.running = TRUE
        PROVE  /\ row'.status # "success" /\ \A i : Has(rte'.items, i) => i.kind # "end"
               /\ \A s \in Conn : \A m : Ups(s, m)' /\ m.t = "item" => m.item.kind # "end"
    <2>1. /\ row.status # "success"
          /\ \A s \in Conn : \A m : Ups(s, m) /\ m.t = "item" => m.item.kind # "end"
          /\ \A i : Has(rte'.items, i) => i.kind # "end"
      <3>1. CASE Starting
        <4>1. hist.runs = 0
          BY <1>0, <3>1 DEF Starting
        <4>2. /\ rte.items = <<>> /\ row.status # "success" /\ \A s \in Conn : \A m : Ups(s, m) => m.t # "item"
          BY <1>0, <4>1, Zenon DEF BeforeOK, StructInv
        <4>3. rte'.items = <<>> /\ \A i : ~Has(<<>>, i)
          BY <3>1, <4>2, EmptySeq DEF Starting, Has
        <4>. QED
          BY <4>2, <4>3
      <3>2. CASE rte.running = TRUE
        <4>1. /\ row.status # "success" /\ \A i : Has(rte.items, i) => i.kind # "end"
              /\ \A s \in Conn : \A m : Ups(s, m) /\ m.t = "item" => m.item.kind # "end"
          BY <1>2, <3>2, Zenon DEF WholeOK
        <4>2. CASE rte'.items = rte.items
          BY <4>1, <4>2
        <4>3. ASSUME NEW it \in Item, it.kind # "end", rte'.items = Append(rte.items, it)
              PROVE  \A i : Has(rte'.items, i) => i.kind # "end"
          <5>1. \A i : Has(rte'.items, i) <=> Has(rte.items, i) \/ i = it
            BY <1>0, <4>3, HasAppend
          <5>. QED
            BY <4>1, <4>3, <5>1
        <4>4. rte'.items = rte.items \/ \E it \in Item : it.kind # "end" /\ rte'.items = Append(rte.items, it)
          BY <1>1, <1>5 DEF Spooling, Keeping, Starting
        <4>. QED
          BY <4>1, <4>2, <4>3, <4>4
      <3>. QED
        BY <1>1, <1>5, <3>1, <3>2 DEF Spooling, Keeping
    <2>. QED
      BY <1>0, <1>4, <2>1, Zenon
  <1>6. CASE hist'.written = {}
    <2>1. Owed' = {}
      BY <1>6 DEF Owed
    <2>2. \A s \in Conn : sess'[s].failed = FALSE => EndsLast(sess'[s].up, Owed')
      BY <2>1 DEF EndsLast
    <2>. QED
      BY <1>3, <1>5, <2>1, <2>2, Zenon DEF WholeOK
  <1>7. CASE rte'.running = TRUE
    <2>1. \A s \in Conn : \A m : Has(sess'[s].up, m) /\ m.t = "item" => m.item.kind # "end"
      BY <1>5, <1>7, Zenon DEF Ups
    <2>2. \A s \in Conn : EndsLast(sess'[s].up, Owed')
      BY <2>1, EndsNone
    <2>. QED
      BY <1>3, <1>5, <1>7, <2>2, Zenon DEF WholeOK
  <1>8. CASE hist'.written = hist.written /\ rte'.running = FALSE
    <2>1. Owed' = Owed
      BY <1>0, <1>8 DEF Owed, AppLineAt
    <2>. DEFINE owed == Owed
    <2>2. row'.status = "success" => Owed' = {}
      BY <1>0, <1>2, <2>1 DEF WholeOK
    <2>3. ASSUME NEW s \in Conn, sess'[s].failed = FALSE
          PROVE  EndsLast(sess'[s].up, owed)
      <3>1. sess[s].failed = FALSE /\ EndsLast(sess[s].up, owed) /\ sess[s].up \in Seq(UpMessage)
        BY <1>0, <1>1, <1>2, <2>3 DEF UpsGrow, WholeOK, Sessions, Session
      <3>2. CASE sess'[s].up = sess[s].up
        BY <3>1, <3>2
      <3>3. ASSUME NEW m \in UpMessage, m.t # "item", sess'[s].up = Append(sess[s].up, m)
            PROVE  EndsLast(sess'[s].up, owed)
        <4>. HIDE DEF owed
        <4>. QED
          BY <3>1, <3>3, EndsAppend
      <3>4. CASE s = cur' /\ sess'[s].hub # "closed" /\ rte'.items # <<>>
        <4>1. cur' # 0 /\ Usable(sess'[cur'])
          BY <2>3, <3>4 DEF Usable, Conn
        <4>2. Delivered(sess', rte', cur', StoredSet')
          BY <3>4 DEF DeliveryOK, Gone
        <4>3. Ordered(sess'[cur'].up, rte'.items, StoredSet')
          BY <4>1, <4>2 DEF Delivered
        <4>4. \A k \in StoredSet' : rte'.items[k].kind = "output" => Line(rte'.items[k]) \notin Owed'
          BY DEF StoredSet, ItemStored, Owed, Line
        <4>. DEFINE q == sess'[s].up
                    items == rte'.items
                    st == StoredSet'
                    W == hist'.written
        <4>5. /\ q \in Seq(UpMessage) /\ Len(items) \in Nat /\ owed \subseteq W
          <5>1. sess' \in [Conn -> Session] /\ rte' \in Entry
            BY <1>0 DEF TypeInv, TypeOK
          <5>. QED
            BY <5>1, <1>8, LenProperties DEF Session, Entry, Owed
        <4>6. /\ Ordered(q, items, st)
              /\ \A k \in 1..Len(items) : items[k].kind = "end" => OutputsBefore(items, k - 1, W)
              /\ \A k \in st : items[k].kind = "output" => Line(items[k]) \notin owed
          BY <1>3, <2>1, <3>4, <4>3, <4>4
        <4>. HIDE DEF q, items, st, W, owed
        <4>7. EndsLast(q, owed)
          BY <4>5, <4>6, EndsOrdered
        <4>. QED
          BY <4>7 DEF q
      <3>. QED
        BY <1>1, <3>2, <3>3, <3>4 DEF UpsGrow
    <2>. QED
      BY <1>3, <1>8, <2>1, <2>2, <2>3, Zenon DEF WholeOK
  <1>. QED
    BY <1>0, <1>1, <1>6, <1>7, <1>8 DEF Spooling, Keeping, Starting

\* Nothing was written at the start.
LEMMA WholeInit == Init => WholeInv
  <1>. SUFFICES ASSUME Init PROVE WholeInv
    OBVIOUS
  <1>1. /\ row.status = "absent" /\ hist = [runs |-> 0, written |-> {}, soon |-> FALSE]
        /\ Gone /\ rte.items = <<>> /\ \A s \in Conn : sess[s].up = <<>>
    BY DEF Init, AbsentRow, UnusedSession, NoEntry, Gone
  <1>2. Owed = {}
    BY <1>1 DEF Owed
  <1>3. rte.running # TRUE
    BY <1>1 DEF Gone
  <1>4. \A s \in Conn : EndsLast(sess[s].up, Owed)
    BY <1>2 DEF EndsLast
  <1>5. WholeOK
    <2>1. \A k \in 1..Len(rte.items) : FALSE
      BY <1>1, EmptySeq
    <2>. QED
      BY <1>1, <1>2, <1>3, <1>4, <2>1, Zenon DEF WholeOK
  <1>. QED
    BY <1>5, DeliveryInit DEF WholeInv

\* No step brings an end before the output, nor a success without it.
LEMMA WholeNext == WholeInv /\ [Next]_vars => WholeInv'
  <1>. SUFFICES ASSUME WholeInv, [Next]_vars PROVE WholeInv'
    OBVIOUS
  <1>1. DeliveryInv /\ DeliveryInv' /\ StructInv /\ StructInv' /\ TypeInv /\ TypeInv' /\ NumbersOK /\ DeliveryOK'
    BY DeliveryNext DEF WholeInv, DeliveryInv, StructInv
  <1>2. hist'.runs <= 1 => WholeOK'
    BY <1>1, StepKinds, QuietWhole, ReadsWhole, DialsWhole, RteStepMoves, RteWhole
  <1>. QED
    BY <1>1, <1>2 DEF WholeInv

\* OutputWhole of RteDelivery.
THEOREM OutputWholeAlways == Spec => []OutputWhole
  <1>1. WholeInv => OutputWhole
    BY DEF WholeInv, WholeOK, Owed, OutputWhole
  <1>. QED
    BY WholeInit, WholeNext, <1>1, PTL DEF Spec
-----------------------------------------------------------------------------
(* A cancel that was noted as sent works                                   *)

\* A cancel is on its way.
Cancelling(q) == \E k \in 1..Len(q) : q[k].t = "cancel"

\* After each hand-over on its way comes a cancel.
RunsCancelled(q) == \A i \in 1..Len(q) : q[i].t = "run" => \E j \in (i + 1)..Len(q) : q[j].t = "cancel"

\* A node hands over on its own sockets.
NodesOK ==
  \A n \in AppNode :
    /\ hand[n].s # 0 => sess[hand[n].s].hub # "none" /\ sess[hand[n].s].node = n
    /\ reg[n] # 0 => sess[reg[n]].hub # "none" /\ sess[reg[n]].node = n

\* A node noted no cancel.
Unmarked(n) == \A s \in Conn : sess[s].node = n => sess[s].cancelled # TRUE

\* No cancel before an abort, no abort before the launch ; but for one that came before its kick, a
\* node that noted a cancel is not handing the job over, and never will : the flag is set as long as
\* the job runs.
MarksOK ==
  /\ "abort" \notin events => row.abort_requested # TRUE /\ \A s \in Conn : sess[s].cancelled # TRUE
  /\ row.status = "absent" => "abort" \notin events
  /\ follower = "launches" /\ "abort" \in events => hist.soon = TRUE
  /\ rte.running = TRUE => rte.known = TRUE
  /\ hist.soon # TRUE => \A s \in Conn : sess[s].cancelled = TRUE =>
       /\ row.status = "running" => row.abort_requested = TRUE
       /\ \A n \in AppNode : sess[s].node = n => hand[n].pc = "idle"

\* A cancel noted on the RTE's socket has reached the run, or is on its way, and a hand-over on its
\* way meets it too.
CancelOK ==
  (hist.soon # TRUE /\ cur # 0 /\ sess[cur].cancelled = TRUE) =>
    /\ RunsCancelled(sess[cur].down)
    /\ rte.running = TRUE => rte.abort = TRUE \/ Cancelling(sess[cur].down)

\* What the marks say, on the sockets, in the row and on the RTE.
CancelInv == TypeInv /\ NodesOK /\ MarksOK /\ CancelOK

\* A cancel on its way stays, and one that is sent last comes after each hand-over.
LEMMA DownAppend ==
  ASSUME NEW q \in Seq(DownMessage), NEW m \in DownMessage
  PROVE  /\ Cancelling(q) => Cancelling(Append(q, m))
         /\ m.t = "cancel" => Cancelling(Append(q, m)) /\ RunsCancelled(Append(q, m))
         /\ m.t # "run" /\ RunsCancelled(q) => RunsCancelled(Append(q, m))
  <1>. DEFINE p == Append(q, m)
  <1>0. /\ Len(q) \in Nat /\ Len(p) = Len(q) + 1 /\ p[Len(q) + 1] = m
        /\ \A i \in 1..Len(q) : i \in 1..Len(p) /\ p[i] = q[i]
        /\ \A i \in 1..Len(p) : i \in 1..Len(q) \/ i = Len(q) + 1
    BY AppendQueue
  <1>. HIDE DEF p
  <1>1. Cancelling(q) => Cancelling(p)
    BY <1>0 DEF Cancelling
  <1>2. ASSUME m.t = "cancel" PROVE Cancelling(p) /\ RunsCancelled(p)
    <2>1. Len(q) + 1 \in 1..Len(p) /\ p[Len(q) + 1].t = "cancel"
      BY <1>0, <1>2
    <2>2. ASSUME NEW i \in 1..Len(p), p[i].t = "run" PROVE \E j \in (i + 1)..Len(p) : p[j].t = "cancel"
      <3>1. i # Len(q) + 1
        BY <2>1, <2>2
      <3>2. Len(q) + 1 \in (i + 1)..Len(p)
        BY <1>0, <3>1
      <3>. QED
        BY <2>1, <3>2
    <2>. QED
      BY <2>1, <2>2 DEF Cancelling, RunsCancelled
  <1>3. ASSUME m.t # "run", RunsCancelled(q) PROVE RunsCancelled(p)
    <2>. SUFFICES ASSUME NEW i \in 1..Len(p), p[i].t = "run" PROVE \E j \in (i + 1)..Len(p) : p[j].t = "cancel"
      BY DEF RunsCancelled
    <2>1. i \in 1..Len(q) /\ q[i].t = "run"
      BY <1>0, <1>3
    <2>2. PICK j \in (i + 1)..Len(q) : q[j].t = "cancel"
      BY <1>3, <2>1 DEF RunsCancelled
    <2>3. j \in 1..Len(q) /\ j \in (i + 1)..Len(p)
      BY <1>0, <2>1
    <2>. QED
      BY <1>0, <2>2, <2>3
  <1>. QED
    BY <1>1, <1>2, <1>3 DEF p

\* Reading a hand-over that is cancelled leaves its cancel on its way.
LEMMA DownTail ==
  ASSUME NEW q \in Seq(DownMessage), q # <<>>
  PROVE  /\ RunsCancelled(q) => RunsCancelled(Tail(q))
         /\ RunsCancelled(q) /\ Head(q).t = "run" => Cancelling(Tail(q))
         /\ Cancelling(q) /\ Head(q).t # "cancel" => Cancelling(Tail(q))
  <1>. DEFINE p == Tail(q)
  <1>0. /\ Len(p) \in Nat /\ Len(q) = Len(p) + 1 /\ Head(q) = q[1]
        /\ \A i \in 1..Len(p) : i + 1 \in 1..Len(q) /\ p[i] = q[i + 1]
        /\ \A i \in 1..Len(q) : i # 1 => i - 1 \in 1..Len(p) /\ p[i - 1] = q[i]
    BY TailQueue
  <1>. HIDE DEF p
  <1>1. ASSUME NEW i \in 1..Len(q), RunsCancelled(q), q[i].t = "run"
        PROVE  \E j \in i..Len(p) : p[j].t = "cancel"
    <2>1. PICK j \in (i + 1)..Len(q) : q[j].t = "cancel"
      BY <1>1 DEF RunsCancelled
    <2>2. j \in 1..Len(q) /\ j # 1 /\ j - 1 \in i..Len(p)
      BY <1>0, <2>1
    <2>3. p[j - 1] = q[j]
      BY <1>0, <2>2
    <2>. QED
      BY <2>1, <2>2, <2>3
  <1>2. RunsCancelled(q) => RunsCancelled(p)
    <2>. SUFFICES ASSUME RunsCancelled(q), NEW i \in 1..Len(p), p[i].t = "run"
                  PROVE  \E j \in (i + 1)..Len(p) : p[j].t = "cancel"
      BY DEF RunsCancelled
    <2>. QED
      BY <1>0, <1>1
  <1>3. RunsCancelled(q) /\ Head(q).t = "run" => Cancelling(p)
    <2>1. 1 \in 1..Len(q)
      BY <1>0
    <2>. QED
      BY <1>0, <1>1, <2>1 DEF Cancelling
  <1>4. Cancelling(q) /\ Head(q).t # "cancel" => Cancelling(p)
    <2>. SUFFICES ASSUME NEW k \in 1..Len(q), q[k].t = "cancel", q[1].t # "cancel"
                  PROVE  \E j \in 1..Len(p) : p[j].t = "cancel"
      BY <1>0 DEF Cancelling
    <2>1. k # 1
      OBVIOUS
    <2>. QED
      BY <1>0, <2>1
  <1>. QED
    BY <1>2, <1>3, <1>4 DEF p

-----------------------------------------------------------------------------
(* What each step does to the sockets, as far as cancels go                *)

\* Two sessions that are the same as far as cancels go.
Same(x, y) == y.node = x.node /\ y.cancelled = x.cancelled /\ y.down = x.down

\* A session stays its node's, gets no mark, and no hand-over.
Tame(x, y) ==
  /\ x.hub # "none" => y.hub # "none" /\ y.node = x.node
  /\ y.cancelled = TRUE => x.cancelled = TRUE /\ y.node = x.node
  /\ y.down = x.down \/ \E m \in DownMessage : m.t # "run" /\ y.down = Append(x.down, m)

\* A message sent is on its way to the RTE, on its socket, and nothing else changes.
LEMMA SentFields ==
  ASSUME NEW ss \in Sessions, NEW s \in Conn \cup {0}, NEW m \in DownMessage
  PROVE  /\ \A t \in Conn : /\ Sent(ss, s, m)[t].node = ss[t].node /\ Sent(ss, s, m)[t].hub = ss[t].hub
                            /\ Sent(ss, s, m)[t].cancelled = ss[t].cancelled
                            /\ \/ Sent(ss, s, m)[t].down = ss[t].down
                               \/ t = s /\ Sent(ss, s, m)[t].down = Append(ss[t].down, m)
         /\ s \in Conn /\ s = cur /\ ss[s].hub \in {"hello", "welcomed", "ready"} =>
              Sent(ss, s, m)[s].down = Append(ss[s].down, m)
  <1>. DEFINE d == Append(ss[s].down, m)
              tt == [ss EXCEPT ![s].down = d]
  <1>1. \A t \in Conn : /\ tt[t].node = ss[t].node /\ tt[t].hub = ss[t].hub /\ tt[t].cancelled = ss[t].cancelled
                        /\ tt[t].down = IF t = s THEN d ELSE ss[t].down
    <2>. HIDE DEF d
    <2>. QED
      BY DEF Sessions, Session
  <1>2. Sent(ss, s, m) = IF s # cur \/ ss[s].hub \in {"none", "closing", "closed"} THEN ss ELSE tt
    BY DEF Sent
  <1>. HIDE DEF tt
  <1>. QED
    BY <1>1, <1>2

\* Noting a cancel changes nothing else.
LEMMA MarkedFields ==
  ASSUME NEW ss \in Sessions, NEW s
  PROVE  \A t \in Conn : /\ Marked(ss, s)[t].node = ss[t].node /\ Marked(ss, s)[t].hub = ss[t].hub
                         /\ Marked(ss, s)[t].down = ss[t].down
                         /\ t # s => Marked(ss, s)[t].cancelled = ss[t].cancelled
  BY DEF Marked, Sessions, Session

\* What the app reads is all that changes.
LEMMA ReceivedFields ==
  ASSUME sess \in Sessions, NEW s \in Conn
  PROVE  \A t \in Conn : Same(sess[t], Received(s)[t]) /\ Received(s)[t].hub = sess[t].hub
  <1>. DEFINE u == Tail(sess[s].up)
  <1>1. Received(s) = [sess EXCEPT ![s].up = u]
    BY DEF Received
  <1>. HIDE DEF u
  <1>. QED
    BY <1>1 DEF Sessions, Session, Same

\* A session left alone is tame.
LEMMA TameSelf == \A x : Tame(x, x)
  BY DEF Tame

\* What the app does to its sockets is tame, but for a hand-over and a cancel noted.
LEMMA SocketTame ==
  ASSUME NEW ss \in Sessions, NEW s \in Conn \cup {0}
  PROVE  /\ \A m \in DownMessage : m.t # "run" => \A t \in Conn : Tame(ss[t], Sent(ss, s, m)[t])
         /\ \A t \in Conn : Tame(ss[t], Closing(ss, s)[t])
         /\ \A n : \A t \in Conn : Tame(ss[t], Forgotten(ss, n)[t])
  <1>1. ASSUME NEW m \in DownMessage, m.t # "run", NEW t \in Conn PROVE Tame(ss[t], Sent(ss, s, m)[t])
    BY <1>1, SentFields DEF Tame
  <1>2. \A t \in Conn : Tame(ss[t], Closing(ss, s)[t])
    BY ClosingFields DEF Tame
  <1>3. ASSUME NEW n, NEW t \in Conn PROVE Tame(ss[t], Forgotten(ss, n)[t])
    BY ForgottenFields DEF Tame
  <1>. QED
    BY <1>1, <1>2, <1>3

\* A cancel that is noted with the flag set and the node's hand free.
Noted(s) ==
  /\ "abort" \in events
  /\ hist.soon # TRUE => /\ row.status = "running" => row.abort_requested = TRUE
                         /\ \A n \in AppNode : sess[s].node = n => hand[n].pc = "idle"

\* What nearly every step does to the sockets, the hands, the row and the abort.
Steady ==
  /\ \A t \in Conn :
       /\ sess[t].hub # "none" => sess'[t].hub # "none" /\ sess'[t].node = sess[t].node
       /\ sess'[t].cancelled = TRUE => Noted(t)' \/ (sess[t].cancelled = TRUE /\ sess'[t].node = sess[t].node)
  /\ \A n \in AppNode :
       /\ \/ reg'[n] \in {0, reg[n]}
          \/ sess'[reg'[n]].hub # "none" /\ sess'[reg'[n]].node = n
       /\ hand'[n].s \in {0, hand[n].s, reg[n]}
       /\ hand[n].pc = "idle" => hand'[n].pc = "idle" \/ hist.soon = TRUE \/ Unmarked(n)
  /\ row'.status = "absent" => row.status = "absent"
  /\ row'.abort_requested = TRUE => row.abort_requested = TRUE
  /\ row'.status = "running" => \/ row.status = "absent"
                                \/ row.status = "running" /\ row'.abort_requested = row.abort_requested
  /\ "abort" \in events' <=> "abort" \in events
  /\ follower' = "launches" => follower = "launches"
  /\ hist'.soon = hist.soon
  /\ rte'.running = TRUE => rte'.known = TRUE

\* A steady step keeps what the marks say.
LEMMA SteadyKeeps ==
  ASSUME TypeInv, NodesOK, MarksOK, Steady
  PROVE  NodesOK' /\ MarksOK'
  <1>0. \A n \in AppNode : hand[n].s \in Conn \cup {0} /\ reg[n] \in Conn \cup {0}
    BY DEF TypeInv, TypeOK, Hand
  <1>1. NodesOK'
    <2>. SUFFICES ASSUME NEW n \in AppNode
                  PROVE  /\ hand'[n].s # 0 => sess'[hand'[n].s].hub # "none" /\ sess'[hand'[n].s].node = n
                         /\ reg'[n] # 0 => sess'[reg'[n]].hub # "none" /\ sess'[reg'[n]].node = n
      BY DEF NodesOK
    <2>1. \A s \in {hand[n].s, reg[n]} : s # 0 =>
            s \in Conn /\ sess'[s].hub # "none" /\ sess'[s].node = n
      BY <1>0 DEF NodesOK, Steady
    <2>. QED
      BY <2>1 DEF Steady
  <1>2. ASSUME "abort" \notin events'
        PROVE  row'.abort_requested # TRUE /\ \A s \in Conn : sess'[s].cancelled # TRUE
    BY <1>2 DEF Steady, MarksOK, Noted
  <1>3. ASSUME hist'.soon # TRUE, NEW s \in Conn, sess'[s].cancelled = TRUE
        PROVE  /\ row'.status = "running" => row'.abort_requested = TRUE
               /\ \A n \in AppNode : sess'[s].node = n => hand'[n].pc = "idle"
    <2>1. CASE Noted(s)'
      BY <1>3, <2>1 DEF Noted
    <2>2. CASE sess[s].cancelled = TRUE /\ sess'[s].node = sess[s].node
      <3>1. hist.soon # TRUE /\ "abort" \in events /\ row.status # "absent"
        BY <1>3, <2>2 DEF Steady, MarksOK
      <3>2. /\ row.status = "running" => row.abort_requested = TRUE
            /\ \A n \in AppNode : sess[s].node = n => hand[n].pc = "idle"
        BY <2>2, <3>1 DEF MarksOK
      <3>3. row'.status = "running" => row'.abort_requested = TRUE
        BY <3>1, <3>2 DEF Steady
      <3>4. ASSUME NEW n \in AppNode, sess'[s].node = n PROVE hand'[n].pc = "idle"
        <4>1. hand[n].pc = "idle" /\ ~Unmarked(n)
          BY <2>2, <3>2, <3>4 DEF Unmarked
        <4>. QED
          BY <3>1, <4>1 DEF Steady
      <3>. QED
        BY <3>3, <3>4
    <2>. QED
      BY <1>3, <2>1, <2>2 DEF Steady
  <1>4. /\ row'.status = "absent" => "abort" \notin events'
        /\ follower' = "launches" /\ "abort" \in events' => hist'.soon = TRUE
        /\ rte'.running = TRUE => rte'.known = TRUE
    BY DEF Steady, MarksOK
  <1>5. MarksOK'
    BY <1>2, <1>3, <1>4 DEF MarksOK
  <1>. QED
    BY <1>1, <1>5

\* The RTE, and what is on its way to it, as the app's steps leave them : no hand-over to it, and a
\* cancel no node of its socket noted.
Calm == Steady /\ UNCHANGED <<cur, rte>> /\ \A t \in Conn : Tame(sess[t], sess'[t])

\* A calm step keeps each noted cancel true.
LEMMA CalmKeeps ==
  ASSUME TypeInv, CancelOK, Calm
  PROVE  CancelOK'
  <1>. SUFFICES ASSUME hist'.soon # TRUE, cur' # 0, sess'[cur'].cancelled = TRUE
                PROVE  /\ RunsCancelled(sess'[cur'].down)
                       /\ rte'.running = TRUE => rte'.abort = TRUE \/ Cancelling(sess'[cur'].down)
    BY DEF CancelOK
  <1>1. cur' = cur /\ rte' = rte /\ hist.soon # TRUE /\ cur \in Conn /\ sess[cur].down \in Seq(DownMessage)
    BY DEF Calm, Steady, TypeInv, TypeOK, Session
  <1>2. Tame(sess[cur], sess'[cur]) /\ sess[cur].cancelled = TRUE
    BY <1>1 DEF Calm, Tame
  <1>3. /\ RunsCancelled(sess[cur].down)
        /\ rte.running = TRUE => rte.abort = TRUE \/ Cancelling(sess[cur].down)
    BY <1>1, <1>2 DEF CancelOK
  <1>4. /\ RunsCancelled(sess'[cur].down)
        /\ Cancelling(sess[cur].down) => Cancelling(sess'[cur].down)
    <2>1. CASE sess'[cur].down = sess[cur].down
      BY <1>3, <2>1
    <2>2. ASSUME NEW m \in DownMessage, m.t # "run", sess'[cur].down = Append(sess[cur].down, m)
          PROVE  /\ RunsCancelled(sess'[cur].down)
                 /\ Cancelling(sess[cur].down) => Cancelling(sess'[cur].down)
      BY <1>1, <1>3, <2>2, DownAppend
    <2>. QED
      BY <1>2, <2>1, <2>2 DEF Tame
  <1>. QED
    BY <1>1, <1>3, <1>4

\* A hand keeps its socket, or takes the node's, and a free one is taken for a job no cancel was
\* noted for only.
HandsOn ==
  \A n \in AppNode :
    /\ reg'[n] \in {0, reg[n]}
    /\ hand'[n].s \in {0, hand[n].s, reg[n]}
    /\ hand[n].pc = "idle" => hand'[n].pc = "idle" \/ hist.soon = TRUE \/ Unmarked(n)

\* The row moves as a row may, or is there now.
RowOn ==
  \/ Moves(row, row')
  \/ row.status = "absent" /\ row'.status = "running" /\ row'.abort_requested = row.abort_requested

\* No abort comes.
EventsOn == "abort" \in events' <=> "abort" \in events

\* No event but an abort is one.
LEMMA EventsStay ==
  /\ NoEvent => EventsOn
  /\ \A kind : Happens(kind) /\ kind # "abort" => EventsOn
  BY DEF NoEvent, Happens, EventsOn

\* A step is calm by its parts.
LEMMA CalmBy ==
  ASSUME TypeInv, MarksOK, row' \in Row, \A t \in Conn : Tame(sess[t], sess'[t]), HandsOn, RowOn, EventsOn,
         follower' = "launches" => follower = "launches", UNCHANGED <<hist, cur, rte>>
  PROVE  Calm
  <1>1. /\ row'.status = "absent" => row.status = "absent"
        /\ row'.abort_requested = TRUE => row.abort_requested = TRUE
        /\ row'.status = "running" => \/ row.status = "absent"
                                      \/ row.status = "running" /\ row'.abort_requested = row.abort_requested
    <2>1. CASE Moves(row, row')
      <3>1. row.abort_requested \in BOOLEAN /\ row'.abort_requested \in BOOLEAN
        BY DEF TypeInv, TypeOK, Row
      <3>. QED
        BY <2>1, <3>1 DEF Moves
    <2>2. CASE row.status = "absent" /\ row'.status = "running" /\ row'.abort_requested = row.abort_requested
      BY <2>2
    <2>. QED
      BY <2>1, <2>2 DEF RowOn
  <1>2. \A t \in Conn :
          /\ sess[t].hub # "none" => sess'[t].hub # "none" /\ sess'[t].node = sess[t].node
          /\ sess'[t].cancelled = TRUE => sess[t].cancelled = TRUE /\ sess'[t].node = sess[t].node
    BY DEF Tame
  <1>3. rte'.running = TRUE => rte'.known = TRUE
    BY DEF MarksOK
  <1>. QED
    BY <1>1, <1>2, <1>3 DEF Calm, Steady, HandsOn, EventsOn

\* What the hand-overs a node goes on with say of their socket.
LEMMA HandFields ==
  ASSUME TypeInv, NEW n \in AppNode
  PROVE  /\ IdleHand.s = 0 /\ IdleHand.pc = "idle" /\ [IdleHand EXCEPT !.said = TRUE].s = 0
         /\ [IdleHand EXCEPT !.said = TRUE].pc = "idle"
         /\ NotTaken(n).s \in {0, hand[n].s} /\ Sending(n).s = reg[n]
         /\ \A pc : [hand[n] EXCEPT !.pc = pc].s = hand[n].s
         /\ \A pc, res : [hand[n] EXCEPT !.pc = pc, !.res = res].s = hand[n].s
  BY DEF TypeInv, TypeOK, Hand, IdleHand, NotTaken, Waits, Sending

\* One hand that goes on.
LEMMA HandsOnBy ==
  ASSUME TypeInv, NEW n \in AppNode, NEW h, hand' = [hand EXCEPT ![n] = h], reg' = reg,
         h.s \in {0, hand[n].s, reg[n]},
         hand[n].pc = "idle" => h.pc = "idle" \/ hist.soon = TRUE \/ Unmarked(n)
  PROVE  HandsOn
  BY DEF TypeInv, TypeOK, HandsOn

\* Hands left alone go on.
LEMMA HandsStay == UNCHANGED <<hand, reg>> => HandsOn
  BY DEF HandsOn

\* A job that can be handed over has no cancel noted, but for one asked before its kick.
LEMMA FreeUnmarked ==
  ASSUME TypeInv, MarksOK, hist.soon # TRUE,
         follower = "launches" \/ (row.status = "running" /\ row.abort_requested = FALSE)
  PROVE  \A n : Unmarked(n)
  BY DEF MarksOK, Unmarked

\* The nodes' steps are calm, but for handing over, aborting and cancelling.
LEMMA AppCalm ==
  ASSUME TypeInv, MarksOK, TypeInv', NEW n \in AppNode,
         \/ Launch(n) \/ Announce(n) \/ Dispatch(n) \/ AbortWhileWaiting(n) \/ Say(n)
         \/ ClaimTimeout(n) \/ GiveBack(n) \/ FailJob(n) \/ Crash(n) \/ Start(n) \/ Sweep(n)
  PROVE  Calm
  <1>0. /\ sess \in Sessions /\ row \in Row /\ row' \in Row /\ Moves(row, row) /\ "aborted" \in Outcome
        /\ \A t \in Conn : Tame(sess[t], sess[t])
        /\ hand[n].s \in Conn \cup {0} /\ hist.soon \in BOOLEAN /\ row.abort_requested \in BOOLEAN
    BY StayingMoves, TameSelf DEF TypeInv, TypeOK, Sessions, Hand, Row, Outcome
  <1>1. CASE Launch(n)
    <2>1. /\ row.status = "absent" /\ row' = CreateRow(row, n)
          /\ UNCHANGED <<seen, hand, reg, follower, sess, cur, rte, hist>> /\ EventsOn
      BY <1>1, EventsStay DEF Launch, appVars
    <2>2. row'.status = "running" /\ row'.abort_requested = row.abort_requested
      BY <1>0, <2>1 DEF CreateRow, Row
    <2>3. RowOn
      BY <2>1, <2>2 DEF RowOn
    <2>. QED
      BY <1>0, <2>1, <2>3, HandsStay, CalmBy
  <1>2. CASE Announce(n)
    <2>. DEFINE h == IF CanRun(n) /\ ~HandingOver(n) THEN Sending(n) ELSE hand[n]
    <2>1. /\ follower = "launches" /\ UNCHANGED <<row, sess, reg, cur, rte, hist>> /\ EventsOn
          /\ follower' = "polls" /\ hand' = [hand EXCEPT ![n] = h]
      BY <1>2, EventsStay DEF Announce, HandMoves
    <2>2. h.s \in {0, hand[n].s, reg[n]}
      BY HandFields
    <2>3. hist.soon # TRUE => Unmarked(n)
      BY <2>1, FreeUnmarked
    <2>. HIDE DEF h
    <2>4. HandsOn
      BY <1>0, <2>1, <2>2, <2>3, HandsOnBy
    <2>. QED
      BY <1>0, <2>1, <2>4, CalmBy DEF RowOn
  <1>3. CASE Dispatch(n)
    <2>1. /\ row.status = "running" /\ UNCHANGED <<row, sess, reg, follower, cur, rte, hist>> /\ EventsOn
          /\ hand' = hand \/ (~row.abort_requested /\ hand' = [hand EXCEPT ![n] = Sending(n)])
      BY <1>3, EventsStay DEF Dispatch, dbVars
    <2>2. CASE hand' = hand
      BY <1>0, <2>1, <2>2, HandsStay, CalmBy DEF RowOn
    <2>3. CASE ~row.abort_requested /\ hand' = [hand EXCEPT ![n] = Sending(n)]
      <3>1. hist.soon # TRUE => Unmarked(n)
        BY <1>0, <2>1, <2>3, FreeUnmarked
      <3>2. HandsOn
        BY <2>1, <2>3, <3>1, HandsOnBy, HandFields
      <3>. QED
        BY <1>0, <2>1, <3>2, CalmBy DEF RowOn
    <2>. QED
      BY <2>1, <2>2, <2>3
  <1>4. CASE AbortWhileWaiting(n)
    <2>1. /\ row' = EndRow(row, "aborted") /\ EventsOn
          /\ UNCHANGED <<hand, reg, follower, sess, cur, rte, hist>>
      BY <1>4, EventsStay DEF AbortWhileWaiting
    <2>2. RowOn
      BY <1>0, <2>1, EndMoves DEF RowOn
    <2>. QED
      BY <1>0, <2>1, <2>2, HandsStay, CalmBy
  <1>5. CASE Say(n)
    <2>1. /\ UNCHANGED <<row, sess, reg, follower, cur, rte, hist>> /\ EventsOn
          /\ hand' = [hand EXCEPT ![n] = [IdleHand EXCEPT !.said = TRUE]]
      BY <1>5, EventsStay DEF Say, HandMoves
    <2>2. HandsOn
      BY <2>1, HandsOnBy, HandFields
    <2>. QED
      BY <1>0, <2>1, <2>2, CalmBy DEF RowOn
  <1>6. CASE ClaimTimeout(n)
    <2>1. /\ UNCHANGED <<row, sess, reg, follower, cur, rte, hist>> /\ EventsOn /\ hand[n].pc # "idle"
          /\ hand' = [hand EXCEPT ![n] = [hand[n] EXCEPT !.pc = "back", !.res = "lost"]]
      BY <1>6, EventsStay DEF ClaimTimeout, HandMoves
    <2>2. HandsOn
      <3>. DEFINE h == [hand[n] EXCEPT !.pc = "back", !.res = "lost"]
      <3>1. h.s = hand[n].s /\ hand' = [hand EXCEPT ![n] = h]
        BY <2>1, HandFields
      <3>. HIDE DEF h
      <3>. QED
        BY <2>1, <3>1, HandsOnBy
    <2>. QED
      BY <1>0, <2>1, <2>2, CalmBy DEF RowOn
  <1>7. CASE GiveBack(n)
    <2>1. /\ UNCHANGED <<sess, reg, follower, cur, rte, hist>> /\ EventsOn /\ hand[n].pc # "idle"
          /\ row' = row \/ row' = [row EXCEPT !.host = NoNode]
          /\ \/ hand' = [hand EXCEPT ![n] = [hand[n] EXCEPT !.pc = "failing"]]
             \/ hand' = [hand EXCEPT ![n] = NotTaken(n)]
      BY <1>7, EventsStay DEF GiveBack, HandMoves
    <2>2. HandsOn
      <3>. DEFINE h == [hand[n] EXCEPT !.pc = "failing"]
                  k == NotTaken(n)
      <3>1. h.s = hand[n].s /\ k.s \in {0, hand[n].s} /\ (hand' = [hand EXCEPT ![n] = h] \/ hand' = [hand EXCEPT ![n] = k])
        BY <2>1, HandFields
      <3>. HIDE DEF h, k
      <3>. QED
        BY <2>1, <3>1, HandsOnBy
    <2>3. RowOn
      BY <1>0, <2>1, HostMoves DEF RowOn
    <2>. QED
      BY <1>0, <2>1, <2>2, <2>3, CalmBy
  <1>8. CASE FailJob(n)
    <2>1. /\ UNCHANGED <<reg, follower, cur, rte, hist>> /\ EventsOn
          /\ row' = FailRow(row) /\ sess' = Forgotten(sess, n) /\ hand' = [hand EXCEPT ![n] = IdleHand]
      BY <1>8, EventsStay DEF FailJob, Fails, HandMoves
    <2>2. HandsOn
      BY <2>1, HandsOnBy, HandFields
    <2>3. RowOn
      BY <1>0, <2>1, FailMoves DEF RowOn
    <2>4. \A t \in Conn : Tame(sess[t], sess'[t])
      BY <1>0, <2>1, ForgottenFields DEF Tame
    <2>. QED
      BY <1>0, <2>1, <2>2, <2>3, <2>4, CalmBy
  <1>9. CASE Crash(n)
    <2>1. /\ UNCHANGED <<row, cur, rte, hist>> /\ EventsOn
          /\ reg' = [reg EXCEPT ![n] = 0] /\ hand' = [hand EXCEPT ![n] = IdleHand]
          /\ follower' \in {"gone", follower}
      BY <1>9, EventsStay DEF Crash, dbVars
    <2>2. HandsOn
      BY <2>1, HandFields DEF TypeInv, TypeOK, HandsOn
    <2>. DEFINE none == <<>>
    <2>3. \A s \in Conn : sess'[s] = sess[s] \/ sess'[s] = [sess[s] EXCEPT !.hub = "closed", !.up = none,
                                                              !.cancelled = FALSE, !.knew = FALSE]
      BY <1>9 DEF Crash
    <2>. HIDE DEF none
    <2>4. \A t \in Conn : /\ sess'[t].node = sess[t].node /\ sess'[t].down = sess[t].down
                          /\ sess[t].hub # "none" => sess'[t].hub # "none"
                          /\ sess'[t].cancelled = TRUE => sess[t].cancelled = TRUE
      <3>. SUFFICES ASSUME NEW t \in Conn
                    PROVE  /\ sess'[t].node = sess[t].node /\ sess'[t].down = sess[t].down
                           /\ sess[t].hub # "none" => sess'[t].hub # "none"
                           /\ sess'[t].cancelled = TRUE => sess[t].cancelled = TRUE
        OBVIOUS
      <3>1. sess[t] \in Session
        BY <1>0 DEF Sessions
      <3>2. CASE sess'[t] = sess[t]
        BY <3>2
      <3>3. CASE sess'[t] = [sess[t] EXCEPT !.hub = "closed", !.up = none, !.cancelled = FALSE, !.knew = FALSE]
        BY <3>1, <3>3 DEF Session
      <3>. QED
        BY <2>3, <3>2, <3>3
    <2>5. \A t \in Conn : Tame(sess[t], sess'[t])
      BY <2>4 DEF Tame
    <2>. QED
      BY <1>0, <2>1, <2>2, <2>5, CalmBy DEF RowOn
  <1>10. CASE Start(n)
    <2>1. /\ row' = AbandonOwnRow(row, n, FALSE) /\ EventsOn
          /\ UNCHANGED <<hand, reg, follower, sess, cur, rte, hist>>
      BY <1>10, EventsStay DEF Start
    <2>2. RowOn
      BY <1>0, <2>1, SweepMoves DEF RowOn
    <2>. QED
      BY <1>0, <2>1, <2>2, HandsStay, CalmBy
  <1>11. CASE Sweep(n)
    <2>1. /\ row' = AbandonDeadRow(row, n, alive, IF seen THEN {Rte} ELSE {}) /\ EventsOn
          /\ UNCHANGED <<hand, reg, follower, sess, cur, rte, hist>>
      BY <1>11, EventsStay DEF Sweep, appVars
    <2>2. RowOn
      BY <1>0, <2>1, SweepMoves DEF RowOn
    <2>. QED
      BY <1>0, <2>1, <2>2, HandsStay, CalmBy
  <1>. QED
    BY <1>1, <1>2, <1>3, <1>4, <1>5, <1>6, <1>7, <1>8, <1>9, <1>10, <1>11

\* Steps that only change what a socket is to the app.
Alike(ss, tt) == \A t \in Conn : /\ tt[t].node = ss[t].node /\ tt[t].down = ss[t].down
                                 /\ tt[t].cancelled = TRUE => ss[t].cancelled = TRUE
                                 /\ ss[t].hub # "none" => tt[t].hub # "none"

\* Sessions that only change what they are to the hub are tame.
LEMMA AlikeTame ==
  ASSUME NEW ss, NEW tt, Alike(ss, tt)
  PROVE  /\ \A t \in Conn : Tame(ss[t], tt[t])
         /\ \A uu : (\A t \in Conn : Tame(tt[t], uu[t])) => \A t \in Conn : Tame(ss[t], uu[t])
         /\ \A uu : Alike(tt, uu) => Alike(ss, uu)
  BY DEF Alike, Tame

\* The follower's steps, the clock's and stuttering are calm.
LEMMA OtherCalm ==
  ASSUME TypeInv, MarksOK, TypeInv', TrackSocket \/ Away \/ UNCHANGED vars
  PROVE  Calm
  <1>1. /\ row \in Row /\ row' \in Row /\ UNCHANGED <<hand, reg, sess, cur, rte, hist>>
        /\ row' = row \/ row' = FailRow(row)
        /\ follower' = "launches" => follower = "launches"
    BY DEF TypeInv, TypeOK, TrackSocket, Fails, Away, appVars, vars, dbVars
  <1>2. EventsOn
    BY EventsStay DEF TrackSocket, Away, vars, NoEvent
  <1>3. RowOn
    BY <1>1, FailMoves, StayingMoves DEF RowOn
  <1>4. \A t \in Conn : Tame(sess[t], sess'[t])
    BY <1>1, TameSelf
  <1>. QED
    BY <1>1, <1>2, <1>3, <1>4, HandsStay, CalmBy

\* A socket that is welcomed, settled or closed is a calm step.
LEMMA HubCalm ==
  ASSUME TypeInv, MarksOK, TypeInv', NEW s \in Conn, Welcome(s) \/ Settle(s) \/ SessionCloses(s)
  PROVE  Calm
  <1>0. sess \in Sessions /\ sess[s] \in Session /\ row \in Row /\ row' \in Row /\ Moves(row, row)
    BY StayingMoves DEF TypeInv, TypeOK, Sessions
  <1>1. CASE Welcome(s)
    <2>. DEFINE ss == [sess EXCEPT ![s].hub = "welcomed"]
                m == [t |-> "welcome"]
    <2>1. ss \in Sessions /\ Alike(sess, ss)
      BY <1>0, <1>1 DEF Welcome, Sessions, Session, Alike
    <2>2. /\ m \in DownMessage /\ m.t # "run" /\ EventsOn /\ sess' = Sent(ss, s, m)
          /\ UNCHANGED <<row, hand, reg, follower, cur, rte, hist>>
      BY <1>1, MessageTyping, EventsStay DEF Welcome, dbVars, appVars
    <2>. HIDE DEF ss, m
    <2>3. \A t \in Conn : Tame(ss[t], sess'[t])
      BY <2>1, <2>2, SocketTame
    <2>4. \A t \in Conn : Tame(sess[t], sess'[t])
      BY <2>1, <2>3, AlikeTame
    <2>. QED
      BY <1>0, <2>2, <2>4, HandsStay, CalmBy DEF RowOn
  <1>2. CASE Settle(s)
    <2>. DEFINE ss == [sess EXCEPT ![s].hub = "ready", ![s].knew = FALSE]
    <2>1. ss \in Sessions /\ Alike(sess, ss)
      BY <1>0, <1>2 DEF Settle, Sessions, Session, Alike
    <2>2. /\ EventsOn /\ UNCHANGED <<hand, reg, follower, cur, rte, hist>>
          /\ sess' = ss \/ sess' = Forgotten(ss, sess[s].node)
          /\ row' = row \/ row' = AbandonJobs(row)
      BY <1>2, EventsStay DEF Settle, appVars
    <2>. HIDE DEF ss
    <2>3. \A t \in Conn : Tame(ss[t], sess'[t])
      BY <2>1, <2>2, SocketTame, TameSelf
    <2>4. \A t \in Conn : Tame(sess[t], sess'[t])
      BY <2>1, <2>3, AlikeTame
    <2>5. RowOn
      BY <1>0, <2>2, AbandonJobsMoves DEF RowOn
    <2>. QED
      BY <1>0, <2>2, <2>4, <2>5, HandsStay, CalmBy
  <1>3. CASE SessionCloses(s)
    <2>1. PICK u : sess' = [sess EXCEPT ![s].hub = "closed", ![s].cancelled = FALSE, ![s].knew = FALSE, ![s].up = u]
      <3>1. PICK k \in 0..Len(sess[s].up) :
              sess' = [sess EXCEPT ![s].hub = "closed", ![s].cancelled = FALSE, ![s].knew = FALSE,
                                   ![s].up = SubSeq(@, 1, k)]
        BY <1>3 DEF SessionCloses
      <3>. QED
        BY <3>1
    <2>2. /\ UNCHANGED <<row, follower, cur, rte, hist>>
          /\ reg' = [n \in AppNode |-> IF reg[n] = s THEN 0 ELSE reg[n]]
          /\ hand' = [n \in AppNode |-> IF hand[n].pc = "sent" /\ hand[n].s = s
                                        THEN [hand[n] EXCEPT !.pc = "back", !.res = "lost"] ELSE hand[n]]
      BY <1>3 DEF SessionCloses, dbVars
    <2>3. EventsOn
      BY <1>3, EventsStay DEF SessionCloses
    <2>4. Alike(sess, sess')
      BY <1>0, <2>1 DEF Sessions, Session, Alike
    <2>5. HandsOn
      <3>. SUFFICES ASSUME NEW n \in AppNode
                    PROVE  /\ reg'[n] \in {0, reg[n]}
                           /\ hand'[n].s \in {0, hand[n].s, reg[n]}
                           /\ hand[n].pc = "idle" => hand'[n].pc = "idle"
        BY DEF HandsOn
      <3>. DEFINE h == [hand[n] EXCEPT !.pc = "back", !.res = "lost"]
      <3>1. h.s = hand[n].s
        BY HandFields
      <3>2. hand'[n] = (IF hand[n].pc = "sent" /\ hand[n].s = s THEN h ELSE hand[n])
        BY <2>2
      <3>3. reg'[n] \in {0, reg[n]}
        BY <2>2
      <3>. HIDE DEF h
      <3>. QED
        BY <3>1, <3>2, <3>3
    <2>. QED
      BY <1>0, <2>2, <2>3, <2>4, <2>5, AlikeTame, CalmBy DEF RowOn
  <1>. QED
    BY <1>1, <1>2, <1>3

\* A message read by the app is a calm step.
LEMMA ReadsCalm ==
  ASSUME TypeInv, MarksOK, TypeInv', NEW s \in Conn, OnClaimed(s) \/ OnRefused(s) \/ OnItem(s) \/ StoreFails(s)
  PROVE  Calm
  <1>0. /\ sess \in Sessions /\ sess[s] \in Session /\ row \in Row /\ row' \in Row /\ Moves(row, row)
        /\ sess[s].up # <<>>
    BY StayingMoves DEF TypeInv, TypeOK, Sessions, OnClaimed, OnRefused, OnItem, StoreFails, Says
  <1>. DEFINE rd == Received(s)
  <1>1. rd \in Sessions /\ Alike(sess, rd) /\ Head(sess[s].up) \in UpMessage
    BY <1>0, ReadTyping, ReceivedFields DEF Alike, Same
  <1>2. CASE OnClaimed(s) \/ OnRefused(s)
    <2>. DEFINE n == sess[s].node
    <2>1. /\ UNCHANGED <<row, follower, reg, cur, rte, hist>> /\ EventsOn /\ sess' = rd
          /\ \E h : /\ hand' = [hand EXCEPT ![n] = h]
                    /\ h = hand[n] \/ h = IdleHand \/ (hand[n].pc # "idle" /\ \E res : h = [hand[n] EXCEPT !.pc = "back", !.res = res])
      <3>1. CASE OnClaimed(s)
        BY <3>1, EventsStay DEF OnClaimed, HandMoves
      <3>2. CASE OnRefused(s)
        BY <3>2, EventsStay DEF OnRefused, HandMoves, Settled
      <3>. QED
        BY <1>2, <3>1, <3>2
    <2>2. PICK h : /\ hand' = [hand EXCEPT ![n] = h]
                   /\ h = hand[n] \/ h = IdleHand \/ (hand[n].pc # "idle" /\ \E res : h = [hand[n] EXCEPT !.pc = "back", !.res = res])
      BY <2>1
    <2>3. HandsOn
      <3>1. CASE n \in AppNode
        <4>. HIDE DEF n
        <4>1. h.s \in {0, hand[n].s} /\ (hand[n].pc = "idle" => h.pc = "idle")
          <5>1. IdleHand.s = 0 /\ IdleHand.pc = "idle"
                /\ \A res : [hand[n] EXCEPT !.pc = "back", !.res = res].s = hand[n].s
            BY <3>1, HandFields
          <5>2. ASSUME NEW res, h = [hand[n] EXCEPT !.pc = "back", !.res = res] PROVE h.s = hand[n].s
            BY <5>1, <5>2
          <5>3. h = hand[n] \/ h = IdleHand \/ (hand[n].pc # "idle" /\ h.s = hand[n].s)
            BY <2>2, <5>2
          <5>. QED
            BY <5>1, <5>3
        <4>. QED
          BY <2>1, <2>2, <3>1, <4>1, HandsOnBy
      <3>2. CASE n \notin AppNode
        <4>. HIDE DEF n
        <4>1. hand \in [AppNode -> Hand] /\ hand' = [hand EXCEPT ![n] = h] /\ reg' = reg
          BY <2>1, <2>2 DEF TypeInv, TypeOK
        <4>2. \A x \in AppNode : hand'[x] = hand[x]
          BY <3>2, <4>1
        <4>. QED
          BY <4>1, <4>2 DEF HandsOn
      <3>. QED
        BY <3>1, <3>2
    <2>4. \A t \in Conn : Tame(sess[t], sess'[t])
      BY <1>1, <2>1, AlikeTame
    <2>. QED
      BY <1>0, <2>1, <2>3, <2>4, CalmBy DEF RowOn
  <1>3. CASE OnItem(s)
    <2>1. /\ UNCHANGED <<hand, reg, follower, cur, rte, hist>> /\ EventsOn /\ Head(sess[s].up).t = "item"
          /\ Skip(s) \/ Store(s, Head(sess[s].up))
      BY <1>3, EventsStay DEF OnItem, appVars, Says
    <2>2. CASE Skip(s)
      BY <1>0, <1>1, <2>1, <2>2, AlikeTame, HandsStay, CalmBy DEF Skip, RowOn
    <2>3. CASE Store(s, Head(sess[s].up))
      <3>1. PICK m : m = Head(sess[s].up)
        OBVIOUS
      <3>. DEFINE a == [t |-> "ack", seq |-> m.seq]
                  tt == Sent(rd, s, a)
      <3>2. m.item \in Item /\ a \in DownMessage /\ a.t # "run"
        BY <1>1, <2>1, <3>1, MessageTyping
      <3>3. row' = StoreRow(row, m.item) /\ (sess' = tt \/ sess' = Forgotten(tt, sess[s].node))
        BY <2>3, <3>1 DEF Store
      <3>4. RowOn
        BY <1>0, <3>2, <3>3, StoreMoves DEF RowOn
      <3>. HIDE DEF a, rd
      <3>5. tt \in Sessions /\ \A t \in Conn : Tame(rd[t], tt[t])
        BY <1>1, <3>2, SocketTyping, SocketTame
      <3>. HIDE DEF tt
      <3>6. \A t \in Conn : Tame(rd[t], Forgotten(tt, sess[s].node)[t])
        BY <3>5, ForgottenFields DEF Tame
      <3>7. \A t \in Conn : Tame(sess[t], sess'[t])
        BY <1>1, <3>3, <3>5, <3>6, AlikeTame
      <3>. QED
        BY <1>0, <2>1, <3>4, <3>7, HandsStay, CalmBy
    <2>. QED
      BY <2>1, <2>2, <2>3
  <1>4. CASE StoreFails(s)
    <2>1. /\ UNCHANGED <<hand, reg, follower, cur, rte, hist>> /\ EventsOn /\ Head(sess[s].up).t = "item"
          /\ row' = row \/ row' = StoreRow(row, Head(sess[s].up).item)
          /\ sess' = Closing([Received(s) EXCEPT ![s].failed = TRUE], s)
      BY <1>4, EventsStay DEF StoreFails, appVars, Says
    <2>2. Head(sess[s].up).item \in Item
      BY <1>1, <2>1, MessageTyping
    <2>3. RowOn
      BY <1>0, <2>1, <2>2, StoreMoves DEF RowOn
    <2>. DEFINE tt == [rd EXCEPT ![s].failed = TRUE]
    <2>4. sess' = Closing(tt, s)
      BY <2>1
    <2>. HIDE DEF rd
    <2>5. tt \in Sessions /\ Alike(rd, tt)
      BY <1>1, ZenonT(30) DEF Sessions, Session, Alike
    <2>. HIDE DEF tt
    <2>6. \A t \in Conn : Tame(sess[t], sess'[t])
      BY <1>1, <2>4, <2>5, SocketTame, AlikeTame
    <2>. QED
      BY <1>0, <2>1, <2>3, <2>6, HandsStay, CalmBy
  <1>. QED
    BY <1>2, <1>3, <1>4

\* Handing over is not calm, for a node that noted no cancel.
LEMMA HandOverKeeps ==
  ASSUME CancelInv, TypeInv', NEW n \in AppNode, HandOver(n)
  PROVE  NodesOK' /\ MarksOK' /\ CancelOK'
  <1>0. /\ TypeInv /\ NodesOK /\ MarksOK /\ CancelOK
        /\ sess \in Sessions /\ row \in Row /\ row' \in Row /\ hand[n].s \in Conn \cup {0} /\ cur \in Conn \cup {0}
        /\ \A t \in Conn : Tame(sess[t], sess[t])
    BY TameSelf DEF CancelInv, TypeInv, TypeOK, Sessions, Hand
  <1>1. /\ UNCHANGED <<follower, reg, cur, rte, hist>> /\ hand[n].pc = "send"
        /\ row' = row \/ row' = [row EXCEPT !.host = Rte]
    BY DEF HandOver, HandMoves
  <1>2. EventsOn
    BY EventsStay DEF HandOver
  <1>3. HandsOn
    <2>. DEFINE f == [hand[n] EXCEPT !.pc = "failing"]
                g == [hand[n] EXCEPT !.pc = "sent"]
                h == [hand[n] EXCEPT !.pc = "back", !.res = "lost"]
                k == NotTaken(n)
    <2>1. /\ f.s = hand[n].s /\ g.s = hand[n].s /\ h.s = hand[n].s /\ k.s \in {0, hand[n].s} /\ IdleHand.s = 0
          /\ \E x \in {f, g, h, k, IdleHand} : hand' = [hand EXCEPT ![n] = x]
      BY <1>0, HandFields DEF HandOver, HandMoves
    <2>. HIDE DEF f, g, h, k
    <2>2. PICK x \in {f, g, h, k, IdleHand} : hand' = [hand EXCEPT ![n] = x]
      BY <2>1
    <2>3. x.s \in {0, hand[n].s, reg[n]}
      BY <2>1
    <2>. QED
      BY <1>0, <1>1, <2>2, <2>3, HandsOnBy
  <1>4. RowOn
    BY <1>0, <1>1, HostMoves, StayingMoves, RteAssumption DEF RowOn
  <1>5. CASE sess' = sess
    <2>1. Calm
      BY <1>0, <1>1, <1>2, <1>3, <1>4, <1>5, CalmBy
    <2>. QED
      BY <1>0, <2>1, CalmKeeps, SteadyKeeps DEF Calm
  <1>6. CASE sess' # sess
    <2>. DEFINE m == [t |-> "run", last |-> LastOrder]
    <2>1. sess' = Sent(sess, hand[n].s, m)
      BY <1>6 DEF HandOver
    <2>2. m \in DownMessage
      BY MessageTyping, AppLineTyping, <1>0 DEF TypeInv, TypeOK
    <2>. HIDE DEF m
    <2>3. \A t \in Conn : /\ sess'[t].node = sess[t].node /\ sess'[t].hub = sess[t].hub
                          /\ sess'[t].cancelled = sess[t].cancelled
                          /\ sess'[t].down = sess[t].down \/ t = hand[n].s
      BY <1>0, <2>1, <2>2, SentFields, ZenonT(30)
    <2>4. Steady
      <3>1. row'.status = "absent" => row.status = "absent"
        BY <1>0, <1>1, HostMoves, RteAssumption
      <3>2. row'.status = row.status /\ row'.abort_requested = row.abort_requested
        BY <1>0, <1>1 DEF Row
      <3>. QED
        BY <1>0, <1>1, <1>2, <1>3, <2>3, <3>1, <3>2 DEF Steady, HandsOn, EventsOn, MarksOK
    <2>5. CancelOK'
      <3>. SUFFICES ASSUME hist'.soon # TRUE, cur' # 0, sess'[cur'].cancelled = TRUE
                    PROVE  /\ RunsCancelled(sess'[cur'].down)
                           /\ rte'.running = TRUE => rte'.abort = TRUE \/ Cancelling(sess'[cur'].down)
        BY DEF CancelOK
      <3>1. cur \in Conn /\ cur' = cur /\ rte' = rte /\ hist.soon # TRUE /\ sess[cur].cancelled = TRUE
        BY <1>0, <1>1, <2>3
      <3>2. cur # hand[n].s
        <4>1. \A x \in AppNode : sess[cur].node = x => hand[x].pc = "idle"
          BY <1>0, <3>1 DEF MarksOK
        <4>. QED
          BY <1>0, <1>1, <3>1, <4>1 DEF NodesOK
      <3>. QED
        BY <1>0, <2>3, <3>1, <3>2 DEF CancelOK
    <2>. QED
      BY <1>0, <2>4, <2>5, SteadyKeeps
  <1>. QED
    BY <1>5, <1>6

\* A cancel sent on a socket, and noted there.
LEMMA NotedFields ==
  ASSUME sess \in Sessions, NEW s \in Conn, IsOpen(s)
  PROVE  LET m == [t |-> "cancel"]
             tt == Marked(Sent(sess, s, m), s)
         IN /\ \A t \in Conn : /\ tt[t].node = sess[t].node /\ tt[t].hub = sess[t].hub
                               /\ t # s => tt[t].cancelled = sess[t].cancelled /\ tt[t].down = sess[t].down
            /\ s = cur => RunsCancelled(tt[s].down) /\ Cancelling(tt[s].down)
  <1>. DEFINE m == [t |-> "cancel"]
              ss == Sent(sess, s, m)
              tt == Marked(ss, s)
  <1>1. m \in DownMessage /\ m.t = "cancel" /\ sess[s].down \in Seq(DownMessage)
    BY MessageTyping DEF Sessions, Session
  <1>. HIDE DEF m
  <1>2. /\ \A t \in Conn : /\ ss[t].node = sess[t].node /\ ss[t].hub = sess[t].hub
                           /\ ss[t].cancelled = sess[t].cancelled
                           /\ ss[t].down = sess[t].down \/ t = s
        /\ s = cur => ss[s].down = Append(sess[s].down, m)
    BY <1>1, SentFields DEF IsOpen
  <1>3. ss \in Sessions
    BY <1>1, SocketTyping
  <1>. HIDE DEF ss
  <1>4. \A t \in Conn : /\ tt[t].node = ss[t].node /\ tt[t].hub = ss[t].hub /\ tt[t].down = ss[t].down
                        /\ t # s => tt[t].cancelled = ss[t].cancelled
    BY <1>3, MarkedFields
  <1>5. s = cur => RunsCancelled(ss[s].down) /\ Cancelling(ss[s].down)
    BY <1>1, <1>2, DownAppend
  <1>6. /\ \A t \in Conn : /\ tt[t].node = sess[t].node /\ tt[t].hub = sess[t].hub
                           /\ t # s => tt[t].cancelled = sess[t].cancelled /\ tt[t].down = sess[t].down
        /\ s = cur => RunsCancelled(tt[s].down) /\ Cancelling(tt[s].down)
    BY <1>2, <1>4, <1>5
  <1>. QED
    BY <1>6 DEF m, ss

\* A dispatch that sends a cancel notes it with the flag set, and nothing handed over.
LEMMA DispatchCancelKeeps ==
  ASSUME CancelInv, TypeInv', NEW n \in AppNode, DispatchCancel(n)
  PROVE  NodesOK' /\ MarksOK' /\ CancelOK'
  <1>. DEFINE s == reg[n]
              tt == Marked(Sent(sess, s, [t |-> "cancel"]), s)
  <1>0. /\ TypeInv /\ NodesOK /\ MarksOK /\ CancelOK
        /\ sess \in Sessions /\ cur \in Conn \cup {0} /\ s \in Conn /\ IsOpen(s) /\ sess[s].node = n
        /\ row.abort_requested = TRUE /\ hand[n].pc = "idle" /\ sess' = tt
        /\ UNCHANGED <<row, hand, reg, follower, cur, rte, hist, events>>
    BY DEF CancelInv, NodesOK, TypeInv, TypeOK, Sessions, Row, DispatchCancel, CanRun, IsOpen, HandingOver,
           NoEvent, dbVars, appVars
  <1>1. /\ \A t \in Conn : /\ tt[t].node = sess[t].node /\ tt[t].hub = sess[t].hub
                           /\ t # s => tt[t].cancelled = sess[t].cancelled /\ tt[t].down = sess[t].down
        /\ s = cur => RunsCancelled(tt[s].down) /\ Cancelling(tt[s].down)
    BY <1>0, NotedFields
  <1>. HIDE DEF s, tt
  <1>2. /\ "abort" \in events' /\ row'.abort_requested = TRUE /\ hand' = hand
        /\ sess'[s].node = n
    BY <1>0, <1>1 DEF MarksOK
  <1>3. Noted(s)'
    <2>1. \A x \in AppNode : sess'[s].node = x => hand'[x].pc = "idle"
      BY <1>0, <1>2
    <2>2. s' = s
      BY <1>0 DEF s
    <2>. QED
      BY <1>2, <2>1, <2>2 DEF Noted
  <1>4. s' = s
    BY <1>0 DEF s
  <1>5. \A t \in Conn :
       /\ sess[t].hub # "none" => sess'[t].hub # "none" /\ sess'[t].node = sess[t].node
       /\ sess'[t].cancelled = TRUE => Noted(t)' \/ (sess[t].cancelled = TRUE /\ sess'[t].node = sess[t].node)
    <2>. SUFFICES ASSUME NEW t \in Conn
                  PROVE  /\ sess[t].hub # "none" => sess'[t].hub # "none" /\ sess'[t].node = sess[t].node
                         /\ sess'[t].cancelled = TRUE => Noted(t)' \/ (sess[t].cancelled = TRUE /\ sess'[t].node = sess[t].node)
      OBVIOUS
    <2>1. CASE t = s
      <3>1. Noted(t)'
        BY <1>2, <1>0, <2>1 DEF Noted
      <3>. QED
        BY <1>0, <1>1, <3>1
    <2>2. CASE t # s
      BY <1>0, <1>1, <2>2
    <2>. QED
      BY <2>1, <2>2
  <1>6. Steady
    BY <1>0, <1>5 DEF Steady, MarksOK
  <1>7. CancelOK'
    BY <1>0, <1>1 DEF CancelOK
  <1>. QED
    BY <1>0, <1>6, <1>7, SteadyKeeps

\* An operator's abort notes only a cancel that was sent, or that its launch comes after.
LEMMA RequestAbortKeeps ==
  ASSUME CancelInv, TypeInv', NEW n \in AppNode, RequestAbort(n)
  PROVE  NodesOK' /\ MarksOK' /\ CancelOK'
  <1>. DEFINE s == reg[n]
              m == [t |-> "cancel"]
              ss == Sent(sess, s, m)
              tt == Marked(ss, s)
  <1>0. /\ TypeInv /\ NodesOK /\ MarksOK /\ CancelOK
        /\ sess \in Sessions /\ cur \in Conn \cup {0} /\ s \in Conn \cup {0} /\ row \in Row
        /\ m \in DownMessage /\ m.t = "cancel" /\ m.t # "run"
        /\ hist \in [runs : Nat, written : SUBSET [run : Nat, order : Nat], soon : BOOLEAN]
    BY MessageTyping DEF CancelInv, TypeInv, TypeOK, Sessions
  <1>1. /\ "abort" \notin events /\ "abort" \in events' /\ row.status = "running"
        /\ row' = RequestAbortRow(row) /\ hist' = [hist EXCEPT !.soon = (follower = "launches")]
        /\ UNCHANGED <<hand, reg, follower, cur, rte>>
        /\ \/ sess' = sess
           \/ sess' = ss
           \/ IsOpen(s) /\ ~HandingOver(n) /\ sess' = tt
    BY DEF RequestAbort, Happens, appVars
  <1>2. \A t \in Conn : sess[t].cancelled # TRUE
    BY <1>0, <1>1 DEF MarksOK
  <1>3. row'.status = "running" /\ row'.abort_requested = TRUE
    BY <1>0, <1>1 DEF RequestAbortRow, UnderWay, Row
  <1>4. hist'.soon = (follower = "launches")
    BY <1>0, <1>1
  <1>. HIDE DEF m
  <1>5. \A t \in Conn :
          /\ sess'[t].node = sess[t].node /\ sess'[t].hub = sess[t].hub
          /\ sess'[t].cancelled = TRUE =>
               /\ t = s /\ hand[n].pc = "idle"
               /\ s = cur => RunsCancelled(sess'[t].down) /\ Cancelling(sess'[t].down)
    <2>1. CASE sess' = sess
      BY <1>2, <2>1
    <2>2. CASE sess' = ss
      <3>1. \A t \in Conn : /\ ss[t].node = sess[t].node /\ ss[t].hub = sess[t].hub
                            /\ ss[t].cancelled = sess[t].cancelled
        BY <1>0, SentFields, SMTT(30)
      <3>. HIDE DEF ss
      <3>. QED
        BY <1>2, <2>2, <3>1
    <2>3. CASE IsOpen(s) /\ ~HandingOver(n) /\ sess' = tt
      <3>1. s \in Conn /\ hand[n].pc = "idle"
        BY <1>0, <2>3 DEF IsOpen, HandingOver
      <3>2. /\ \A t \in Conn : /\ tt[t].node = sess[t].node /\ tt[t].hub = sess[t].hub
                               /\ t # s => tt[t].cancelled = sess[t].cancelled /\ tt[t].down = sess[t].down
            /\ s = cur => RunsCancelled(tt[s].down) /\ Cancelling(tt[s].down)
        BY <1>0, <2>3, <3>1, NotedFields DEF m
      <3>. HIDE DEF s, tt
      <3>. QED
        BY <1>2, <2>3, <3>1, <3>2
    <2>. QED
      BY <1>1, <2>1, <2>2, <2>3
  <1>6. NodesOK'
    <2>1. \A x \in AppNode : hand[x].s \in Conn \cup {0} /\ reg[x] \in Conn \cup {0}
      BY <1>0 DEF TypeInv, TypeOK, Hand
    <2>. QED
      BY <1>0, <1>1, <1>5, <2>1 DEF NodesOK
  <1>7. MarksOK'
    <2>1. ASSUME NEW t \in Conn, sess'[t].cancelled = TRUE, NEW x \in AppNode, sess'[t].node = x
          PROVE  hand'[x].pc = "idle"
      <3>1. t = s /\ hand[n].pc = "idle" /\ sess[t].node = x
        BY <1>5, <2>1
      <3>2. sess[s].node = n
        <4>1. s # 0
          BY <3>1 DEF Conn
        <4>. QED
          BY <1>0, <4>1 DEF NodesOK
      <3>. QED
        BY <1>1, <3>1, <3>2
    <2>2. rte'.running = TRUE => rte'.known = TRUE
      BY <1>0, <1>1 DEF MarksOK
    <2>. QED
      BY <1>1, <1>3, <1>4, <2>1, <2>2 DEF MarksOK
  <1>8. CancelOK'
    <2>. SUFFICES ASSUME cur' # 0, sess'[cur'].cancelled = TRUE
                  PROVE  /\ RunsCancelled(sess'[cur'].down)
                         /\ Cancelling(sess'[cur'].down)
      BY DEF CancelOK
    <2>1. cur' = cur /\ cur \in Conn
      BY <1>0, <1>1
    <2>. QED
      BY <1>5, <2>1
  <1>. QED
    BY <1>6, <1>7, <1>8

\* A new socket has no cancel noted.
LEMMA DialsKeep ==
  ASSUME CancelInv, TypeInv', NEW n \in AppNode, RteDials(n)
  PROVE  NodesOK' /\ MarksOK' /\ CancelOK'
  <1>0. /\ TypeInv /\ NodesOK /\ MarksOK /\ CancelOK
        /\ sess \in Sessions /\ reg[n] \in Conn \cup {0}
    BY DEF CancelInv, TypeInv, TypeOK, Sessions
  <1>. DEFINE new == [UnusedSession EXCEPT !.node = n, !.hub = "hello", !.knew = rte.known]
              ss == Closing(sess, reg[n])
  <1>1. PICK s \in Conn : /\ sess[s].hub = "none" /\ sess' = [ss EXCEPT ![s] = new]
                          /\ reg' = [reg EXCEPT ![n] = s] /\ cur' = s
                          /\ UNCHANGED <<row, hand, follower, rte, hist, events>>
    BY DEF RteDials, UsedConn, NoEvent, dbVars
  <1>2. new.node = n /\ new.hub = "hello" /\ new.cancelled = FALSE
    BY DEF UnusedSession
  <1>3. /\ ss \in Sessions
        /\ \A t \in Conn : /\ ss[t].node = sess[t].node /\ ss[t].cancelled = sess[t].cancelled
                           /\ sess[t].hub # "none" => ss[t].hub # "none"
    BY <1>0, ClosingFields, SocketTyping
  <1>. HIDE DEF new, ss
  <1>4. \A t \in Conn : sess'[t] = IF t = s THEN new ELSE ss[t]
    BY <1>1, <1>3 DEF Sessions
  <1>5. \A x \in AppNode : reg'[x] = reg[x] \/ (x = n /\ reg'[x] = s)
    BY <1>0, <1>1 DEF TypeInv, TypeOK
  <1>6. Steady
    BY <1>0, <1>1, <1>2, <1>3, <1>4, <1>5 DEF Steady, MarksOK
  <1>7. CancelOK'
    BY <1>1, <1>2, <1>4 DEF CancelOK
  <1>. QED
    BY <1>0, <1>6, <1>7, SteadyKeeps

\* The job on the RTE, and the messages on their way to it : aborted, or about to be.
Heard(e, q) ==
  RunsCancelled(q) /\ (e.running = TRUE => e.abort = TRUE \/ Cancelling(q))

\* A step of the RTE that hears each cancel on its way keeps each noted cancel true.
LEMMA RteKeepsBy ==
  ASSUME CancelInv, UNCHANGED <<row, hand, reg, follower>>, EventsOn, hist'.soon = hist.soon,
         \A t \in Conn : /\ sess'[t].node = sess[t].node /\ sess'[t].hub = sess[t].hub
                         /\ sess'[t].cancelled = sess[t].cancelled,
         rte'.running = TRUE => rte'.known = TRUE,
         \/ cur' = 0
         \/ cur' = cur /\ (cur # 0 /\ Heard(rte, sess[cur].down) => Heard(rte', sess'[cur].down))
  PROVE  NodesOK' /\ MarksOK' /\ CancelOK'
  <1>0. TypeInv /\ NodesOK /\ MarksOK /\ CancelOK /\ cur \in Conn \cup {0}
    BY DEF CancelInv, TypeInv, TypeOK
  <1>1. Steady
    BY DEF Steady, EventsOn
  <1>2. CancelOK'
    <2>. SUFFICES ASSUME hist'.soon # TRUE, cur' # 0, sess'[cur'].cancelled = TRUE
                  PROVE  Heard(rte', sess'[cur'].down)
      BY DEF CancelOK, Heard
    <2>1. cur \in Conn /\ cur' = cur /\ hist.soon # TRUE /\ sess[cur].cancelled = TRUE
      BY <1>0
    <2>2. Heard(rte, sess[cur].down)
      BY <1>0, <2>1 DEF CancelOK, Heard
    <2>. QED
      BY <2>1, <2>2
  <1>. QED
    BY <1>0, <1>1, <1>2, SteadyKeeps

\* A message read that is no cancel and no hand-over changes nothing of that.
LEMMA HeardTail ==
  ASSUME NEW q \in Seq(DownMessage), q # <<>>, NEW e, NEW f
  PROVE  /\ Heard(e, q) /\ Head(q).t # "cancel" /\ f.running = e.running /\ f.abort = e.abort => Heard(f, Tail(q))
         /\ Heard(e, q) /\ Head(q).t = "run" => Heard(f, Tail(q))
         /\ Heard(e, q) /\ (f.running = TRUE => f.abort = TRUE) => Heard(f, Tail(q))
  BY DownTail DEF Heard

\* The RTE hears each cancel on its way: it aborts the run it has, and a run it takes before its
\* cancel is aborted by it.
LEMMA RteCancelKeeps ==
  ASSUME CancelInv, NumbersOK, RteStep
  PROVE  NodesOK' /\ MarksOK' /\ CancelOK'
  <1>0. /\ sess \in Sessions /\ rte \in Entry /\ cur \in Conn \cup {0} /\ hist.runs \in Nat
        /\ rte.acked <= Len(rte.items) /\ rte.next <= Len(rte.items) + 1
        /\ hist \in [runs : Nat, written : SUBSET [run : Nat, order : Nat], soon : BOOLEAN]
        /\ TypeInv /\ (rte.running = TRUE => rte.known = TRUE)
        /\ \A t \in Conn : sess[t].down \in Seq(DownMessage)
    BY LenProperties DEF CancelInv, TypeInv, TypeOK, Sessions, Session, NumbersOK, Entry, MarksOK
  <1>1. UNCHANGED <<row, hand, reg, follower>> /\ EventsOn
    <2>1. UNCHANGED <<row, hand, reg, follower>>
      BY DEF RteStep, OnWelcome, OnRun, OnCancel, ExpireCancel, OnAck, Started, Write, RunEnds, StartFails,
             RteRestarts, RteLosesSocket, RteReads, dbVars, appVars
    <2>2. EventsOn
      BY EventsStay DEF RteStep, OnWelcome, OnRun, OnCancel, ExpireCancel, OnAck, Started, Write, RunEnds,
             StartFails, RteRestarts, RteLosesSocket
    <2>. QED
      BY <2>1, <2>2
  <1>2. CASE Started \/ Write \/ RunEnds \/ StartFails
    <2>1. PICK e, it : Spools(e, it)
      BY <1>0, <1>2, SpoolSteps
    <2>2. /\ e \in Entry /\ RteSends(sess, e, <<>>) /\ cur' = cur /\ hist'.soon = hist.soon
          /\ e.known = rte.known /\ rte.running = TRUE /\ (e.running = TRUE => e.abort = rte.abort)
      BY <2>1 DEF Spools
    <2>3. /\ \A s \in Conn : /\ sess'[s].down = sess[s].down /\ sess'[s].hub = sess[s].hub
                             /\ sess'[s].node = sess[s].node /\ sess'[s].cancelled = sess[s].cancelled
          /\ rte'.running = e.running /\ rte'.known = e.known /\ rte'.abort = e.abort
      BY <1>0, <2>2, SendsAdds
    <2>. QED
      BY <1>0, <1>1, <2>2, <2>3, RteKeepsBy DEF Heard
  <1>3. CASE OnWelcome
    <2>. DEFINE w == [rte EXCEPT !.welcomed = TRUE]
                next == rte.acked + 1
                e == Rewound(w)
    <2>1. /\ w \in Entry /\ w.acked = rte.acked
      BY <1>0 DEF Entry
    <2>2. e = [rte EXCEPT !.welcomed = TRUE, !.next = next] /\ next \in Nat \ {0}
      BY <1>0, <2>1 DEF Rewound, Entry
    <2>3. /\ cur \in Conn /\ cur # 0 /\ sess[cur].down # <<>> /\ RteSends(Read(cur), e, <<>>)
          /\ Head(sess[cur].down).t = "welcome" /\ UNCHANGED <<cur, hist>>
      BY <1>0, <1>3 DEF OnWelcome, Told, RteReads
    <2>. HIDE DEF e, next
    <2>5. /\ e \in Entry /\ e.running = rte.running /\ e.known = rte.known /\ e.abort = rte.abort
      BY <1>0, <2>2 DEF Entry
    <2>. DEFINE rd == Read(cur)
    <2>6. rd \in Sessions /\ \A t \in Conn : /\ rd[t].hub = sess[t].hub /\ rd[t].node = sess[t].node
                                             /\ rd[t].cancelled = sess[t].cancelled
                                             /\ rd[t].down = IF t = cur THEN Tail(sess[cur].down) ELSE sess[t].down
      BY <1>0, <2>3, ReadFields
    <2>7. RteSends(rd, e, <<>>)
      BY <2>3
    <2>. HIDE DEF rd
    <2>8. /\ \A s \in Conn : /\ sess'[s].down = rd[s].down /\ sess'[s].hub = rd[s].hub
                             /\ sess'[s].node = rd[s].node /\ sess'[s].cancelled = rd[s].cancelled
          /\ rte'.running = e.running /\ rte'.known = e.known /\ rte'.abort = e.abort
      BY <1>0, <2>5, <2>6, <2>7, SendsAdds
    <2>9. Heard(rte, sess[cur].down) => Heard(rte', sess'[cur].down)
      <3>1. /\ sess'[cur].down = Tail(sess[cur].down) /\ sess[cur].down \in Seq(DownMessage)
            /\ rte'.running = rte.running /\ rte'.abort = rte.abort /\ Head(sess[cur].down).t # "cancel"
        BY <1>0, <2>3, <2>5, <2>6, <2>8
      <3>. QED
        BY <2>3, <3>1, HeardTail
    <2>10. \A t \in Conn : /\ sess'[t].node = sess[t].node /\ sess'[t].hub = sess[t].hub
                           /\ sess'[t].cancelled = sess[t].cancelled
      BY <2>6, <2>8
    <2>. QED
      BY <1>0, <1>1, <2>3, <2>5, <2>8, <2>9, <2>10, RteKeepsBy
  <1>4. CASE OnAck
    <2>1. /\ cur \in Conn /\ cur # 0 /\ sess[cur].down # <<>> /\ Head(sess[cur].down).t = "ack"
          /\ UNCHANGED <<cur, hist>>
      BY <1>0, <1>4 DEF OnAck, Told, RteReads
    <2>2. Head(sess[cur].down).seq \in Nat
      BY <1>0, <2>1, ReadTyping, MessageTyping
    <2>. DEFINE e == AckedTo(rte, Head(sess[cur].down).seq)
    <2>3. /\ e \in Entry /\ e.running = rte.running /\ e.known = rte.known /\ e.abort = rte.abort
      BY <1>0, <2>2, AckedFields
    <2>4. \/ rte' = rte /\ sess' = Read(cur)
          \/ rte' = Removed(e) /\ sess' = Read(cur) /\ e.running # TRUE
          \/ RteSends(Read(cur), e, <<>>)
      BY <1>4 DEF OnAck
    <2>. HIDE DEF e
    <2>5. Removed(e).running = FALSE
      BY DEF Removed, NoEntry
    <2>. DEFINE rd == Read(cur)
    <2>6. rd \in Sessions /\ \A t \in Conn : /\ rd[t].hub = sess[t].hub /\ rd[t].node = sess[t].node
                                             /\ rd[t].cancelled = sess[t].cancelled
                                             /\ rd[t].down = IF t = cur THEN Tail(sess[cur].down) ELSE sess[t].down
      BY <1>0, <2>1, ReadFields
    <2>7. \/ sess' = rd /\ rte'.running \in {FALSE, rte.running} /\ rte' \in {rte, Removed(e)}
          \/ RteSends(rd, e, <<>>)
      BY <2>4, <2>5
    <2>. HIDE DEF rd
    <2>8. /\ \A s \in Conn : /\ sess'[s].down = rd[s].down /\ sess'[s].hub = rd[s].hub
                             /\ sess'[s].node = rd[s].node /\ sess'[s].cancelled = rd[s].cancelled
          /\ \/ rte'.running = FALSE
             \/ rte'.running = rte.running /\ rte'.known = rte.known /\ rte'.abort = rte.abort
      <3>1. CASE sess' = rd /\ rte' \in {rte, Removed(e)}
        BY <2>5, <3>1
      <3>2. CASE RteSends(rd, e, <<>>)
        BY <1>0, <2>3, <2>6, <3>2, SendsAdds
      <3>. QED
        BY <2>7, <3>1, <3>2
    <2>9. Heard(rte, sess[cur].down) => Heard(rte', sess'[cur].down)
      <3>1. /\ sess'[cur].down = Tail(sess[cur].down) /\ sess[cur].down \in Seq(DownMessage)
            /\ Head(sess[cur].down).t # "cancel"
        BY <1>0, <2>1, <2>6, <2>8
      <3>2. CASE rte'.running = FALSE
        BY <2>1, <3>1, <3>2, HeardTail
      <3>3. CASE rte'.running = rte.running /\ rte'.abort = rte.abort
        BY <2>1, <3>1, <3>3, HeardTail
      <3>. QED
        BY <2>8, <3>2, <3>3
    <2>10. \A t \in Conn : /\ sess'[t].node = sess[t].node /\ sess'[t].hub = sess[t].hub
                           /\ sess'[t].cancelled = sess[t].cancelled
      BY <2>6, <2>8
    <2>. QED
      BY <1>0, <1>1, <2>1, <2>8, <2>9, <2>10, RteKeepsBy
  <1>5. CASE OnRun
    <2>1. /\ cur \in Conn /\ cur # 0 /\ sess[cur].down # <<>> /\ Head(sess[cur].down).t = "run" /\ cur' = cur
      BY <1>0, <1>5 DEF OnRun, Told, RteReads
    <2>2. PICK u :
            /\ \/ rte' = rte /\ hist' = hist
               \/ /\ rte' = Taken(rte, Head(sess[cur].down).last)
                  /\ hist' = [hist EXCEPT !.runs = @ + 1, !.written = {}]
            /\ sess' = [Read(cur) EXCEPT ![cur].up = u]
      <3>1. PICK t \in {"claimed", "busy", "unfit"} :
              /\ \/ rte' = rte /\ hist' = hist
                 \/ /\ rte' = Taken(rte, Head(sess[cur].down).last)
                    /\ hist' = [hist EXCEPT !.runs = @ + 1, !.written = {}]
              /\ sess' = [Read(cur) EXCEPT ![cur].up =
                            IF sess[cur].hub = "closed" THEN @ ELSE Append(@, [t |-> t])]
        BY <1>5 DEF OnRun
      <3>. QED
        BY <3>1
    <2>. DEFINE rd == Read(cur)
    <2>6. rd \in Sessions /\ \A t \in Conn : /\ rd[t].hub = sess[t].hub /\ rd[t].node = sess[t].node
                                             /\ rd[t].cancelled = sess[t].cancelled
                                             /\ rd[t].down = IF t = cur THEN Tail(sess[cur].down) ELSE sess[t].down
      BY <1>0, <2>1, ReadFields
    <2>7. sess' = [rd EXCEPT ![cur].up = u]
      BY <2>2
    <2>. HIDE DEF rd
    <2>8. \A s \in Conn : /\ sess'[s].down = rd[s].down /\ sess'[s].hub = rd[s].hub
                          /\ sess'[s].node = rd[s].node /\ sess'[s].cancelled = rd[s].cancelled
      BY <2>1, <2>6, <2>7 DEF Sessions, Session
    <2>9. Heard(rte, sess[cur].down) => Heard(rte', sess'[cur].down)
      BY <1>0, <2>1, <2>6, <2>8, HeardTail, ZenonT(30)
    <2>10. \A t \in Conn : /\ sess'[t].node = sess[t].node /\ sess'[t].hub = sess[t].hub
                           /\ sess'[t].cancelled = sess[t].cancelled
      BY <2>6, <2>8
    <2>11. hist'.soon = hist.soon
      <3>. DEFINE runs == hist.runs + 1
      <3>1. hist' = hist \/ hist' = [hist EXCEPT !.runs = runs, !.written = {}]
        BY <2>2
      <3>. HIDE DEF runs
      <3>. QED
        BY <1>0, <3>1
    <2>12. rte'.running = TRUE => rte'.known = TRUE
      BY <1>0, <2>2 DEF Taken, Entry
    <2>. QED
      BY <1>1, <2>1, <2>9, <2>10, <2>11, <2>12, RteKeepsBy
  <1>6. CASE OnCancel
    <2>1. /\ cur \in Conn /\ cur # 0 /\ sess[cur].down # <<>> /\ sess' = Read(cur) /\ UNCHANGED <<cur, hist>>
      BY <1>0, <1>6 DEF OnCancel, Told, RteReads
    <2>2. /\ rte' = rte \/ rte' = [rte EXCEPT !.early = TRUE] \/ rte' = [rte EXCEPT !.abort = TRUE]
          /\ rte.known = TRUE /\ rte.running = TRUE => rte' = [rte EXCEPT !.abort = TRUE]
      BY <1>6 DEF OnCancel
    <2>3. /\ rte'.running = rte.running /\ rte'.known = rte.known
          /\ rte.running = TRUE => rte'.abort = TRUE
      BY <1>0, <2>2 DEF Entry
    <2>4. \A t \in Conn : /\ sess'[t].node = sess[t].node /\ sess'[t].hub = sess[t].hub
                          /\ sess'[t].cancelled = sess[t].cancelled
                          /\ sess'[t].down = IF t = cur THEN Tail(sess[cur].down) ELSE sess[t].down
      BY <1>0, <2>1, ReadFields
    <2>5. Heard(rte, sess[cur].down) => Heard(rte', sess'[cur].down)
      BY <1>0, <2>1, <2>3, <2>4, HeardTail
    <2>. QED
      BY <1>0, <1>1, <2>1, <2>3, <2>4, <2>5, RteKeepsBy
  <1>7. CASE ExpireCancel
    <2>1. UNCHANGED <<cur, hist, sess>> /\ rte' = [rte EXCEPT !.early = FALSE]
      BY <1>7 DEF ExpireCancel, RteReads
    <2>2. rte'.running = rte.running /\ rte'.known = rte.known /\ rte'.abort = rte.abort
      BY <1>0, <2>1 DEF Entry
    <2>. QED
      BY <1>0, <1>1, <2>1, <2>2, RteKeepsBy DEF Heard
  <1>8. CASE RteRestarts \/ RteLosesSocket
    <2>1. /\ UNCHANGED hist /\ cur' = 0
          /\ sess' = sess \/ (cur # 0 /\ sess' = [sess EXCEPT ![cur].down = <<>>])
      BY <1>8 DEF RteRestarts, RteLosesSocket
    <2>. DEFINE none == <<>>
    <2>2. sess' = sess \/ (cur # 0 /\ sess' = [sess EXCEPT ![cur].down = none])
      BY <2>1
    <2>. HIDE DEF none
    <2>3. \A t \in Conn : /\ sess'[t].node = sess[t].node /\ sess'[t].hub = sess[t].hub
                          /\ sess'[t].cancelled = sess[t].cancelled
      <3>1. CASE sess' = [sess EXCEPT ![cur].down = none]
        BY <1>0, <3>1 DEF Sessions, Session
      <3>. QED
        BY <2>2, <3>1
    <2>4. rte' \in {[rte EXCEPT !.welcomed = FALSE], Reloaded(rte), NoEntry}
      BY <1>8 DEF RteRestarts, RteLosesSocket
    <2>5. rte'.running = TRUE => rte'.known = TRUE
      <3>1. Reloaded(rte).running = FALSE /\ NoEntry.running = FALSE
        BY <1>0, ReloadedFields DEF NoEntry
      <3>2. [rte EXCEPT !.welcomed = FALSE].running = rte.running /\ [rte EXCEPT !.welcomed = FALSE].known = rte.known
        BY <1>0 DEF Entry
      <3>. QED
        BY <1>0, <2>4, <3>1, <3>2
    <2>. QED
      BY <1>1, <2>1, <2>3, <2>5, RteKeepsBy
  <1>. QED
    BY <1>2, <1>3, <1>4, <1>5, <1>6, <1>7, <1>8 DEF RteStep

\* No cancel is noted at the start.
LEMMA CancelInit == Init => CancelInv
  <1>. SUFFICES ASSUME Init PROVE CancelInv
    OBVIOUS
  <1>1. TypeInv
    BY RteInitTyping
  <1>2. /\ \A n \in AppNode : hand[n].s = 0 /\ reg[n] = 0
        /\ \A s \in Conn : sess[s].cancelled = FALSE
        /\ row.abort_requested = FALSE /\ events = {} /\ cur = 0 /\ rte.running = FALSE
    BY DEF Init, AbsentRow, UnusedSession, IdleHand, NoEntry
  <1>3. NodesOK /\ MarksOK /\ CancelOK
    BY <1>2 DEF NodesOK, MarksOK, CancelOK
  <1>. QED
    BY <1>1, <1>3 DEF CancelInv

\* No step makes a noted cancel untrue.
LEMMA CancelNext == StructInv /\ CancelInv /\ [Next]_vars => CancelInv'
  <1>. SUFFICES ASSUME StructInv, CancelInv, [Next]_vars PROVE CancelInv'
    OBVIOUS
  <1>1. TypeInv' /\ TypeInv /\ NodesOK /\ MarksOK /\ CancelOK /\ NumbersOK
    BY StructNext DEF StructInv, CancelInv
  <1>2. ASSUME Calm PROVE NodesOK' /\ MarksOK' /\ CancelOK'
    BY <1>1, <1>2, CalmKeeps, SteadyKeeps DEF Calm
  <1>3. CASE UNCHANGED vars
    BY <1>1, <1>2, <1>3, OtherCalm DEF CancelInv
  <1>4. CASE Next
    <2>1. CASE TrackSocket \/ Away
      BY <1>1, <1>2, <2>1, OtherCalm DEF CancelInv
    <2>2. CASE RteStep
      BY <1>1, <2>2, RteCancelKeeps DEF CancelInv
    <2>3. ASSUME NEW s \in Conn, Hub(s) PROVE CancelInv'
      BY <1>1, <1>2, <2>3, HubCalm, ReadsCalm DEF Hub, CancelInv
    <2>4. ASSUME NEW n \in AppNode, App(n) \/ RteDials(n) PROVE CancelInv'
      BY <1>1, <1>2, <2>4, AppCalm, HandOverKeeps, RequestAbortKeeps, DispatchCancelKeeps, DialsKeep
         DEF App, CancelInv
    <2>. QED
      BY <1>4, <2>1, <2>2, <2>3, <2>4 DEF Next
  <1>. QED
    BY <1>3, <1>4

\* A cancel that a node noted as sent on the RTE's socket has reached the playbook, or is on its way.
THEOREM CancelMarkTrueAlways == Spec => []CancelMarkTrue
  <1>1. CancelInv => CancelMarkTrue
    <2>. SUFFICES ASSUME CancelInv, cur # 0, sess[cur].cancelled, rte.running, ~hist.soon
                  PROVE  rte.abort \/ CancelOnItsWay
      BY DEF CancelMarkTrue
    <2>1. /\ sess[cur].cancelled = TRUE /\ rte.running = TRUE /\ hist.soon # TRUE
      BY DEF CancelInv, TypeInv, TypeOK, Session, Entry
    <2>2. rte.abort = TRUE \/ Cancelling(sess[cur].down)
      BY <2>1 DEF CancelInv, CancelOK
    <2>. QED
      BY <2>2 DEF Cancelling, CancelOnItsWay
  <1>2. StructInv /\ CancelInv /\ [Next]_vars => (StructInv /\ CancelInv)'
    BY StructNext, CancelNext
  <1>. QED
    BY <1>1, <1>2, StructInit, CancelInit, PTL DEF Spec

\* Every variable of the app, the sockets and the RTE holds what the code may put there.
THEOREM RteTypeCorrect == Spec => []TypeOK
  <1>1. StructInv => TypeOK
    BY DEF StructInv, TypeInv
  <1>. QED
    BY <1>1, StructInit, StructNext, PTL DEF Spec
=============================================================================

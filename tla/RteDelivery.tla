---------------------------- MODULE RteDelivery ----------------------------
(***************************************************************************)
(* A playbook job between the app and a remote engine (RTE): handed over   *)
(* through the app node that holds the RTE's socket, run there, reported   *)
(* item by item out of a spool on the RTE's disk, acknowledged, cancelled, *)
(* given up when the RTE comes back without it.                            *)
(*                                                                         *)
(* A socket has two ends that learn of its loss at different times: the    *)
(* RTE may have dialed another node while the first one still writes what  *)
(* it received, or still hands jobs to a socket that is gone. Each socket  *)
(* is a number, its messages are two queues. One job is followed: jobs     *)
(* share nothing but the sockets and the slots of the RTE, and a full RTE  *)
(* is a refusal like any other.                                            *)
(*                                                                         *)
(* A statement that decides something is a step, the ones around it that   *)
(* decide nothing go with it: an action of the hub or of a node that reads *)
(* first and writes later is two steps (Dispatch and what it found, a      *)
(* claim and its answer and its return), and so the steps of the others    *)
(* come in between.                                                        *)
(***************************************************************************)
EXTENDS JobRow, Integers, Sequences

CONSTANTS Rte,          \* the RTE, by its node id
          MaxConn,      \* the sockets it opens, all in all
          MaxOutput,    \* the output items of a run
          Window,       \* the items of a job that may be sent and not acked
          Exits,        \* how a playbook may end by itself
          EventSets     \* what an operator, the network or a clock may do besides, in one behaviour:
                        \* the events of one of these sets, each of them once

AllEvents == {"abort",    \* an operator aborts the job
              "drop",     \* the network drops a socket
              "restart",  \* the RTE restarts and finds its spool
              "replace",  \* the RTE comes back as a new container, without its spool
              "crash",    \* an app node stops
              "store",    \* an item cannot be stored
              "slow",     \* an answer takes over 30 s, a cancel waits over 60 s for its run
              "busy",     \* the RTE has no free slot, or stops
              "unfit",    \* the job cannot be prepared, or the RTE refuses it
              "tired",    \* a job waited RTE_QUEUE_MINUTES for a slot or a socket
              "away"}     \* the RTE was not heard of for RTE_QUEUE_MINUTES

ASSUME RteAssumption ==
  /\ Rte \in Node /\ MaxConn \in Nat /\ MaxOutput \in Nat /\ Window \in Nat \ {0}
  /\ Exits \subseteq {"success", "failed"} /\ EventSets \subseteq SUBSET AllEvents

AppNode == Node \ {Rte}
Conn == 1..MaxConn

VARIABLES
  row,      \* the job's row in the jobs table
  lines,    \* its rows in job_output, as [run, order], run 0 for the lines of the app itself
  seen,     \* whether the RTE's row in nodes is younger than RTE_QUEUE_MINUTES
  alive,    \* the app nodes that run
  sess,     \* [Conn -> Session] the sockets: what the hub knows of each, what is on its way
  reg,      \* [AppNode -> Conn or 0] rteHub.js sessions: the socket a node has of this runner
  hand,     \* [AppNode -> the hand-over under way] rteHub.js sending, claims
  ending,   \* the nodes whose dispatch read the unclaimed job's abort flag, and end it next
  follower, \* the loop of the launching node (runners/rte.js trackSocket)
  cur,      \* the RTE's socket, 0 when it has none
  rte,      \* what the RTE has of the job: its entry in jobs, its spool, its playbooks
  hist,     \* how often the playbook was started, what its last run wrote, whether an abort was
            \* asked before its launch came to kick, for the properties only
  events    \* the events that happened

appVars == <<reg, hand, ending, follower, alive>>
dbVars == <<row, lines, seen>>
vars == <<dbVars, appVars, sess, cur, rte, hist, events>>

Item == [kind : {"started", "output", "abandon"}, run : Nat, order : Nat, outcome : {"none"}]
        \cup [kind : {"end"}, run : Nat, order : Nat, outcome : Outcome]
Line(i) == [run |-> i.run, order |-> i.order]

UnusedSession == [node |-> NoNode, hub |-> "none", knew |-> FALSE, up |-> <<>>, down |-> <<>>,
                  cancelled |-> FALSE, failed |-> FALSE]

NoEntry == [known |-> FALSE, running |-> FALSE, spawned |-> FALSE, abort |-> FALSE,
            base |-> 0, wrote |-> 0, items |-> <<>>, acked |-> 0, next |-> 1,
            early |-> FALSE, welcomed |-> FALSE, procs |-> 0]

IdleHand == [pc |-> "idle", s |-> 0, res |-> "none", said |-> FALSE]

Init ==
  /\ row = AbsentRow("ansible") /\ lines = {} /\ seen = TRUE
  /\ alive = AppNode
  /\ sess = [s \in Conn |-> UnusedSession]
  /\ reg = [n \in AppNode |-> 0]
  /\ hand = [n \in AppNode |-> IdleHand]
  /\ ending = {} /\ follower = "launches"
  /\ cur = 0 /\ rte = NoEntry
  /\ hist = [runs |-> 0, written |-> {}, soon |-> FALSE]
  /\ events = {}

-----------------------------------------------------------------------------
(* The two ends of a socket                                                *)

Happens(kind) ==
  /\ kind \notin events /\ \E E \in EventSets : events \cup {kind} \subseteq E
  /\ events' = events \cup {kind}
NoEvent == UNCHANGED events

\* session.open, on the app's side : a session that was told to close sends nothing any more,
\* and still receives
IsOpen(s) == s # 0 /\ sess[s].hub \in {"hello", "welcomed", "ready"}
Receives(s) == IsOpen(s) \/ sess[s].hub = "closing"

\* canRun
CanRun(n) == IsOpen(reg[n])

\* session.send, on the app's side : nothing when it is not open, and to nobody when the RTE has
\* lost that socket
Sent(ss, s, m) == IF s # cur \/ ss[s].hub \in {"none", "closing", "closed"} THEN ss
                  ELSE [ss EXCEPT ![s].down = Append(@, m)]

\* Session.close : nothing is sent from here on ; the close event comes later
Closing(ss, s) ==
  IF s = 0 \/ ss[s].hub \in {"none", "closed"} THEN ss ELSE [ss EXCEPT ![s].hub = "closing"]

Received(s) == [sess EXCEPT ![s].up = Tail(@)]
Read(s) == [sess EXCEPT ![s].down = Tail(@)]
Says(s, t) == sess[s].up # <<>> /\ Head(sess[s].up).t = t
Told(t) == cur # 0 /\ sess[cur].down # <<>> /\ Head(sess[cur].down).t = t

\* JobSpool.append
Spooled(e, kind, run, order, outcome) ==
  [e EXCEPT !.items = Append(@, [kind |-> kind, run |-> run, order |-> order, outcome |-> outcome])]

SpoolEnded(e) == \E k \in 1..Len(e.items) : e.items[k].kind \in {"end", "abandon"}

Rewound_Nothing(e) == e
\* JobSpool.rewind : everything not acked goes again
Rewound(e) == [e EXCEPT !.next = e.acked + 1]

\* pump : what is not sent yet goes out, up to Window items past the last one acked
PumpTo(e) == IF e.acked + Window < Len(e.items) THEN e.acked + Window ELSE Len(e.items)
Pumps(e) == cur # 0 /\ e.welcomed /\ e.known /\ e.next <= PumpTo(e)

\* the RTE goes on with e and, on its socket in ss, sends the messages given and what pump
\* sends ; nobody reads a socket the hub closed
RteSends(ss, e, messages) ==
  LET pumped == IF ~Pumps(e) THEN <<>>
                ELSE [k \in 1..(PumpTo(e) - e.next + 1) |->
                        [t |-> "item", seq |-> e.next + k - 1, item |-> e.items[e.next + k - 1]]]
  IN /\ rte' = IF Pumps(e) THEN [e EXCEPT !.next = PumpTo(e) + 1] ELSE e
     /\ sess' = IF cur = 0 \/ ss[cur].hub = "closed" THEN ss
                ELSE [ss EXCEPT ![cur].up = @ \o messages \o pumped]

-----------------------------------------------------------------------------
(* A socket's life, on both sides                                          *)

UsedConn == {s \in Conn : sess[s].hub # "none"}

\* dialOut, attach, adopt and the hello : the newest socket of a runner replaces the one the node
\* had ; jobs may be handed over once the hello is read, which says the jobs the RTE has (a
\* socket lost before its hello is one never dialed)
RteDials(n) ==
  /\ cur = 0 /\ n \in alive
  /\ \E s \in Conn :
       /\ s \notin UsedConn /\ \A u \in Conn : u < s => u \in UsedConn
       /\ sess' = [Closing(sess, reg[n]) EXCEPT ![s] =
                     [UnusedSession EXCEPT !.node = n, !.hub = "hello", !.knew = rte.known]]
       /\ reg' = [reg EXCEPT ![n] = s]
       /\ cur' = s
  /\ UNCHANGED <<dbVars, hand, ending, follower, alive, rte, hist>> /\ NoEvent

\* current() : still the runner's socket of this node, and open
Current(s) == IsOpen(s) /\ reg[sess[s].node] = s

\* abandonJobs : only running, the abort answered, no RTE on it
AbandonJobs(r) == IF r.status = "running" THEN [AbandonedRow(r) EXCEPT !.host = NoNode] ELSE r

\* forgetJob : the cancels this node sent
Forgotten(ss, n) == [s \in Conn |-> IF ss[s].node = n THEN [ss[s] EXCEPT !.cancelled = FALSE] ELSE ss[s]]

Lost(s) == row.status = "running" /\ row.host = Rte /\ ~sess[s].knew

\* the lease taken, the RTE welcomed
Welcome(s) ==
  /\ sess[s].hub = "hello" /\ Current(s)
  /\ sess' = Sent([sess EXCEPT ![s].hub = "welcomed"], s, [t |-> "welcome"])
  /\ UNCHANGED <<dbVars, appVars, cur, rte, hist>> /\ NoEvent

\* its heartbeat written for it ; abandonLost : the jobs it should be running and its hello did not
\* name
Settle(s) ==
  /\ sess[s].hub = "welcomed" /\ Current(s)
  /\ seen' = TRUE
  /\ row' = IF Lost(s) THEN AbandonJobs(row) ELSE row
  /\ sess' = LET ready == [sess EXCEPT ![s].hub = "ready", ![s].knew = FALSE]
             IN IF Lost(s) THEN Forgotten(ready, sess[s].node) ELSE ready
  /\ UNCHANGED <<lines, appVars, cur, rte, hist>> /\ NoEvent

\* the hub learns that a socket is gone : the RTE dialed again, or lost it, or the hub closed it,
\* or the network dropped it ; what it read already is still handled (writing), its claim
\* is answered lost, its cancels are forgotten
SessionCloses(s) ==
  /\ Receives(s)
  /\ IF cur # s \/ sess[s].hub = "closing" THEN NoEvent ELSE Happens("drop")
  /\ \E k \in 0..Len(sess[s].up) :
       sess' = [sess EXCEPT ![s].hub = "closed", ![s].cancelled = FALSE, ![s].knew = FALSE,
                            ![s].up = SubSeq(@, 1, k)]
  /\ reg' = [n \in AppNode |-> IF reg[n] = s THEN 0 ELSE reg[n]]
  /\ hand' = [n \in AppNode |-> IF hand[n].pc = "sent" /\ hand[n].s = s
                                THEN [hand[n] EXCEPT !.pc = "back", !.res = "lost"] ELSE hand[n]]
  /\ UNCHANGED <<dbVars, ending, follower, alive, cur, rte, hist>>

\* the RTE learns it : what was on its way to it is lost
RteLosesSocket ==
  /\ cur # 0
  /\ IF IsOpen(cur) THEN Happens("drop") ELSE NoEvent
  /\ sess' = [sess EXCEPT ![cur].down = <<>>]
  /\ cur' = 0 /\ rte' = [rte EXCEPT !.welcomed = FALSE]
  /\ UNCHANGED <<dbVars, appVars, hist>>

-----------------------------------------------------------------------------
(* Handing the job over, on the node that holds the socket                 *)

\* Job.lastOrder : the writers go on from the last line the database has
LastOrder ==
  LET orders == {l.order : l \in lines}
  IN IF lines = {} THEN 0 ELSE CHOOSE o \in orders : \A p \in orders : p <= o

\* printJobOutput, of a line of the app itself (the read of the last order goes with the write)
AppLine == lines \cup {[run |-> 0, order |-> LastOrder + 1]}

HandMoves(n, h) ==
  /\ hand' = [hand EXCEPT ![n] = h]
  /\ UNCHANGED <<seen, reg, ending, alive, cur, rte, hist>>
Sending(n) == [hand[n] EXCEPT !.pc = "send", !.s = reg[n]]
Waits(n) == [IdleHand EXCEPT !.said = hand[n].said]

\* from here on dispatch sees the job : its row, running, and its runner
Launch(n) ==
  /\ row.status = "absent" /\ n \in alive
  /\ row' = CreateRow(row, n)
  /\ UNCHANGED <<lines, seen, appVars, sess, cur, rte, hist>> /\ NoEvent

\* only once the run message is sent
HandingOver_Claims(n) == hand[n].pc = "sent"
\* handingOver : from sendJob on, until its claim is settled
HandingOver(n) == hand[n].pc # "idle"

\* launch : its first line, then kick : handed over at once when this node holds the socket
Announce(n) ==
  /\ follower = "launches" /\ row.tracker = n
  /\ lines' = AppLine /\ follower' = "polls"
  /\ HandMoves(n, IF CanRun(n) /\ ~HandingOver(n) THEN Sending(n) ELSE hand[n])
  /\ UNCHANGED <<row, sess>> /\ NoEvent

\* dispatch, its first loop : the jobs no RTE has, as the node read them
Dispatch(n) ==
  /\ CanRun(n)
  /\ row.status = "running" /\ row.host = NoNode
  /\ IF row.abort_requested
     THEN n \notin ending /\ ending' = ending \cup {n} /\ UNCHANGED hand
     ELSE /\ ~HandingOver(n)
          /\ hand' = [hand EXCEPT ![n] = Sending(n)]
          /\ UNCHANGED ending
  /\ UNCHANGED <<dbVars, reg, follower, alive, sess, cur, rte, hist>> /\ NoEvent

\* abortWhileWaiting : whoever has the job by now
AbortWhileWaiting(n) ==
  /\ n \in ending
  /\ row' = EndRow(row, "aborted")
  /\ lines' = IF row.status \in ENDS_FROM THEN AppLine ELSE lines
  /\ ending' = ending \ {n}
  /\ UNCHANGED <<seen, reg, hand, follower, alive, sess, cur, rte, hist>> /\ NoEvent

Free(r) == r.status = "running" /\ r.host = NoNode

\* a job that is not taken waits for the next round, which its output says once
NotTaken(n) == IF hand[n].said THEN Waits(n) ELSE [hand[n] EXCEPT !.pc = "say"]

\* handOver : a full RTE, as it last said, gets none, and the job waits or has waited too long ;
\* else claimed with one statement, so no second node sends it, then sent with the last order, from
\* which the playbook's lines count on ; a socket that is gone loses it, a job that cannot be
\* prepared fails
HandOver(n) ==
  /\ hand[n].pc = "send"
  /\ \/ /\ UNCHANGED <<row, sess>>
        /\ \/ ~Free(row) /\ HandMoves(n, IdleHand) /\ NoEvent
           \/ Happens("busy") /\ HandMoves(n, NotTaken(n))
           \/ Happens("tired") /\ HandMoves(n, [hand[n] EXCEPT !.pc = "failing"])
     \/ /\ Free(row) /\ row' = [row EXCEPT !.host = Rte]
        /\ \/ /\ sess' = Sent(sess, hand[n].s, [t |-> "run", last |-> LastOrder])
              /\ HandMoves(n, IF IsOpen(hand[n].s) THEN [hand[n] EXCEPT !.pc = "sent"]
                              ELSE [hand[n] EXCEPT !.pc = "back", !.res = "lost"])
              /\ NoEvent
           \/ Happens("unfit") /\ HandMoves(n, [hand[n] EXCEPT !.pc = "failing"]) /\ UNCHANGED sess
  /\ UNCHANGED <<lines, follower>>

\* sayWaitingForSlot
Say(n) ==
  /\ hand[n].pc = "say"
  /\ lines' = AppLine
  /\ HandMoves(n, [IdleHand EXCEPT !.said = TRUE])
  /\ UNCHANGED <<row, sess, follower>> /\ NoEvent

\* settleClaim, of the claim this very session was sent
Settled(s, n) == sess[s].node = n /\ hand[n].pc = "sent" /\ hand[n].s = s
OnClaimed(s) ==
  /\ sess[s].hub # "none" /\ Says(s, "claimed")
  /\ LET n == sess[s].node
     IN HandMoves(n, IF Settled(s, n) THEN IdleHand ELSE hand[n])
  /\ sess' = Received(s)
  /\ UNCHANGED <<row, lines, follower>> /\ NoEvent

OnRefused(s) ==
  /\ sess[s].hub # "none"
  /\ \E res \in {"busy", "unfit"} :
       /\ Says(s, res)
       /\ LET n == sess[s].node
          IN HandMoves(n, IF Settled(s, n) THEN [hand[n] EXCEPT !.pc = "back", !.res = res] ELSE hand[n])
  /\ sess' = Received(s)
  /\ UNCHANGED <<row, lines, follower>> /\ NoEvent

ClaimTimeout(n) ==
  /\ hand[n].pc = "sent" /\ Happens("slow")
  /\ HandMoves(n, [hand[n] EXCEPT !.pc = "back", !.res = "lost"])
  /\ UNCHANGED <<row, lines, sess, follower>>

\* not taken : the claim goes back ; it waits for the next round, or fails when it was refused
\* or waited too long
GiveBack(n) ==
  /\ hand[n].pc = "back"
  /\ row' = IF row.status = "running" /\ row.host = Rte THEN [row EXCEPT !.host = NoNode] ELSE row
  /\ \/ hand[n].res = "unfit" /\ HandMoves(n, [hand[n] EXCEPT !.pc = "failing"]) /\ NoEvent
     \/ hand[n].res # "unfit" /\ HandMoves(n, NotTaken(n)) /\ NoEvent
     \/ hand[n].res # "unfit" /\ HandMoves(n, [hand[n] EXCEPT !.pc = "failing"]) /\ Happens("tired")
  /\ UNCHANGED <<lines, sess, follower>>

\* failRteJob : only a job still running, with a line that says why
FailRow(r) == IF r.status = "running" THEN EndRow(r, "failed") ELSE r
Fails == row' = FailRow(row) /\ lines' = IF row.status = "running" THEN AppLine ELSE lines

FailJob(n) ==
  /\ hand[n].pc = "failing"
  /\ Fails
  /\ sess' = Forgotten(sess, n)
  /\ HandMoves(n, IdleHand)
  /\ UNCHANGED follower /\ NoEvent

\* trackSocket : no RTE took it for RTE_QUEUE_MINUTES, read one statement before it fails it
TrackSocket ==
  /\ \/ /\ follower = "polls" /\ row.status = "running" /\ row.host = NoNode
        /\ Happens("tired") /\ follower' = "tired" /\ UNCHANGED <<row, lines>>
     \/ /\ follower = "tired" /\ NoEvent
        /\ follower' = "gone" /\ Fails
  /\ UNCHANGED <<seen, reg, hand, ending, alive, sess, cur, rte, hist>>

-----------------------------------------------------------------------------
(* Aborts                                                                  *)

Marked(ss, s) == [ss EXCEPT ![s].cancelled = TRUE]

\* Job.requestAbort, cancelOnRunner : the flag, and the cancel from this node when it has the
\* socket, noted when this node is not handing the job over (a cancel that goes later is a flag set
\* later : only dispatch reads the flag, and sends the same cancel)
RequestAbort(n) ==
  /\ n \in alive /\ Happens("abort")
  /\ row.status = "running" /\ ~row.abort_requested
  /\ row' = RequestAbortRow(row)
  /\ LET s == reg[n]
         sent == Sent(sess, s, [t |-> "cancel"])
     IN sess' = IF ~IsOpen(s) THEN sess ELSE IF HandingOver(n) THEN sent ELSE Marked(sent, s)
  /\ hist' = [hist EXCEPT !.soon = (follower = "launches")]
  /\ UNCHANGED <<lines, seen, appVars, cur, rte>>

CancelSent(n) == \E s \in Conn : sess[s].node = n /\ sess[s].cancelled

\* dispatch, its second loop : the aborts of the jobs the RTE has
DispatchCancel(n) ==
  /\ CanRun(n) /\ ~CancelSent(n) /\ ~HandingOver(n)
  /\ row.status = "running" /\ row.abort_requested /\ row.host = Rte
  /\ sess' = Marked(Sent(sess, reg[n], [t |-> "cancel"]), reg[n])
  /\ UNCHANGED <<dbVars, appVars, cur, rte, hist>> /\ NoEvent

-----------------------------------------------------------------------------
(* What the RTE sends is stored                                            *)

\* storeItem : the columns of the job, as each kind writes them
StoreRow(r, i) ==
  CASE i.kind = "started" -> [r EXCEPT !.host = Rte]
    [] i.kind = "output"  -> r
    [] i.kind = "end"     -> [EndRow(r, i.outcome) EXCEPT !.host = NoNode]
    [] i.kind = "abandon" -> AbandonJobs(r)

\* createOutputOnce : the order is the key ; a job given up gets a line of the app's (the line of an
\* end is the last of all, and nothing is numbered after it)
StoreLines(i) ==
  IF i.kind = "output" /\ \A l \in lines : l.order # i.order THEN lines \cup {Line(i)}
  ELSE IF i.kind = "abandon" /\ row.status = "running" THEN AppLine
  ELSE lines

\* onItem, storeItem : stored in the order they came, then acked ; none past one that failed
Store(s, m) ==
  /\ row' = StoreRow(row, m.item)
  /\ lines' = StoreLines(m.item)
  /\ sess' = LET acked == Sent(Received(s), s, [t |-> "ack", seq |-> m.seq])
             IN IF m.item.kind \in {"end", "abandon"} THEN Forgotten(acked, sess[s].node) ELSE acked

Skip(s) == sess' = Received(s) /\ UNCHANGED <<row, lines>>

\* storeFailed
Deaf_Never(s) == FALSE
Deaf(s) == sess[s].failed

OnItem(s) ==
  /\ sess[s].hub # "none" /\ Says(s, "item")
  /\ IF Deaf(s) THEN Skip(s) ELSE Store(s, Head(sess[s].up))
  /\ UNCHANGED <<seen, appVars, cur, rte, hist>> /\ NoEvent

\* a statement of it fails, after the item was written or before : the socket closes, and the RTE
\* sends again all it has no ack of
StoreFails(s) ==
  /\ sess[s].hub # "none" /\ Says(s, "item") /\ ~Deaf(s)
  /\ Happens("store")
  /\ \/ UNCHANGED <<row, lines>>
     \/ LET i == Head(sess[s].up).item IN row' = StoreRow(row, i) /\ lines' = StoreLines(i)
  /\ sess' = Closing([Received(s) EXCEPT ![s].failed = TRUE], s)
  /\ UNCHANGED <<seen, appVars, cur, rte, hist>>

-----------------------------------------------------------------------------
(* The RTE                                                                 *)

RteReads == UNCHANGED <<dbVars, appVars, cur>>

\* welcomed : what is not acked goes again
OnWelcome ==
  /\ Told("welcome")
  /\ RteSends(Read(cur), Rewound([rte EXCEPT !.welcomed = TRUE]), <<>>)
  /\ RteReads /\ UNCHANGED hist /\ NoEvent

\* the entry of a job taken : the spool an earlier run left is kept, an early cancel is applied
Taken(e, last) == [e EXCEPT !.known = TRUE, !.running = TRUE, !.spawned = FALSE, !.abort = e.early,
                            !.early = FALSE, !.base = last, !.wrote = 0]

\* jobs.get(jobId)?.running
RunsIt_Forgets(e) == FALSE
RunsIt(e) == e.running

\* onRun : a job it runs is claimed again ; else refused, or taken and run
OnRun ==
  /\ Told("run")
  /\ LET message == Head(sess[cur].down)
         answer(e, t) == /\ rte' = e
                         /\ sess' = [Read(cur) EXCEPT ![cur].up =
                              IF sess[cur].hub = "closed" THEN @ ELSE Append(@, [t |-> t])]
     IN \/ RunsIt(rte) /\ answer(rte, "claimed") /\ NoEvent /\ UNCHANGED hist
        \/ ~RunsIt(rte) /\ answer(rte, "busy") /\ Happens("busy") /\ UNCHANGED hist
        \/ ~RunsIt(rte) /\ answer(rte, "unfit") /\ Happens("unfit") /\ UNCHANGED hist
        \/ /\ ~RunsIt(rte) /\ NoEvent
           /\ answer(Taken(rte, message.last), "claimed")
           /\ hist' = [hist EXCEPT !.runs = @ + 1, !.written = {}]
  /\ RteReads

\* onCancel : kept for a job it does not know yet ; nothing to stop in one that ended
OnCancel ==
  /\ Told("cancel")
  /\ rte' = IF ~rte.known THEN [rte EXCEPT !.early = TRUE]
            ELSE IF rte.running THEN [rte EXCEPT !.abort = TRUE] ELSE rte
  /\ sess' = Read(cur)
  /\ RteReads /\ UNCHANGED hist /\ NoEvent

\* EARLY_CANCEL_MS over
ExpireCancel ==
  /\ rte.early /\ Happens("slow")
  /\ rte' = [rte EXCEPT !.early = FALSE]
  /\ RteReads /\ UNCHANGED <<sess, hist>>

\* JobSpool.ack : the acks are cumulative
AckedTo(e, seq) ==
  LET acked == IF seq <= e.acked THEN e.acked ELSE IF seq < Len(e.items) THEN seq ELSE Len(e.items)
  IN [e EXCEPT !.acked = acked, !.next = IF @ <= acked THEN acked + 1 ELSE @]
Done(e) == SpoolEnded(e) /\ e.acked >= Len(e.items)

\* the job leaves the RTE ; the early cancels and the socket are not the job's
Removed(e) == [NoEntry EXCEPT !.early = e.early, !.welcomed = e.welcomed, !.procs = e.procs]

\* onAck : the spool goes once the end is stored
OnAck ==
  /\ Told("ack")
  /\ LET e == AckedTo(rte, Head(sess[cur].down).seq)
     IN IF ~rte.known THEN rte' = rte /\ sess' = Read(cur)
        ELSE IF Done(e) /\ ~e.running THEN rte' = Removed(e) /\ sess' = Read(cur)
        ELSE RteSends(Read(cur), e, <<>>)
  /\ RteReads /\ UNCHANGED hist /\ NoEvent

\* runAnsibleJob : the process started
Started ==
  /\ rte.running /\ ~rte.spawned
  /\ RteSends(sess, [Spooled(rte, "started", hist.runs, 0, "none")
                       EXCEPT !.spawned = TRUE, !.procs = @ + 1], <<>>)
  /\ RteReads /\ UNCHANGED hist /\ NoEvent

\* the output, in batches numbered on from the run message's last order
Write ==
  /\ rte.spawned /\ rte.wrote < MaxOutput
  /\ LET order == rte.base + rte.wrote + 1
     IN /\ RteSends(sess, [Spooled(rte, "output", hist.runs, order, "none") EXCEPT !.wrote = @ + 1], <<>>)
        /\ hist' = [hist EXCEPT !.written = @ \cup {[run |-> hist.runs, order |-> order]}]
  /\ RteReads /\ NoEvent

RunOver(e, outcome) ==
  [Spooled(e, "end", hist.runs, 0, outcome)
     EXCEPT !.running = FALSE, !.spawned = FALSE, !.abort = FALSE, !.base = 0, !.wrote = 0]

\* the exit : aborted when the abort stopped it ; it may also be over by itself first
RunEnds ==
  /\ rte.spawned
  /\ \E outcome \in Exits \cup {"aborted"} :
       /\ outcome = "aborted" => rte.abort
       /\ RteSends(sess, [RunOver(rte, outcome) EXCEPT !.procs = @ - 1], <<>>)
  /\ RteReads /\ UNCHANGED hist /\ NoEvent

\* its files do not come, or it cannot be started : it ends as failed
StartFails ==
  /\ rte.running /\ ~rte.spawned /\ Happens("unfit")
  /\ RteSends(sess, RunOver(rte, "failed"), <<>>)
  /\ RteReads /\ UNCHANGED hist

\* startSocketRte, after a restart, which ends the container's playbooks : a job the spool has items
\* of, and that had not ended, is given up by an item more ; a job without items is not there
Reloaded(e) ==
  IF e.items = <<>> THEN NoEntry
  ELSE LET left == [NoEntry EXCEPT !.known = TRUE, !.items = e.items, !.acked = e.acked, !.next = e.acked + 1]
       IN IF SpoolEnded(e) THEN left ELSE Spooled(left, "abandon", 0, 0, "none")

RteRestarts ==
  /\ \/ Happens("restart") /\ rte' = Reloaded(rte)
     \/ Happens("replace") /\ rte' = NoEntry
  /\ cur' = 0
  /\ sess' = IF cur = 0 THEN sess ELSE [sess EXCEPT ![cur].down = <<>>]
  /\ UNCHANGED <<dbVars, appVars, hist>>

-----------------------------------------------------------------------------
(* App nodes stop and start, and the sweep                                 *)

Crash(n) ==
  /\ n \in alive /\ Happens("crash")
  /\ alive' = alive \ {n}
  /\ sess' = [s \in Conn |->
                IF sess[s].node # n THEN sess[s]
                ELSE [sess[s] EXCEPT !.hub = "closed", !.up = <<>>, !.cancelled = FALSE,
                                         !.knew = FALSE]]
  /\ reg' = [reg EXCEPT ![n] = 0]
  /\ hand' = [hand EXCEPT ![n] = IdleHand]
  /\ ending' = ending \ {n}
  /\ follower' = IF row.tracker = n THEN "gone" ELSE follower
  /\ UNCHANGED <<dbVars, cur, rte, hist>>

\* its start abandons the jobs it followed, those of an RTE excepted
Start(n) ==
  /\ n \notin alive
  /\ alive' = alive \cup {n}
  /\ row' = AbandonOwnRow(row, n, FALSE)
  /\ UNCHANGED <<lines, seen, reg, hand, ending, follower, sess, cur, rte, hist>> /\ NoEvent

\* nothing was heard of the RTE for RTE_QUEUE_MINUTES : no session writes its heartbeat
Away ==
  /\ seen /\ Happens("away")
  /\ \A s \in Conn : sess[s].hub # "ready"
  /\ seen' = FALSE
  /\ UNCHANGED <<row, lines, appVars, sess, cur, rte, hist>>

Sweep(n) ==
  /\ n \in alive
  /\ row' = AbandonDeadRow(row, n, alive, IF seen THEN {Rte} ELSE {})
  /\ row' # row
  /\ UNCHANGED <<lines, seen, appVars, sess, cur, rte, hist>> /\ NoEvent

-----------------------------------------------------------------------------
Hub(s) == \/ Welcome(s) \/ Settle(s) \/ SessionCloses(s)
          \/ OnClaimed(s) \/ OnRefused(s) \/ OnItem(s) \/ StoreFails(s)
App(n) == \/ Launch(n) \/ Announce(n) \/ Dispatch(n) \/ AbortWhileWaiting(n) \/ HandOver(n) \/ Say(n)
          \/ ClaimTimeout(n) \/ GiveBack(n) \/ FailJob(n) \/ RequestAbort(n) \/ DispatchCancel(n)
          \/ Crash(n) \/ Start(n) \/ Sweep(n)
RteStep == \/ OnWelcome \/ OnRun \/ OnCancel \/ ExpireCancel \/ OnAck
           \/ Started \/ Write \/ RunEnds \/ StartFails \/ RteRestarts \/ RteLosesSocket

Next == \/ \E s \in Conn : Hub(s)
        \/ \E n \in AppNode : App(n) \/ RteDials(n)
        \/ TrackSocket \/ Away \/ RteStep

Spec == Init /\ [][Next]_vars

-----------------------------------------------------------------------------
(* Properties                                                              *)

UpMessage == [t : {"claimed", "busy", "unfit"}] \cup [t : {"item"}, seq : Nat, item : Item]
DownMessage == [t : {"welcome", "cancel"}] \cup [t : {"run"}, last : Nat] \cup [t : {"ack"}, seq : Nat]
Session == [node : AppNode \cup {NoNode}, knew : BOOLEAN, cancelled : BOOLEAN, failed : BOOLEAN,
            hub : {"none", "hello", "welcomed", "ready", "closing", "closed"},
            up : Seq(UpMessage), down : Seq(DownMessage)]
Entry == [known : BOOLEAN, running : BOOLEAN, spawned : BOOLEAN, abort : BOOLEAN, early : BOOLEAN,
          welcomed : BOOLEAN, base : Nat, wrote : Nat, procs : Nat, items : Seq(Item),
          acked : Nat, next : Nat \ {0}]
Hand == [pc : {"idle", "send", "sent", "back", "say", "failing"}, s : Conn \cup {0}, said : BOOLEAN,
         res : {"none", "lost", "busy", "unfit"}]

\* Every variable holds what the code may put there.
TypeOK ==
  /\ row \in Row /\ lines \subseteq [run : Nat, order : Nat] /\ seen \in BOOLEAN
  /\ sess \in [Conn -> Session] /\ reg \in [AppNode -> Conn \cup {0}]
  /\ alive \subseteq AppNode /\ ending \subseteq AppNode /\ hand \in [AppNode -> Hand]
  /\ follower \in {"launches", "polls", "tired", "gone"}
  /\ cur \in Conn \cup {0} /\ rte \in Entry
  /\ hist \in [runs : Nat, written : SUBSET [run : Nat, order : Nat], soon : BOOLEAN]
  /\ events \subseteq AllEvents

\* A job's playbook never runs twice at the same time, however often the job is handed over: an
\* answer lost or late makes a node send it again (handOver, onRun).
OneProcess == rte.procs <= 1

\* the app itself has a line of that order
AppLineAt(order) == [run |-> 0, order |-> order] \in lines

ItemStored(i) ==
  CASE i.kind = "output" -> Line(i) \in lines \/ AppLineAt(i.order)
    [] i.kind \in {"end", "abandon"} -> row.status # "running"
    [] OTHER -> TRUE

AckOnItsWay(k) ==
  cur # 0 /\ \E i \in 1..Len(sess[cur].down) : LET m == sess[cur].down[i] IN m.t = "ack" /\ m.seq >= k

\* What the RTE has an ack of, or whose ack is on its way, is never sent again: it is in the
\* database, each item exactly once (rte/socket/spool.js:7-9, runners/README.md:151-153), but for
\* the lines WritersNeverCollide is about. A job handed over again after its playbook was over
\* breaks it: the second run numbers its lines as the first one did.
EachItemOnce ==
  \A k \in 1..Len(rte.items) : (k <= rte.acked \/ AckOnItsWay(k)) => ItemStored(rte.items[k])

\* The same of a job whose playbook was started once: no crash, restart, lost socket, lost ack or
\* failing statement leaves an item acked and not stored.
AckedIsStored == hist.runs <= 1 => EachItemOnce

\* A job that ended in success, its playbook started once, has every line the playbook wrote, but
\* for those whose order the app took: the end is stored after all of them, whatever socket and node
\* brought each.
OutputWhole ==
  (row.status = "success" /\ hist.runs <= 1) =>
    \A w \in hist.written : w \in lines \/ AppLineAt(w.order)

CancelOnItsWay == \E k \in 1..Len(sess[cur].down) : sess[cur].down[k].t = "cancel"

\* A node that holds the RTE's socket and noted a cancel as sent does not send it again, so it must
\* have worked: the playbook stops, or the cancel is still on its way (cancelSent, handingOver). Not
\* so for a job aborted before its launch came to kick: cancel notes that one too, kick hands the job
\* over without a look at its flag, and the RTE forgets the cancel after a minute.
CancelMarkTrue ==
  (cur # 0 /\ sess[cur].cancelled /\ rte.running /\ ~hist.soon) => (rte.abort \/ CancelOnItsWay)

-----------------------------------------------------------------------------
(* What the code does not keep: see the README                            *)

\* Two writers of a job's output never take the same order: "every writer (the app, an RTE) continues
\* from the database, so two of them never collide" (models/job.model.js:629-630). The RTE counts on
\* from the run message: a line the app writes after it was sent takes the order of the playbook's
\* next one, which is then skipped as stored already, and acked.
WritersNeverCollide == \A w \in hist.written : ~AppLineAt(w.order)

\* A job ended as aborted has no playbook that goes on unasked: of abortWhileWaiting the code says
\* "it never ran, so nothing on the RTE has to stop" (runners/common.js:212-213). A claim whose
\* answer was lost, or made after the read, ends a job that runs.
AbortedStops ==
  (row.status = "aborted" /\ rte.running) => (rte.abort \/ (cur # 0 /\ CancelOnItsWay))
=============================================================================

----------------------------- MODULE WorkerLock -----------------------------
(***************************************************************************)
(* The worker lock: GET_LOCK of the database, on a connection of its own,  *)
(* in every process that may be the worker.                                *)
(*                                                                         *)
(* A process knows of its lock only what its connection told it last: the  *)
(* connection may be killed, its host cut off, the lock gone in a failover *)
(* behind a proxy that keeps the connection. Two activities use the same   *)
(* connection, the check every ten seconds and each background tick, and   *)
(* a query that fails drops whatever connection is the current one by then.*)
(*                                                                         *)
(* Time appears in two places: a heartbeat grows old (NODE_DEAD_SECONDS),  *)
(* and a holder is watched for as long.                                    *)
(***************************************************************************)
EXTENDS Naturals

CONSTANTS Proc,         \* the processes that may be the worker (AF_ROLE unset, or worker)
          Session,      \* connection ids of the database
          NoSession,    \* no connection, no holder
          FaultKinds,   \* the faults of this run: a subset of AllFaults
          MaxFaults     \* how many of them happen

AllFaults == {"crash",      \* a process stops, the database sees its connection close
              "host",       \* a host dies: its process is gone, its connection stays
              "cut",        \* a process is cut off from the database for a while
              "failover",   \* the lock is gone, a proxy keeps the connection
              "lapse"}      \* a live process writes no heartbeat for NODE_DEAD_SECONDS

ASSUME WorkerAssumption ==
  /\ NoSession \notin Session
  /\ MaxFaults \in Nat /\ FaultKinds \subseteq AllFaults

VARIABLES
  open,     \* the connections the database keeps
  lock,     \* the connection that has the lock
  up,       \* the processes that run
  cut,      \* those cut off from the database
  mem,      \* [Proc -> Memory] the variables of lib/workerLock.js
  cron,     \* [Proc -> Cron] a background tick
  nodes,    \* [Proc -> the row of `nodes`] is_worker, and whether last_seen is young
  sick,     \* for the properties: the processes that were cut off or wrote no heartbeat
  moved,    \* for the properties: the connections that lost the lock in a failover
  faults

vars == <<open, lock, up, cut, mem, cron, nodes, sick, moved, faults>>

\* on: the connection a check was sent on; watched: the suspect has been watched for long
Pc == {"idle", "check", "try", "used", "alive", "kill", "lost"}
Memory == [conn : Session \cup {NoSession}, held : BOOLEAN, acquired : BOOLEAN, pc : Pc,
           on : Session \cup {NoSession}, suspect : Session \cup {NoSession}, watched : BOOLEAN]
Started == [conn |-> NoSession, held |-> FALSE, acquired |-> FALSE, pc |-> "idle",
            on |-> NoSession, suspect |-> NoSession, watched |-> FALSE]
Cron == [pc : {"idle", "asked", "working"}, on : Session \cup {NoSession}]
Resting == [pc |-> "idle", on |-> NoSession]

TypeOK ==
  /\ open \subseteq Session /\ moved \subseteq Session
  /\ lock \in Session \cup {NoSession}
  /\ up \subseteq Proc /\ cut \subseteq Proc /\ sick \subseteq Proc
  /\ mem \in [Proc -> Memory]
  /\ cron \in [Proc -> Cron]
  /\ nodes \in [Proc -> [worker : BOOLEAN, fresh : BOOLEAN]]
  /\ faults \in 0..MaxFaults

Init ==
  /\ open = {} /\ lock = NoSession
  /\ up = Proc /\ cut = {}
  /\ mem = [p \in Proc |-> Started]
  /\ cron = [p \in Proc |-> Resting]
  /\ nodes = [p \in Proc |-> [worker |-> FALSE, fresh |-> TRUE]]
  /\ sick = {} /\ moved = {} /\ faults = 0

Fault(kind) == kind \in FaultKinds /\ faults < MaxFaults /\ faults' = faults + 1

At(p, pc) == p \in up /\ mem[p].pc = pc
Goes(p, pc) == mem' = [mem EXCEPT ![p].pc = pc]

\* a query on this connection is answered
Answers(p, s) == p \notin cut /\ s \in open

\* the database forgets connections, and the lock with them
Close(sessions) ==
  /\ open' = open \ sessions
  /\ lock' = IF lock \in sessions THEN NoSession ELSE lock

\* dropConnection : the current connection, whichever it is; behind a cut the database keeps it
Drop(p, pc) ==
  /\ Close(IF p \in cut THEN {} ELSE {mem[p].conn})
  /\ mem' = [mem EXCEPT ![p] = [@ EXCEPT !.conn = NoSession, !.held = FALSE, !.pc = pc, !.on = NoSession]]

World == UNCHANGED <<up, cut, nodes, sick, moved, faults>>

-----------------------------------------------------------------------------
(* keepWorkerLock : a turn every LOCK_RETRY_MS                             *)

\* stillMine asks on the connection, or there is none and it is not ours
Turn(p) ==
  /\ At(p, "idle")
  /\ mem' = [mem EXCEPT ![p] =
       IF mem[p].acquired /\ mem[p].conn # NoSession THEN [@ EXCEPT !.pc = "check", !.on = mem[p].conn]
       ELSE IF mem[p].acquired THEN [@ EXCEPT !.pc = "try", !.held = FALSE] ELSE [@ EXCEPT !.pc = "try"]]
  /\ World /\ UNCHANGED <<open, lock, cron>>

\* asked of the lock, not of the connection
StillMine(p, s) == Answers(p, s) /\ lock = s

Check(p) ==
  /\ At(p, "check")
  /\ IF StillMine(p, mem[p].on)
     THEN /\ mem' = [mem EXCEPT ![p] = [@ EXCEPT !.pc = "idle", !.on = NoSession]]
          /\ UNCHANGED <<open, lock>>
     ELSE Drop(p, "try")
  /\ World /\ UNCHANGED cron

\* tryWorkerLock cannot reach the database, or its connection is gone: unreachable
Unreachable(p) ==
  /\ At(p, "try") /\ ~mem[p].held
  /\ p \in cut \/ (mem[p].conn # NoSession /\ mem[p].conn \notin open)
  /\ Drop(p, "idle")
  /\ World /\ UNCHANGED cron

\* an id nothing refers to any more
Unused == Session \ (open \cup {mem[p].conn : p \in Proc} \cup {mem[p].on : p \in Proc}
                          \cup {mem[p].suspect : p \in Proc} \cup {cron[p].on : p \in Proc})

\* a connection is opened when there is none
Connect(p) ==
  /\ At(p, "try") /\ ~mem[p].held /\ p \notin cut /\ mem[p].conn = NoSession
  /\ Unused # {}
  /\ LET s == CHOOSE s \in Unused : TRUE
     IN /\ open' = open \cup {s}
        /\ mem' = [mem EXCEPT ![p].conn = s]
        /\ moved' = moved \ {s}
  /\ UNCHANGED <<lock, up, cut, cron, nodes, sick, faults>>

\* a 0 of GET_LOCK read as an answer
GetLock_AnyAnswer(p) ==
  /\ At(p, "try") /\ ~mem[p].held /\ Answers(p, mem[p].conn)
  /\ lock' = IF lock = NoSession THEN mem[p].conn ELSE lock
  /\ mem' = [mem EXCEPT ![p] = [@ EXCEPT !.held = TRUE, !.acquired = TRUE, !.pc = "idle"]]
  /\ World /\ UNCHANGED <<open, cron>>

\* GET_LOCK : taken when it is free; busy is a stop for a process that had it, else a look at the holder
GetLock(p) ==
  /\ At(p, "try") /\ ~mem[p].held /\ Answers(p, mem[p].conn)
  /\ IF lock \in {NoSession, mem[p].conn}
     THEN /\ lock' = mem[p].conn
          /\ mem' = [mem EXCEPT ![p] = [@ EXCEPT !.held = TRUE, !.acquired = TRUE, !.pc = "idle"]]
          /\ moved' = moved \ {mem[p].conn}
     ELSE /\ Goes(p, IF mem[p].acquired THEN "lost" ELSE "used")
          /\ UNCHANGED <<lock, moved>>
  /\ UNCHANGED <<open, up, cut, cron, nodes, sick, faults>>

\* takeFromDeadHolder : who holds it; a holder seen for the first time is watched from now on
ReadHolder(p) ==
  /\ At(p, "used")
  /\ mem' = [mem EXCEPT ![p] =
       IF ~Answers(p, mem[p].conn) \/ lock = NoSession THEN [@ EXCEPT !.pc = "idle"]
       ELSE IF lock # mem[p].suspect THEN [@ EXCEPT !.pc = "idle", !.suspect = lock, !.watched = FALSE]
       ELSE [@ EXCEPT !.pc = IF mem[p].watched THEN "alive" ELSE "idle"]]
  /\ World /\ UNCHANGED <<open, lock, cron>>

\* does any worker write a heartbeat
WorkerAlive_Never == FALSE
WorkerAlive_AnyNode == \E q \in Proc : nodes[q].fresh
WorkerAlive == \E q \in Proc : nodes[q].worker /\ nodes[q].fresh

ReadHeartbeats(p) ==
  /\ At(p, "alive")
  /\ Goes(p, IF Answers(p, mem[p].conn) /\ ~WorkerAlive THEN "kill" ELSE "idle")
  /\ World /\ UNCHANGED <<open, lock, cron>>

Kill(p) ==
  /\ At(p, "kill")
  /\ IF Answers(p, mem[p].conn)
     THEN /\ Close({mem[p].suspect})
          /\ mem' = [mem EXCEPT ![p] = [@ EXCEPT !.pc = "idle", !.suspect = NoSession, !.watched = FALSE]]
     ELSE Goes(p, "idle") /\ UNCHANGED <<open, lock>>
  /\ World /\ UNCHANGED cron

\* the process is gone; the database sees its connections close, or not
Gone(p, closed) ==
  /\ up' = up \ {p}
  /\ Close(closed)
  /\ mem' = [mem EXCEPT ![p] = Started]
  /\ cron' = [cron EXCEPT ![p] = Resting]

\* stopLostWorker : somebody else has the lock this process had
StopLost_Stays(p) ==
  /\ At(p, "lost")
  /\ Goes(p, "idle")
  /\ World /\ UNCHANGED <<open, lock, cron>>
StopLost(p) ==
  /\ At(p, "lost")
  /\ Gone(p, IF p \in cut THEN {} ELSE {mem[p].conn})
  /\ UNCHANGED <<cut, nodes, sick, moved, faults>>

-----------------------------------------------------------------------------
(* The background ticks of cron.service.js                                 *)

\* confirmWorkerLock : asked on the connection of now ...
CronAsks(p) ==
  /\ p \in up /\ cron[p].pc = "idle" /\ mem[p].held
  /\ cron' = [cron EXCEPT ![p] = [pc |-> "asked", on |-> mem[p].conn]]
  /\ World /\ UNCHANGED <<open, lock, mem>>

\* ... and answered later
CronAnswered(p) ==
  /\ p \in up /\ cron[p].pc = "asked"
  /\ IF StillMine(p, cron[p].on)
     THEN /\ cron' = [cron EXCEPT ![p] = [pc |-> "working", on |-> NoSession]]
          /\ UNCHANGED <<open, lock, mem>>
     ELSE /\ cron' = [cron EXCEPT ![p] = Resting]
          /\ Drop(p, mem[p].pc)
  /\ World

CronDone(p) ==
  /\ p \in up /\ cron[p].pc = "working"
  /\ cron' = [cron EXCEPT ![p] = Resting]
  /\ World /\ UNCHANGED <<open, lock, mem>>

-----------------------------------------------------------------------------
(* Heartbeats, time and faults                                             *)

\* the row gets the connection, not whether it has the lock
Heartbeat(p) ==
  /\ p \in up \ cut
  /\ nodes' = [nodes EXCEPT ![p] = [worker |-> mem[p].held, fresh |-> TRUE]]
  /\ UNCHANGED <<open, lock, up, cut, mem, cron, sick, moved, faults>>

HeartbeatAges(p) ==
  /\ nodes[p].fresh
  /\ nodes' = [nodes EXCEPT ![p].fresh = FALSE]
  /\ IF p \in up \ cut THEN Fault("lapse") /\ sick' = sick \cup {p} ELSE UNCHANGED <<faults, sick>>
  /\ UNCHANGED <<open, lock, up, cut, mem, cron, moved>>

\* NODE_DEAD_SECONDS since the holder was seen first: every process that can wrote its row
WatchAges(p) ==
  /\ p \in up /\ mem[p].suspect # NoSession /\ ~mem[p].watched
  /\ \A q \in up \ cut : /\ nodes[q].fresh \/ q \in sick
                         /\ nodes[q].fresh => nodes[q].worker = mem[q].held
  /\ mem' = [mem EXCEPT ![p].watched = TRUE]
  /\ World /\ UNCHANGED <<open, lock, cron>>

Crash(p) ==
  /\ p \in up /\ Fault("crash")
  /\ Gone(p, IF p \in cut THEN {} ELSE {mem[p].conn})
  /\ UNCHANGED <<cut, nodes, sick, moved>>

HostDies(p) ==
  /\ p \in up /\ Fault("host")
  /\ Gone(p, {})
  /\ UNCHANGED <<cut, nodes, sick, moved>>

Restart(p) ==
  /\ p \notin up
  /\ up' = up \cup {p} /\ cut' = cut \ {p} /\ sick' = sick \ {p}
  /\ UNCHANGED <<open, lock, mem, cron, nodes, moved, faults>>

CutOff(p) ==
  /\ p \in up \ cut /\ Fault("cut")
  /\ cut' = cut \cup {p} /\ sick' = sick \cup {p}
  /\ UNCHANGED <<open, lock, up, mem, cron, nodes, moved>>

Heals(p) ==
  /\ p \in cut
  /\ cut' = cut \ {p}
  /\ UNCHANGED <<open, lock, up, mem, cron, nodes, sick, moved, faults>>

Failover ==
  /\ lock # NoSession /\ Fault("failover")
  /\ lock' = NoSession /\ moved' = moved \cup {lock}
  /\ UNCHANGED <<open, up, cut, mem, cron, nodes, sick>>

-----------------------------------------------------------------------------
LockStep(p) ==
  \/ Turn(p) \/ Check(p) \/ Unreachable(p) \/ Connect(p) \/ GetLock(p)
  \/ ReadHolder(p) \/ ReadHeartbeats(p) \/ Kill(p) \/ StopLost(p)

CronStep(p) == CronAsks(p) \/ CronAnswered(p) \/ CronDone(p)

Around(p) ==
  \/ Heartbeat(p) \/ HeartbeatAges(p) \/ WatchAges(p)
  \/ Crash(p) \/ HostDies(p) \/ Restart(p) \/ CutOff(p) \/ Heals(p)

Next == (\E p \in Proc : LockStep(p) \/ CronStep(p) \/ Around(p)) \/ Failover

Spec == Init /\ [][Next]_vars

\* the turns go on, heartbeats are written, time passes, a container that stopped is started again,
\* a cut heals
Fairness ==
  \A p \in Proc : /\ WF_vars(LockStep(p))
                  /\ WF_vars(CronAnswered(p)) /\ WF_vars(CronDone(p))
                  /\ WF_vars(Heartbeat(p)) /\ WF_vars(p \notin up \ cut /\ HeartbeatAges(p))
                  /\ WF_vars(WatchAges(p)) /\ WF_vars(Restart(p)) /\ WF_vars(Heals(p))

FairSpec == Spec /\ Fairness

-----------------------------------------------------------------------------
(* Properties                                                              *)

\* A process that believes it holds the lock does, as long as its connection lives and no failover
\* took the lock from behind it (tryWorkerLock, dropConnection, the KILL of another process).
HeldIsLocked ==
  \A p \in up : mem[p].held /\ mem[p].conn \in open /\ mem[p].conn \notin moved => lock = mem[p].conn

\* Two processes believe they hold the lock only when one of them was cut off, wrote no heartbeat
\* or lost the lock in a failover: nothing else takes it from a process that lives.
TwoBelieversAreSick ==
  \A p, q \in up :
    mem[p].held /\ mem[q].held /\ p # q =>
      {p, q} \cap sick # {} \/ {mem[p].conn, mem[q].conn} \cap moved # {}

\* A waiting process never kills the connection of a worker that lives and writes heartbeats.
LiveWorkerKept ==
  [][\A p, q \in Proc :
       Kill(p) /\ lock = mem[p].suspect /\ lock # NoSession /\ lock' = NoSession
               /\ q \in up /\ mem[q].conn = lock => q \in sick]_vars

\* There is a worker again and again, whatever happened to the last one.
Works(p) == p \in up /\ mem[p].held /\ mem[p].conn = lock
WorkerComesBack == []<>(\E p \in Proc : Works(p))

\* Of two processes that had the lock only one stays: the other one stops, or gets it back.
LoserStops ==
  \A p \in Proc :
    p \in up /\ mem[p].acquired /\ lock # NoSession /\ lock # mem[p].conn
      ~> p \notin up \/ lock = mem[p].conn \/ lock = NoSession

-----------------------------------------------------------------------------
(* What the code does not keep: see the README                            *)

\* A tick never runs next to another worker's (what confirmWorkerLock says it is for).
NeverNextTo ==
  \A p, q \in up : cron[p].pc = "working" /\ cron[q].pc = "working" => p = q
=============================================================================

-------------------------- MODULE WorkerLockProofs --------------------------
(***************************************************************************)
(* TypeOK, HeldIsLocked, TwoBelieversAreSick and LiveWorkerKept of         *)
(* WorkerLock for any number of processes, connections and faults.         *)
(*                                                                         *)
(* A waiting process kills a connection after it has watched it and then   *)
(* found no heartbeat of a worker. The invariant carries what it knows on  *)
(* the way: the connection it watches is one whose process, if it lives,   *)
(* holds the lock (SuspectHeld), a process watched for long has written    *)
(* that it does (WatchedWrites), and one that is about to be killed has    *)
(* not (KilledSick).                                                       *)
(***************************************************************************)
EXTENDS WorkerLock, TLAPS

\* The lock belongs to a connection the database keeps.
LockOpen == lock \in open \cup {NoSession}

\* A process that does not run has nothing.
Down == \A p \in Proc \ up : mem[p] = Started

\* Every connection is one process's; what holds has one.
OwnConnection ==
  /\ \A p \in Proc : mem[p].held => mem[p].conn # NoSession
  /\ \A p, q \in Proc : mem[p].conn = mem[q].conn /\ mem[p].conn # NoSession => p = q

\* The process of the connection that has the lock believes it has.
LockedIsHeld == \A p \in Proc : mem[p].conn # NoSession /\ lock = mem[p].conn => mem[p].held

\* And so does the one of a connection somebody watches.
SuspectHeld ==
  \A p, q \in Proc : mem[p].suspect # NoSession /\ mem[q].conn = mem[p].suspect => mem[q].held

\* Watched for long, it wrote so in its row, if it writes at all.
WatchedWrites ==
  \A p, q \in Proc :
    mem[p].suspect # NoSession /\ mem[q].conn = mem[p].suspect /\ mem[p].watched /\ q \notin sick =>
      nodes[q].worker /\ nodes[q].fresh

\* A process judges only whom it has watched, and kills only whom it has found silent.
Judged == \A p \in Proc : mem[p].pc \in {"alive", "kill"} => mem[p].suspect # NoSession /\ mem[p].watched
KilledSick ==
  \A p, q \in Proc : mem[p].pc = "kill" /\ mem[q].conn = mem[p].suspect => q \in sick

\* What believes it holds the lock does, unless it is sick or a failover took it.
BelieverHas ==
  \A p \in Proc \ sick : mem[p].held /\ mem[p].conn \notin moved => lock = mem[p].conn

LockInv ==
  /\ TypeOK /\ LockOpen /\ Down /\ OwnConnection /\ LockedIsHeld /\ SuspectHeld /\ WatchedWrites
  /\ Judged /\ KilledSick /\ BelieverHas /\ HeldIsLocked /\ cut \subseteq sick

-----------------------------------------------------------------------------
(* The invariant begins                                                    *)

LEMMA StartedType == Started \in Memory /\ Resting \in Cron
  BY DEF Started, Memory, Pc, Resting, Cron

LEMMA FaultType ==
  ASSUME TypeOK, NEW kind, Fault(kind)
  PROVE  faults' \in 0..MaxFaults
  BY WorkerAssumption DEF TypeOK, Fault

LEMMA LockInit == Init => LockInv
  <1>. SUFFICES ASSUME Init PROVE LockInv
    OBVIOUS
  <1>1. TypeOK
    BY StartedType, WorkerAssumption DEF Init, TypeOK
  <1>2. \A p \in Proc : mem[p] = Started
    BY DEF Init
  <1>3. Started.held = FALSE /\ Started.conn = NoSession /\ Started.suspect = NoSession /\ Started.pc = "idle"
    BY DEF Started
  <1>. QED
    BY <1>1, <1>2, <1>3
    DEF Init, LockInv, LockOpen, Down, OwnConnection, LockedIsHeld, SuspectHeld, WatchedWrites,
        Judged, KilledSick, BelieverHas, HeldIsLocked

-----------------------------------------------------------------------------
(* Steps seen from one process                                             *)

\* A step that changes neither the lock nor who has which connection or holds: only where p is,
\* and, with the proofs for it, whom it watches.
LEMMA QuietInv ==
  ASSUME LockInv, NEW p \in up, NEW x \in Memory, mem' = [mem EXCEPT ![p] = x],
         x.conn = mem[p].conn, x.held = mem[p].held,
         \/ x.suspect = mem[p].suspect /\ x.watched = mem[p].watched
         \/ x.suspect = lock /\ lock # NoSession /\ ~x.watched,
         x.pc = "alive" => x.suspect # NoSession /\ x.watched,
         x.pc = "kill" => /\ x.suspect # NoSession /\ x.watched
                          /\ \A q \in Proc : mem[q].conn = x.suspect => q \in sick,
         UNCHANGED <<open, lock>>, World, cron' \in [Proc -> Cron]
  PROVE  LockInv'
  <1>1. /\ TypeOK' /\ p \in Proc /\ mem'[p] = x
        /\ \A q \in Proc \ {p} : mem'[q] = mem[q]
    BY DEF LockInv, TypeOK, World
  <1>2. \A q \in Proc : mem'[q].conn = mem[q].conn /\ mem'[q].held = mem[q].held
    BY <1>1
  <1>3. LockOpen' /\ Down' /\ (cut \subseteq sick)'
    BY <1>1 DEF LockInv, LockOpen, Down, World
  <1>4. OwnConnection' /\ LockedIsHeld' /\ BelieverHas' /\ HeldIsLocked'
    BY <1>2 DEF LockInv, OwnConnection, LockedIsHeld, BelieverHas, HeldIsLocked, World
  <1>5. SuspectHeld' /\ WatchedWrites'
    <2>. SUFFICES ASSUME NEW r \in Proc, NEW q \in Proc,
                         mem'[r].suspect # NoSession, mem'[q].conn = mem'[r].suspect
                  PROVE  /\ mem'[q].held
                         /\ mem'[r].watched /\ q \notin sick' => nodes'[q].worker /\ nodes'[q].fresh
      BY DEF SuspectHeld, WatchedWrites
    <2>1. CASE mem'[r].suspect = mem[r].suspect /\ mem'[r].watched = mem[r].watched
      BY <1>2, <2>1 DEF LockInv, SuspectHeld, WatchedWrites, World
    <2>2. CASE mem'[r].suspect = lock /\ ~mem'[r].watched
      BY <1>2, <2>2 DEF LockInv, LockedIsHeld
    <2>. QED
      BY <1>1, <2>1, <2>2
  <1>6. Judged' /\ KilledSick'
    BY <1>1, <1>2 DEF LockInv, Judged, KilledSick, World
  <1>. QED
    BY <1>1, <1>3, <1>4, <1>5, <1>6 DEF LockInv

\* A process that loses its connection, or is gone.
LEMMA LoseInv ==
  ASSUME LockInv, NEW p \in Proc, NEW x \in Memory, mem' = [mem EXCEPT ![p] = x],
         x.conn = NoSession, ~x.held,
         \/ /\ x.pc \in {mem[p].pc, "idle", "try"}
            /\ x.suspect = mem[p].suspect /\ x.watched = mem[p].watched
            /\ p \in up /\ UNCHANGED up
         \/ x = Started /\ up' = up \ {p},
         NEW sessions \in SUBSET {mem[p].conn}, Close(sessions),
         UNCHANGED <<cut, nodes, sick, moved>>, faults' \in 0..MaxFaults, cron' \in [Proc -> Cron]
  PROVE  LockInv'
  <1>1. /\ mem' \in [Proc -> Memory] /\ mem'[p] = x
        /\ \A q \in Proc \ {p} : mem'[q] = mem[q]
    BY DEF LockInv, TypeOK
  <1>2. \A q \in Proc \ sick : mem[q].held /\ q # p => mem[q].conn \notin sessions
    BY DEF LockInv, OwnConnection
  <1>3. open' \subseteq Session /\ lock' \in open' \cup {NoSession} /\ lock' \in {lock, NoSession}
    BY DEF LockInv, TypeOK, LockOpen, Close
  <1>4. TypeOK' /\ LockOpen' /\ (cut \subseteq sick)'
    BY <1>1, <1>3, WorkerAssumption DEF LockInv, TypeOK, LockOpen
  <1>5. Down'
    BY <1>1 DEF LockInv, Down
  <1>6. OwnConnection'
    BY <1>1 DEF LockInv, OwnConnection
  <1>7. LockedIsHeld'
    BY <1>1, <1>3 DEF LockInv, LockedIsHeld
  <1>8. Started.suspect = NoSession /\ Started.pc = "idle"
    BY DEF Started
  <1>9. SuspectHeld' /\ WatchedWrites'
    <2>. SUFFICES ASSUME NEW r \in Proc, NEW q \in Proc,
                         mem'[r].suspect # NoSession, mem'[q].conn = mem'[r].suspect
                  PROVE  /\ mem'[q].held
                         /\ mem'[r].watched /\ q \notin sick' => nodes'[q].worker /\ nodes'[q].fresh
      BY DEF SuspectHeld, WatchedWrites
    <2>1. q # p /\ mem'[q] = mem[q]
      BY <1>1
    <2>2. mem'[r].suspect = mem[r].suspect /\ mem'[r].watched = mem[r].watched
      BY <1>1, <1>8
    <2>. QED
      BY <2>1, <2>2 DEF LockInv, SuspectHeld, WatchedWrites
  <1>10. Judged'
    BY <1>1, <1>8 DEF LockInv, Judged
  <1>11. KilledSick'
    <2>. SUFFICES ASSUME NEW r \in Proc, NEW q \in Proc,
                         mem'[r].pc = "kill", mem'[q].conn = mem'[r].suspect
                  PROVE  q \in sick
      BY DEF KilledSick
    <2>1. mem'[r].suspect # NoSession
      BY <1>10 DEF Judged
    <2>2. mem[r].pc = "kill" /\ mem'[r].suspect = mem[r].suspect
      BY <1>1, <1>8
    <2>3. mem'[q] = mem[q]
      BY <1>1, <2>1
    <2>. QED
      BY <2>2, <2>3 DEF LockInv, KilledSick
  <1>12. BelieverHas'
    <2>. SUFFICES ASSUME NEW q \in Proc \ sick, mem'[q].held, mem'[q].conn \notin moved
                  PROVE  lock' = mem'[q].conn
      BY DEF BelieverHas
    <2>1. q # p /\ mem'[q] = mem[q]
      BY <1>1
    <2>2. lock = mem[q].conn /\ mem[q].conn \notin sessions
      BY <1>2, <2>1 DEF LockInv, BelieverHas
    <2>. QED
      BY <2>1, <2>2 DEF Close
  <1>13. HeldIsLocked'
    <2>. SUFFICES ASSUME NEW q \in up', mem'[q].held, mem'[q].conn \in open', mem'[q].conn \notin moved
                  PROVE  lock' = mem'[q].conn
      BY DEF HeldIsLocked
    <2>1. q # p /\ mem'[q] = mem[q] /\ q \in up
      BY <1>1 DEF LockInv, TypeOK
    <2>2. lock = mem[q].conn /\ mem[q].conn \notin sessions
      BY <2>1 DEF LockInv, HeldIsLocked, Close
    <2>. QED
      BY <2>1, <2>2 DEF Close
  <1>. QED
    BY <1>4, <1>5, <1>6, <1>7, <1>9, <1>10, <1>11, <1>12, <1>13 DEF LockInv

-----------------------------------------------------------------------------
(* The turns                                                               *)

LEMMA DropInv ==
  ASSUME LockInv, NEW p \in up, NEW pc \in {"idle", "try", mem[p].pc}, Drop(p, pc), World,
         cron' \in [Proc -> Cron]
  PROVE  LockInv'
  <1>. DEFINE x == [mem[p] EXCEPT !.conn = NoSession, !.held = FALSE, !.pc = pc, !.on = NoSession]
  <1>0. p \in Proc /\ mem[p] \in Memory /\ faults \in 0..MaxFaults
    BY DEF LockInv, TypeOK
  <1>1. /\ x \in Memory /\ x.conn = NoSession /\ ~x.held /\ x.pc = pc
        /\ x.suspect = mem[p].suspect /\ x.watched = mem[p].watched
    BY <1>0 DEF Memory, Pc
  <1>2. mem' = [mem EXCEPT ![p] = x]
    BY DEF Drop
  <1>. HIDE DEF x
  <1>3. PICK sessions \in SUBSET {mem[p].conn} : Close(sessions)
    BY DEF Drop
  <1>4. UNCHANGED up /\ UNCHANGED <<cut, nodes, sick, moved>> /\ faults' \in 0..MaxFaults
    BY <1>0 DEF World
  <1>5. x.pc \in {mem[p].pc, "idle", "try"}
    BY <1>1
  <1>. QED
    BY <1>0, <1>1, <1>2, <1>3, <1>4, <1>5, LoseInv

LEMMA TurnInv ==
  ASSUME LockInv, NEW p \in Proc, Turn(p)
  PROVE  LockInv'
  <1>0. p \in up /\ mem[p] \in Memory /\ mem[p].pc = "idle" /\ World /\ UNCHANGED <<open, lock, cron>>
    BY DEF LockInv, TypeOK, Turn, At
  <1>1. cron' \in [Proc -> Cron] /\ faults' \in 0..MaxFaults
    BY <1>0 DEF LockInv, TypeOK, World
  <1>2. CASE mem[p].acquired /\ mem[p].conn # NoSession
    <2>. DEFINE x == [mem[p] EXCEPT !.pc = "check", !.on = mem[p].conn]
    <2>1. /\ x \in Memory /\ x.conn = mem[p].conn /\ x.held = mem[p].held /\ x.pc = "check"
          /\ x.suspect = mem[p].suspect /\ x.watched = mem[p].watched
      BY <1>0 DEF Memory, Pc
    <2>2. mem' = [mem EXCEPT ![p] = x]
      BY <1>2 DEF Turn
    <2>. HIDE DEF x
    <2>. QED
      BY <1>0, <1>1, <2>1, <2>2, QuietInv
  <1>3. CASE mem[p].acquired /\ mem[p].conn = NoSession
    <2>. DEFINE x == [mem[p] EXCEPT !.pc = "try", !.held = FALSE]
    <2>1. /\ x \in Memory /\ x.conn = NoSession /\ ~x.held /\ x.pc = "try"
          /\ x.suspect = mem[p].suspect /\ x.watched = mem[p].watched
      BY <1>0, <1>3 DEF Memory, Pc
    <2>2. mem' = [mem EXCEPT ![p] = x]
      BY <1>3 DEF Turn
    <2>. HIDE DEF x
    <2>3. Close({}) /\ {} \in SUBSET {mem[p].conn}
      BY <1>0 DEF Close
    <2>4. UNCHANGED up /\ UNCHANGED <<cut, nodes, sick, moved>>
      BY <1>0 DEF World
    <2>. QED
      BY <1>0, <1>1, <2>1, <2>2, <2>3, <2>4, LoseInv
  <1>4. CASE ~mem[p].acquired
    <2>. DEFINE x == [mem[p] EXCEPT !.pc = "try"]
    <2>1. /\ x \in Memory /\ x.conn = mem[p].conn /\ x.held = mem[p].held /\ x.pc = "try"
          /\ x.suspect = mem[p].suspect /\ x.watched = mem[p].watched
      BY <1>0 DEF Memory, Pc
    <2>2. mem' = [mem EXCEPT ![p] = x]
      BY <1>4 DEF Turn
    <2>. HIDE DEF x
    <2>. QED
      BY <1>0, <1>1, <2>1, <2>2, QuietInv
  <1>. QED
    BY <1>2, <1>3, <1>4

\* A step that only moves on, and is not one to judge the holder by.
LEMMA GoesInv ==
  ASSUME LockInv, NEW p \in up, NEW pc \in Pc \ {"alive", "kill"}, Goes(p, pc),
         UNCHANGED <<open, lock>>, World, cron' \in [Proc -> Cron]
  PROVE  LockInv'
  <1>. DEFINE x == [mem[p] EXCEPT !.pc = pc]
  <1>0. mem[p] \in Memory
    BY DEF LockInv, TypeOK
  <1>1. /\ x \in Memory /\ x.conn = mem[p].conn /\ x.held = mem[p].held /\ x.pc = pc
        /\ x.suspect = mem[p].suspect /\ x.watched = mem[p].watched
    BY <1>0 DEF Memory
  <1>2. mem' = [mem EXCEPT ![p] = x]
    BY DEF Goes
  <1>. HIDE DEF x
  <1>. QED
    BY <1>1, <1>2, QuietInv

LEMMA CheckInv ==
  ASSUME LockInv, NEW p \in Proc, Check(p)
  PROVE  LockInv'
  <1>0. p \in up /\ mem[p] \in Memory /\ World /\ cron' \in [Proc -> Cron]
    BY DEF LockInv, TypeOK, Check, At
  <1>1. CASE StillMine(p, mem[p].on)
    <2>. DEFINE x == [mem[p] EXCEPT !.pc = "idle", !.on = NoSession]
    <2>1. /\ x \in Memory /\ x.conn = mem[p].conn /\ x.held = mem[p].held /\ x.pc = "idle"
          /\ x.suspect = mem[p].suspect /\ x.watched = mem[p].watched
      BY <1>0 DEF Memory, Pc
    <2>2. mem' = [mem EXCEPT ![p] = x] /\ UNCHANGED <<open, lock>>
      BY <1>1 DEF Check
    <2>. HIDE DEF x
    <2>. QED
      BY <1>0, <2>1, <2>2, QuietInv
  <1>2. CASE Drop(p, "try")
    BY <1>0, <1>2, DropInv
  <1>. QED
    BY <1>1, <1>2 DEF Check

LEMMA UnreachableInv ==
  ASSUME LockInv, NEW p \in Proc, Unreachable(p)
  PROVE  LockInv'
  BY DropInv DEF LockInv, TypeOK, Unreachable, At

\* A new connection is nobody's, and nobody watches it.
LEMMA ConnectInv ==
  ASSUME LockInv, NEW p \in Proc, Connect(p)
  PROVE  LockInv'
  <1>. DEFINE s == CHOOSE s \in Unused : TRUE
              x == [mem[p] EXCEPT !.conn = s]
  <1>0. /\ mem[p] \in Memory /\ ~mem[p].held /\ p \in up /\ mem[p].pc = "try"
        /\ UNCHANGED <<lock, up, cut, cron, nodes, sick, faults>>
        /\ open' = open \cup {s} /\ moved' = moved \ {s} /\ mem' = [mem EXCEPT ![p] = x]
    BY DEF LockInv, TypeOK, Connect, At
  <1>1. s \in Unused
    BY DEF Connect
  <1>2. /\ s \in Session /\ s # NoSession /\ s # lock
        /\ \A q \in Proc : mem[q].conn # s /\ mem[q].suspect # s
    BY <1>1, WorkerAssumption DEF Unused, LockInv, LockOpen
  <1>. HIDE DEF s
  <1>3. /\ x \in Memory /\ x.conn = s /\ ~x.held /\ x.pc = "try"
        /\ x.suspect = mem[p].suspect /\ x.watched = mem[p].watched
    BY <1>0, <1>2 DEF Memory
  <1>. HIDE DEF x
  <1>4. /\ mem' \in [Proc -> Memory] /\ mem'[p] = x
        /\ \A q \in Proc \ {p} : mem'[q] = mem[q]
    BY <1>0, <1>3 DEF LockInv, TypeOK
  <1>5. TypeOK' /\ LockOpen' /\ Down' /\ (cut \subseteq sick)'
    BY <1>0, <1>2, <1>4 DEF LockInv, TypeOK, LockOpen, Down
  <1>6. OwnConnection' /\ LockedIsHeld'
    BY <1>0, <1>2, <1>3, <1>4 DEF LockInv, OwnConnection, LockedIsHeld
  <1>7. SuspectHeld' /\ WatchedWrites' /\ Judged'
    BY <1>0, <1>2, <1>3, <1>4 DEF LockInv, SuspectHeld, WatchedWrites, Judged
  <1>8. KilledSick'
    BY <1>0, <1>2, <1>3, <1>4 DEF LockInv, KilledSick
  <1>9. \A q \in Proc : mem'[q].held => mem'[q] = mem[q]
    BY <1>3, <1>4
  <1>10. BelieverHas'
    <2>. SUFFICES ASSUME NEW q \in Proc \ sick, mem'[q].held, mem'[q].conn \notin moved'
                  PROVE  lock = mem'[q].conn
      BY <1>0 DEF BelieverHas
    <2>1. mem'[q] = mem[q]
      BY <1>9
    <2>2. mem[q].conn \notin moved
      BY <1>0, <1>2, <2>1
    <2>. QED
      BY <2>1, <2>2 DEF LockInv, BelieverHas
  <1>11. HeldIsLocked'
    <2>. SUFFICES ASSUME NEW q \in up, mem'[q].held, mem'[q].conn \in open', mem'[q].conn \notin moved'
                  PROVE  lock = mem'[q].conn
      BY <1>0 DEF HeldIsLocked
    <2>1. q \in Proc
      BY DEF LockInv, TypeOK
    <2>2. mem'[q] = mem[q]
      BY <1>9, <2>1
    <2>3. mem[q].conn \in open /\ mem[q].conn \notin moved
      BY <1>0, <1>2, <2>1, <2>2
    <2>. QED
      BY <2>2, <2>3 DEF LockInv, HeldIsLocked
  <1>. QED
    BY <1>5, <1>6, <1>7, <1>8, <1>10, <1>11 DEF LockInv

LEMMA GetLockInv ==
  ASSUME LockInv, NEW p \in Proc, GetLock(p)
  PROVE  LockInv'
  <1>. DEFINE s == mem[p].conn
              x == [mem[p] EXCEPT !.held = TRUE, !.acquired = TRUE, !.pc = "idle"]
  <1>0. /\ mem[p] \in Memory /\ ~mem[p].held /\ p \in up /\ s \in open /\ p \notin cut
        /\ UNCHANGED <<open, up, cut, cron, nodes, sick, faults>>
    BY DEF LockInv, TypeOK, GetLock, At, Answers
  <1>1. CASE lock \in {NoSession, s}
    <2>1. lock' = s /\ mem' = [mem EXCEPT ![p] = x] /\ moved' = moved \ {s}
      BY <1>1 DEF GetLock
    <2>2. /\ x \in Memory /\ x.conn = s /\ x.held /\ x.pc = "idle"
          /\ x.suspect = mem[p].suspect /\ x.watched = mem[p].watched
      BY <1>0 DEF Memory, Pc
    <2>3. s \in Session /\ s # NoSession
      BY <1>0, WorkerAssumption DEF LockInv, TypeOK
    <2>. HIDE DEF x, s
    <2>4. /\ mem' \in [Proc -> Memory] /\ mem'[p] = x
          /\ \A q \in Proc \ {p} : mem'[q] = mem[q]
      BY <2>1, <2>2 DEF LockInv, TypeOK
    <2>5. \A q \in Proc : mem'[q].conn = mem[q].conn
      BY <2>2, <2>4 DEF s
    <2>6. TypeOK' /\ LockOpen' /\ Down' /\ (cut \subseteq sick)'
      BY <1>0, <2>1, <2>3, <2>4 DEF LockInv, TypeOK, LockOpen, Down
    <2>7. \A q \in Proc \ {p} : mem[q].conn # s
      BY <2>3 DEF LockInv, OwnConnection, s
    <2>8. OwnConnection' /\ LockedIsHeld'
      BY <2>1, <2>2, <2>3, <2>4, <2>5, <2>7 DEF LockInv, OwnConnection, LockedIsHeld, s
    <2>9. \A q \in Proc : mem[q].suspect # s
      BY <1>0, <2>3 DEF LockInv, SuspectHeld, s
    <2>10. SuspectHeld' /\ WatchedWrites' /\ Judged'
      BY <1>0, <2>2, <2>4, <2>5 DEF LockInv, SuspectHeld, WatchedWrites, Judged
    <2>11. KilledSick'
      BY <1>0, <2>2, <2>4, <2>5 DEF LockInv, KilledSick
    <2>12. BelieverHas'
      <3>. SUFFICES ASSUME NEW q \in Proc \ sick, mem'[q].held, mem'[q].conn \notin moved', q # p
                    PROVE  lock' = mem'[q].conn
        BY <1>0, <2>1, <2>2, <2>4 DEF BelieverHas
      <3>1. mem[q].held /\ mem[q].conn \notin moved /\ mem[q].conn # NoSession
        BY <2>1, <2>4, <2>7 DEF LockInv, OwnConnection
      <3>2. lock = mem[q].conn
        BY <3>1 DEF LockInv, BelieverHas
      <3>. QED
        BY <1>1, <2>5, <2>7, <3>1, <3>2
    <2>13. HeldIsLocked'
      <3>. SUFFICES ASSUME NEW q \in up, mem'[q].held, mem'[q].conn \in open, mem'[q].conn \notin moved', q # p
                    PROVE  lock' = mem'[q].conn
        BY <1>0, <2>1, <2>2, <2>4 DEF HeldIsLocked
      <3>0. q \in Proc
        BY DEF LockInv, TypeOK
      <3>1. mem[q].held /\ mem[q].conn \notin moved /\ mem[q].conn # NoSession
        BY <2>1, <2>4, <2>7, <3>0 DEF LockInv, OwnConnection
      <3>2. lock = mem[q].conn
        BY <2>5, <3>0, <3>1 DEF LockInv, HeldIsLocked
      <3>. QED
        BY <1>1, <2>5, <2>7, <3>0, <3>1, <3>2
    <2>. QED
      BY <2>6, <2>8, <2>10, <2>11, <2>12, <2>13 DEF LockInv
  <1>2. CASE lock \notin {NoSession, s}
    <2>1. World /\ UNCHANGED <<open, lock>> /\ cron' \in [Proc -> Cron]
          /\ Goes(p, IF mem[p].acquired THEN "lost" ELSE "used")
      BY <1>0, <1>2 DEF GetLock, World, LockInv, TypeOK
    <2>. QED
      BY <1>0, <2>1, GoesInv DEF Pc
  <1>. QED
    BY <1>1, <1>2

\* Whom it reads as the holder is watched from now on, or has been for long.
LEMMA ReadHolderInv ==
  ASSUME LockInv, NEW p \in Proc, ReadHolder(p)
  PROVE  LockInv'
  <1>0. /\ p \in up /\ mem[p] \in Memory /\ World /\ UNCHANGED <<open, lock>> /\ cron' \in [Proc -> Cron]
        /\ lock \in Session \cup {NoSession}
    BY DEF LockInv, TypeOK, ReadHolder, At
  <1>1. CASE mem' = [mem EXCEPT ![p] = [mem[p] EXCEPT !.pc = "idle"]]
    BY <1>0, <1>1, GoesInv DEF Goes, Pc
  <1>2. CASE /\ lock # NoSession
             /\ mem' = [mem EXCEPT ![p] = [mem[p] EXCEPT !.pc = "idle", !.suspect = lock, !.watched = FALSE]]
    <2>. DEFINE x == [mem[p] EXCEPT !.pc = "idle", !.suspect = lock, !.watched = FALSE]
    <2>1. /\ x \in Memory /\ x.conn = mem[p].conn /\ x.held = mem[p].held /\ x.pc = "idle"
          /\ x.suspect = lock /\ ~x.watched
      BY <1>0 DEF Memory, Pc
    <2>. HIDE DEF x
    <2>2. mem' = [mem EXCEPT ![p] = x]
      BY <1>2 DEF x
    <2>. QED
      BY <1>0, <1>2, <2>1, <2>2, QuietInv
  <1>3. CASE /\ lock # NoSession /\ lock = mem[p].suspect /\ mem[p].watched
             /\ mem' = [mem EXCEPT ![p] = [mem[p] EXCEPT !.pc = "alive"]]
    <2>. DEFINE x == [mem[p] EXCEPT !.pc = "alive"]
    <2>1. /\ x \in Memory /\ x.conn = mem[p].conn /\ x.held = mem[p].held /\ x.pc = "alive"
          /\ x.suspect = mem[p].suspect /\ x.watched = mem[p].watched
      BY <1>0 DEF Memory, Pc
    <2>. HIDE DEF x
    <2>2. mem' = [mem EXCEPT ![p] = x]
      BY <1>3 DEF x
    <2>. QED
      BY <1>0, <1>3, <2>1, <2>2, QuietInv
  <1>. QED
    BY <1>0, <1>1, <1>2, <1>3 DEF ReadHolder

\* Nobody writes that it is the worker: what has watched the holder may kill it.
LEMMA ReadHeartbeatsInv ==
  ASSUME LockInv, NEW p \in Proc, ReadHeartbeats(p)
  PROVE  LockInv'
  <1>0. /\ p \in up /\ mem[p] \in Memory /\ World /\ UNCHANGED <<open, lock>> /\ cron' \in [Proc -> Cron]
        /\ mem[p].pc = "alive"
    BY DEF LockInv, TypeOK, ReadHeartbeats, At
  <1>1. CASE Goes(p, "idle")
    BY <1>0, <1>1, GoesInv DEF Pc
  <1>2. CASE ~WorkerAlive /\ Goes(p, "kill")
    <2>. DEFINE x == [mem[p] EXCEPT !.pc = "kill"]
    <2>1. /\ x \in Memory /\ x.conn = mem[p].conn /\ x.held = mem[p].held /\ x.pc = "kill"
          /\ x.suspect = mem[p].suspect /\ x.watched = mem[p].watched
      BY <1>0 DEF Memory, Pc
    <2>2. mem' = [mem EXCEPT ![p] = x]
      BY <1>2 DEF Goes
    <2>. HIDE DEF x
    <2>3. x.suspect # NoSession /\ x.watched
      BY <1>0, <2>1 DEF LockInv, Judged
    <2>4. \A q \in Proc : mem[q].conn = x.suspect => q \in sick
      BY <1>2, <2>1, <2>3 DEF LockInv, WatchedWrites, WorkerAlive
    <2>. QED
      BY <1>0, <2>1, <2>2, <2>3, <2>4, QuietInv
  <1>. QED
    BY <1>1, <1>2 DEF ReadHeartbeats

\* The connection that is killed is nobody's who is well.
LEMMA KillInv ==
  ASSUME LockInv, NEW p \in Proc, Kill(p)
  PROVE  LockInv'
  <1>0. /\ p \in up /\ mem[p] \in Memory /\ World /\ cron' \in [Proc -> Cron] /\ mem[p].pc = "kill"
    BY DEF LockInv, TypeOK, Kill, At
  <1>1. CASE Goes(p, "idle") /\ UNCHANGED <<open, lock>>
    BY <1>0, <1>1, GoesInv DEF Pc
  <1>2. CASE /\ Close({mem[p].suspect})
             /\ mem' = [mem EXCEPT ![p] = [mem[p] EXCEPT !.pc = "idle", !.suspect = NoSession, !.watched = FALSE]]
    <2>. DEFINE s == mem[p].suspect
                x == [mem[p] EXCEPT !.pc = "idle", !.suspect = NoSession, !.watched = FALSE]
    <2>1. /\ x \in Memory /\ x.conn = mem[p].conn /\ x.held = mem[p].held /\ x.pc = "idle"
          /\ x.suspect = NoSession /\ ~x.watched
      BY <1>0 DEF Memory, Pc
    <2>. HIDE DEF x
    <2>2. mem' = [mem EXCEPT ![p] = x]
      BY <1>2 DEF x
    <2>3. /\ mem' \in [Proc -> Memory] /\ mem'[p] = x
          /\ \A q \in Proc \ {p} : mem'[q] = mem[q]
      BY <2>1, <2>2 DEF LockInv, TypeOK
    <2>4. \A q \in Proc : mem'[q].conn = mem[q].conn /\ mem'[q].held = mem[q].held
      BY <2>1, <2>3
    <2>5. open' = open \ {s} /\ lock' = IF lock = s THEN NoSession ELSE lock
      BY <1>2 DEF Close
    <2>6. \A q \in Proc : mem[q].conn = s => q \in sick
      BY <1>0 DEF LockInv, KilledSick
    <2>. HIDE DEF s
    <2>7. TypeOK' /\ LockOpen' /\ Down' /\ (cut \subseteq sick)'
      BY <1>0, <2>3, <2>5 DEF LockInv, TypeOK, LockOpen, Down, World
    <2>8. OwnConnection' /\ LockedIsHeld'
      BY <2>4, <2>5 DEF LockInv, OwnConnection, LockedIsHeld
    <2>9. SuspectHeld'
      BY <2>1, <2>3, <2>4 DEF LockInv, SuspectHeld
    <2>10. WatchedWrites' /\ Judged' /\ KilledSick'
      BY <1>0, <2>1, <2>3, <2>4 DEF LockInv, WatchedWrites, Judged, KilledSick, World
    <2>11. BelieverHas'
      BY <1>0, <2>4, <2>5, <2>6 DEF LockInv, BelieverHas, World
    <2>12. HeldIsLocked'
      <3>. SUFFICES ASSUME NEW q \in up, mem'[q].held, mem'[q].conn \in open', mem'[q].conn \notin moved
                    PROVE  lock' = mem'[q].conn
        BY <1>0 DEF HeldIsLocked, World
      <3>1. q \in Proc
        BY DEF LockInv, TypeOK
      <3>. QED
        BY <2>4, <2>5, <3>1 DEF LockInv, HeldIsLocked
    <2>. QED
      BY <2>7, <2>8, <2>9, <2>10, <2>11, <2>12 DEF LockInv
  <1>. QED
    BY <1>1, <1>2 DEF Kill

\* A process that is gone takes at most its own connection with it.
LEMMA GoneInv ==
  ASSUME LockInv, NEW p \in Proc, NEW sessions \in SUBSET {mem[p].conn}, Gone(p, sessions),
         UNCHANGED <<cut, nodes, sick, moved>>, faults' \in 0..MaxFaults
  PROVE  LockInv'
  <1>1. Started.conn = NoSession /\ ~Started.held
    BY DEF Started
  <1>2. /\ up' = up \ {p} /\ Close(sessions) /\ mem' = [mem EXCEPT ![p] = Started]
        /\ cron' \in [Proc -> Cron]
    BY StartedType DEF Gone, LockInv, TypeOK
  <1>. QED
    BY <1>1, <1>2, StartedType, LoseInv

LEMMA StopInv ==
  ASSUME LockInv, NEW p \in Proc, StopLost(p) \/ Crash(p) \/ HostDies(p)
  PROVE  LockInv'
  <1>1. faults' \in 0..MaxFaults
    BY FaultType DEF LockInv, TypeOK, StopLost, Crash, HostDies
  <1>2. UNCHANGED <<cut, nodes, sick, moved>>
    BY DEF StopLost, Crash, HostDies
  <1>3. \E sessions \in SUBSET {mem[p].conn} : Gone(p, sessions)
    BY DEF StopLost, Crash, HostDies
  <1>. QED
    BY <1>1, <1>2, <1>3, GoneInv

-----------------------------------------------------------------------------
(* The ticks                                                               *)

\* A step that leaves the lock and the memories alone.
LEMMA MemoryStays ==
  ASSUME LockInv, TypeOK', UNCHANGED <<open, lock, mem, moved>>, up \subseteq up',
         sick \subseteq sick', (cut \subseteq sick)',
         \A q \in Proc \ sick' : mem[q].held /\ nodes[q].worker /\ nodes[q].fresh =>
                                 nodes'[q].worker /\ nodes'[q].fresh
  PROVE  LockInv'
  <1>1. LockOpen' /\ Down' /\ OwnConnection' /\ LockedIsHeld' /\ SuspectHeld' /\ Judged'
    BY DEF LockInv, LockOpen, Down, OwnConnection, LockedIsHeld, SuspectHeld, Judged
  <1>2. WatchedWrites'
    BY DEF LockInv, WatchedWrites, SuspectHeld
  <1>3. KilledSick' /\ BelieverHas'
    BY DEF LockInv, KilledSick, BelieverHas
  <1>4. HeldIsLocked'
    <2>1. Started.held = FALSE
      BY DEF Started
    <2>. QED
      BY <2>1 DEF LockInv, TypeOK, HeldIsLocked, Down
  <1>. QED
    BY <1>1, <1>2, <1>3, <1>4 DEF LockInv

LEMMA CronInv ==
  ASSUME LockInv, NEW p \in Proc, CronStep(p)
  PROVE  LockInv'
  <1>0. p \in up /\ World /\ mem[p].conn \in Session \cup {NoSession}
    BY DEF LockInv, TypeOK, Memory, CronStep, CronAsks, CronAnswered, CronDone
  <1>1. cron' \in [Proc -> Cron]
    BY <1>0, StartedType DEF LockInv, TypeOK, Cron, CronStep, CronAsks, CronAnswered, CronDone
  <1>2. CASE UNCHANGED <<open, lock, mem>>
    BY <1>0, <1>1, <1>2, MemoryStays DEF World, LockInv, TypeOK
  <1>3. CASE Drop(p, mem[p].pc)
    BY <1>0, <1>1, <1>3, DropInv
  <1>. QED
    BY <1>2, <1>3 DEF CronStep, CronAsks, CronAnswered, CronDone

-----------------------------------------------------------------------------
(* Heartbeats, time and faults                                             *)

LEMMA HeartbeatsInv ==
  ASSUME LockInv, NEW p \in Proc, Heartbeat(p) \/ HeartbeatAges(p)
  PROVE  LockInv'
  <1>1. CASE Heartbeat(p)
    <2>1. mem[p].held \in BOOLEAN
      BY DEF LockInv, TypeOK, Memory
    <2>2. TypeOK'
      BY <1>1, <2>1 DEF Heartbeat, LockInv, TypeOK
    <2>. QED
      BY <1>1, <2>2, MemoryStays DEF Heartbeat, LockInv, TypeOK
  <1>2. CASE HeartbeatAges(p)
    <2>1. /\ UNCHANGED <<open, lock, up, cut, mem, cron, moved>> /\ sick \subseteq sick' /\ sick' \subseteq Proc
          /\ p \in sick' \/ p \notin up
      BY <1>2 DEF HeartbeatAges, LockInv, TypeOK
    <2>2. faults' \in 0..MaxFaults
      BY <1>2, FaultType DEF HeartbeatAges, LockInv, TypeOK
    <2>3. /\ nodes' \in [Proc -> [worker : BOOLEAN, fresh : BOOLEAN]]
          /\ \A q \in Proc \ {p} : nodes'[q] = nodes[q]
      BY <1>2 DEF HeartbeatAges, LockInv, TypeOK
    <2>4. TypeOK'
      BY <2>1, <2>2, <2>3 DEF LockInv, TypeOK
    <2>5. p \notin sick' => ~mem[p].held
      BY <2>1 DEF LockInv, Down, Started
    <2>. QED
      BY <2>1, <2>3, <2>4, <2>5, MemoryStays DEF LockInv
  <1>. QED
    BY <1>1, <1>2

\* Whom it has watched for long has written its row, if it can.
LEMMA WatchAgesInv ==
  ASSUME LockInv, NEW p \in Proc, WatchAges(p)
  PROVE  LockInv'
  <1>. DEFINE x == [mem[p] EXCEPT !.watched = TRUE]
  <1>0. /\ p \in up /\ mem[p] \in Memory /\ World /\ UNCHANGED <<open, lock, cron>>
        /\ mem[p].suspect # NoSession
        /\ mem' = [mem EXCEPT ![p] = x]
    BY DEF LockInv, TypeOK, WatchAges
  <1>1. /\ x \in Memory /\ x.conn = mem[p].conn /\ x.held = mem[p].held /\ x.pc = mem[p].pc
        /\ x.suspect = mem[p].suspect /\ x.watched
    BY <1>0 DEF Memory
  <1>. HIDE DEF x
  <1>2. /\ mem' \in [Proc -> Memory] /\ mem'[p] = x
        /\ \A q \in Proc \ {p} : mem'[q] = mem[q]
    BY <1>0, <1>1 DEF LockInv, TypeOK
  <1>3. \A q \in Proc : /\ mem'[q].conn = mem[q].conn /\ mem'[q].held = mem[q].held
                        /\ mem'[q].suspect = mem[q].suspect /\ mem'[q].pc = mem[q].pc
    BY <1>1, <1>2
  <1>4. TypeOK' /\ LockOpen' /\ Down' /\ (cut \subseteq sick)'
    BY <1>0, <1>2 DEF LockInv, TypeOK, LockOpen, Down, World
  <1>5. OwnConnection' /\ LockedIsHeld' /\ SuspectHeld'
    BY <1>0, <1>3 DEF LockInv, OwnConnection, LockedIsHeld, SuspectHeld
  <1>6. WatchedWrites'
    <2>. SUFFICES ASSUME NEW r \in Proc, NEW q \in Proc, mem[r].suspect # NoSession,
                         mem[q].conn = mem[r].suspect, mem'[r].watched, q \notin sick
                  PROVE  nodes[q].worker /\ nodes[q].fresh
      BY <1>0, <1>3 DEF WatchedWrites, World
    <2>1. CASE r # p
      BY <1>2, <2>1 DEF LockInv, WatchedWrites
    <2>2. CASE r = p
      <3>1. mem[q].held
        BY DEF LockInv, SuspectHeld
      <3>2. q \in up \ cut
        BY <3>1 DEF LockInv, Down, Started
      <3>. QED
        BY <3>1, <3>2 DEF WatchAges
    <2>. QED
      BY <2>1, <2>2
  <1>7. Judged'
    BY <1>0, <1>1, <1>2 DEF LockInv, Judged
  <1>8. KilledSick'
    BY <1>0, <1>3 DEF LockInv, KilledSick, World
  <1>9. BelieverHas' /\ HeldIsLocked'
    BY <1>0, <1>3 DEF LockInv, BelieverHas, HeldIsLocked, World, TypeOK
  <1>. QED
    BY <1>4, <1>5, <1>6, <1>7, <1>8, <1>9 DEF LockInv

\* A process that starts again has no connection and watches nobody.
LEMMA RestartInv ==
  ASSUME LockInv, NEW p \in Proc, Restart(p)
  PROVE  LockInv'
  <1>1. mem[p] = Started /\ Started.conn = NoSession /\ ~Started.held
    BY DEF LockInv, Down, Restart, Started
  <1>2. TypeOK' /\ LockOpen' /\ Down' /\ (cut \subseteq sick)'
    BY DEF LockInv, TypeOK, LockOpen, Down, Restart
  <1>3. OwnConnection' /\ LockedIsHeld' /\ SuspectHeld' /\ Judged'
    BY DEF LockInv, OwnConnection, LockedIsHeld, SuspectHeld, Judged, Restart
  <1>4. WatchedWrites'
    BY <1>1 DEF LockInv, WatchedWrites, Restart
  <1>5. KilledSick'
    BY <1>1 DEF LockInv, KilledSick, Judged, Restart
  <1>6. BelieverHas'
    BY <1>1 DEF LockInv, BelieverHas, Restart
  <1>7. HeldIsLocked'
    BY <1>1 DEF LockInv, HeldIsLocked, Restart
  <1>. QED
    BY <1>2, <1>3, <1>4, <1>5, <1>6, <1>7 DEF LockInv

LEMMA CutInv ==
  ASSUME LockInv, NEW p \in Proc, CutOff(p) \/ Heals(p)
  PROVE  LockInv'
  <1>1. faults' \in 0..MaxFaults
    BY FaultType DEF LockInv, TypeOK, CutOff, Heals
  <1>2. /\ UNCHANGED <<open, lock, up, mem, cron, nodes, moved>>
        /\ cut' \subseteq sick' /\ sick \subseteq sick' /\ sick' \subseteq Proc
    BY DEF LockInv, TypeOK, CutOff, Heals
  <1>3. TypeOK'
    BY <1>1, <1>2 DEF LockInv, TypeOK
  <1>. QED
    BY <1>2, <1>3, MemoryStays

\* The lock is gone, and whoever had it lost it in a failover.
LEMMA FailoverInv ==
  ASSUME LockInv, Failover
  PROVE  LockInv'
  <1>1. faults' \in 0..MaxFaults
    BY FaultType DEF LockInv, Failover
  <1>2. TypeOK' /\ LockOpen' /\ Down' /\ (cut \subseteq sick)'
    BY <1>1 DEF LockInv, TypeOK, LockOpen, Down, Failover
  <1>3. OwnConnection' /\ LockedIsHeld' /\ SuspectHeld' /\ Judged'
    BY DEF LockInv, OwnConnection, LockedIsHeld, SuspectHeld, Judged, Failover
  <1>4. WatchedWrites' /\ KilledSick'
    BY DEF LockInv, WatchedWrites, KilledSick, Failover
  <1>5. BelieverHas' /\ HeldIsLocked'
    BY DEF LockInv, TypeOK, BelieverHas, HeldIsLocked, Failover
  <1>. QED
    BY <1>2, <1>3, <1>4, <1>5 DEF LockInv

-----------------------------------------------------------------------------
(* The theorems                                                            *)

\* Every step keeps the invariant.
LEMMA LockNext == LockInv /\ [Next]_vars => LockInv'
  <1>. SUFFICES ASSUME LockInv, [Next]_vars PROVE LockInv'
    OBVIOUS
  <1>1. ASSUME NEW p \in Proc, LockStep(p)
        PROVE  LockInv'
    BY <1>1, TurnInv, CheckInv, UnreachableInv, ConnectInv, GetLockInv,
       ReadHolderInv, ReadHeartbeatsInv, KillInv, StopInv DEF LockStep
  <1>2. ASSUME NEW p \in Proc, CronStep(p)
        PROVE  LockInv'
    BY <1>2, CronInv
  <1>3. ASSUME NEW p \in Proc, Around(p)
        PROVE  LockInv'
    BY <1>3, HeartbeatsInv, WatchAgesInv, StopInv, RestartInv, CutInv DEF Around
  <1>4. CASE Failover
    BY <1>4, FailoverInv
  <1>5. CASE UNCHANGED vars
    <2>1. TypeOK' /\ (cut \subseteq sick)'
      BY <1>5 DEF vars, LockInv, TypeOK
    <2>. QED
      BY <1>5, <2>1, MemoryStays DEF vars
  <1>. QED
    BY <1>1, <1>2, <1>3, <1>4, <1>5 DEF Next

\* What a process knows of its lock is right, for every behaviour.
LEMMA LockAlways == Spec => []LockInv
  BY LockInit, LockNext, PTL DEF Spec

\* The connections, the memories and the rows always have the shapes the code gives them.
THEOREM LockTypes == Spec => []TypeOK
  <1>1. LockInv => TypeOK
    BY DEF LockInv
  <1>. QED
    BY <1>1, LockAlways, PTL

\* A process that believes it holds the lock does, while its connection lives and no failover took
\* the lock, for any number of processes, connections and faults.
THEOREM LockHeld == Spec => []HeldIsLocked
  <1>1. LockInv => HeldIsLocked
    BY DEF LockInv
  <1>. QED
    BY <1>1, LockAlways, PTL

\* Of two processes that believe they hold the lock, one was cut off, wrote no heartbeat or lost it
\* in a failover.
THEOREM LockBelievers == Spec => []TwoBelieversAreSick
  <1>1. LockInv => TwoBelieversAreSick
    <2>. SUFFICES ASSUME LockInv, NEW p \in up, NEW q \in up, mem[p].held, mem[q].held, p # q,
                         {p, q} \cap sick = {}, {mem[p].conn, mem[q].conn} \cap moved = {}
                  PROVE  FALSE
      BY DEF TwoBelieversAreSick
    <2>1. p \in Proc \ sick /\ q \in Proc \ sick
      BY DEF LockInv, TypeOK
    <2>2. lock = mem[p].conn /\ lock = mem[q].conn
      BY <2>1 DEF LockInv, BelieverHas
    <2>. QED
      BY <2>1, <2>2 DEF LockInv, OwnConnection
  <1>. QED
    BY <1>1, LockAlways, PTL

\* No waiting process kills the connection of a worker that lives and writes heartbeats.
THEOREM LockLiveWorker == Spec => LiveWorkerKept
  <1>1. LockInv =>
          \A p, q \in Proc :
            Kill(p) /\ lock = mem[p].suspect /\ lock # NoSession /\ lock' = NoSession
                    /\ q \in up /\ mem[q].conn = lock => q \in sick
    BY DEF LockInv, KilledSick, Kill, At
  <1>. QED
    BY <1>1, LockAlways, PTL DEF LiveWorkerKept
=============================================================================

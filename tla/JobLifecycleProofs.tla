------------------------- MODULE JobLifecycleProofs -------------------------
(***************************************************************************)
(* What a job goes through in JobLifecycle, for every set of nodes, jobs   *)
(* and loops and any number of faults: its state has the right shape, it   *)
(* is launched once, it ends once, its end stays and is what happened, and *)
(* every step keeps JobPromise. One loop follows a job and no followed job *)
(* is given up, when the only faults are crashes; a job given up with its  *)
(* node can be followed again, when its form asks for no approval.         *)
(***************************************************************************)
EXTENDS JobLifecycle, TLAPS

-----------------------------------------------------------------------------
(* What the statements of the jobs table return                            *)

\* Every move of a job's status maps a row to a row.
LEMMA MoveTyping ==
  ASSUME NEW r \in Row
  PROVE  /\ \A o \in Outcome : EndRow(r, o) \in Row
         /\ HoldRow(r) \in Row /\ RejectRow(r) \in Row
         /\ GiveUpRow(r) \in Row
         /\ \A n \in Node \cup {NoNode} : CreateRow(r, n) \in Row /\ ContinueRow(r, n) \in Row
<1>1. ASSUME NEW from, NEW to \in Status, NEW end \in BOOLEAN
      PROVE  TransitionStatus(r, from, to, end) \in Row
  <2> DEFINE flag == r.abort_requested /\ (\/ to \notin TERMINAL_STATUS
                                           \/ to = "rejected" /\ r.job_type = "workflow")
  <2>1. flag \in BOOLEAN
    OBVIOUS
  <2> HIDE DEF flag
  <2>2. [r EXCEPT !.status = to, !.end = end, !.abort_requested = flag] \in Row
    BY <2>1 DEF Row
  <2>3. QED
    BY <2>2 DEF TransitionStatus, flag
<1>2. {"approve", "rejected", "running", "abandoned"} \cup Outcome \subseteq Status
  BY DEF Status, TERMINAL_STATUS, Outcome
<1>3. \A o \in Outcome : EndRow(r, o) \in Row
  BY <1>1, <1>2 DEF EndRow
<1>4. HoldRow(r) \in Row /\ RejectRow(r) \in Row
  BY <1>1, <1>2 DEF HoldRow, RejectRow
<1>5. GiveUpRow(r) \in Row
  BY <1>2 DEF GiveUpRow, Row
<1>6. \A n \in Node \cup {NoNode} : CreateRow(r, n) \in Row /\ ContinueRow(r, n) \in Row
  BY <1>2 DEF CreateRow, ContinueRow, Row
<1>7. QED
  BY <1>3, <1>4, <1>5, <1>6

\* So does every statement of an abort.
LEMMA AbortTyping ==
  ASSUME NEW r \in Row
  PROVE  RequestAbortRow(r) \in Row /\ ResetAbortRow(r) \in Row
  BY DEF RequestAbortRow, ResetAbortRow, Row

\* So does every sweep, and the claim of a take-over.
LEMMA SweepTyping ==
  ASSUME NEW r \in Row
  PROVE  /\ AbandonQuietRow(r) \in Row
         /\ \A t, u : AbandonOwnRow(r, t, u) \in Row
         /\ \A n, recent, kept : AbandonDeadRow(r, n, recent, kept) \in Row
         /\ \A n \in Node : \A seen : ClaimRow(r, seen, n) \in Row
<1>1. AbandonedRow(r) \in Row
  BY DEF AbandonedRow, Row, Status, TERMINAL_STATUS
<1>2. \A n \in Node : \A seen : ClaimRow(r, seen, n) \in Row
  BY DEF ClaimRow, Row, Status
<1>3. QED
  BY <1>1, <1>2 DEF AbandonQuietRow, AbandonOwnRow, AbandonDeadRow

LEMMA AbsentTyping ==
  AbsentRow("awx") \in Row /\ [AbsentRow("awx") EXCEPT !.status = "deleted"] \in Row
  BY DEF Row, AbsentRow, Status, JobType

-----------------------------------------------------------------------------
(* The loops                                                               *)

LoopState == {FreeLoop} \cup ActiveLoop

\* A loop that runs is one of a node, on a job.
LEMMA ActiveTyping ==
  ASSUME TypeOK, NEW l \in Loop, loop[l].pc # "free"
  PROVE  /\ loop[l] \in ActiveLoop
         /\ JobOf(l) \in Job /\ loop[l].node \in Node /\ loop[l].answer \in Outcome
<1>1. loop[l] \in ActiveLoop
  BY DEF TypeOK, FreeLoop
<1>2. QED
  BY <1>1 DEF ActiveLoop, JobOf

\* The loop that is started is one that was free, and no other changes.
LEMMA StartedLoop ==
  ASSUME NEW pc, NEW j, NEW n, StartLoop(pc, j, n)
  PROVE  \E l \in Loop : /\ loop[l].pc = "free"
                         /\ loop' = [loop EXCEPT ![l] = [pc |-> pc, job |-> j, node |-> n, answer |-> "failed"]]
<1>1. PICK l \in FreeLoops : l = CHOOSE k \in FreeLoops : TRUE
  BY DEF StartLoop
<1>2. QED
  BY <1>1 DEF StartLoop, FreeLoops

LEMMA StartLoopTyping ==
  ASSUME TypeOK, NEW pc \in LoopPc \ {"free"}, NEW j \in Job, NEW n \in Node, StartLoop(pc, j, n)
  PROVE  loop' \in [Loop -> LoopState]
<1>1. [pc |-> pc, job |-> j, node |-> n, answer |-> "failed"] \in ActiveLoop
  BY DEF ActiveLoop, Outcome
<1>2. PICK l \in Loop : loop' = [loop EXCEPT ![l] = [pc |-> pc, job |-> j, node |-> n, answer |-> "failed"]]
  BY StartedLoop
<1>3. QED
  BY <1>1, <1>2 DEF TypeOK, LoopState

\* What a loop does to its own state.
LEMMA MoveLoopTyping ==
  ASSUME TypeOK, NEW l \in Loop, loop[l].pc # "free"
  PROVE  /\ \A pc \in LoopPc \ {"free"} : Goto(l, pc) => loop' \in [Loop -> LoopState]
         /\ \A o \in Outcome : Answer(l, o) => loop' \in [Loop -> LoopState]
         /\ Stop(l) => loop' \in [Loop -> LoopState]
<1>1. loop[l] \in ActiveLoop
  BY ActiveTyping
<1>2. loop \in [Loop -> LoopState]
  BY DEF TypeOK, LoopState
<1>3. ASSUME NEW pc \in LoopPc \ {"free"}, Goto(l, pc) PROVE loop' \in [Loop -> LoopState]
  <2>1. [loop[l] EXCEPT !.pc = pc] \in ActiveLoop
    BY <1>1 DEF ActiveLoop
  <2>2. QED
    BY <1>2, <1>3, <2>1 DEF Goto, LoopState
<1>4. ASSUME NEW o \in Outcome, Answer(l, o) PROVE loop' \in [Loop -> LoopState]
  <2>1. [loop[l] EXCEPT !.pc = "end", !.answer = o] \in ActiveLoop
    BY <1>1 DEF ActiveLoop, LoopPc
  <2>2. QED
    BY <1>2, <1>4, <2>1 DEF Answer, LoopState
<1>5. Stop(l) => loop' \in [Loop -> LoopState]
  BY <1>2 DEF Stop, LoopState
<1>6. QED
  BY <1>3, <1>4, <1>5

-----------------------------------------------------------------------------
(* Type correctness                                                        *)

\* What the jobs are at first: not there, or running since before 7.
LEMMA InitRows ==
  ASSUME Init, NEW j \in Job
  PROVE  /\ row[j] \in Row /\ row[j].job_type = "awx"
         /\ ~row[j].abort_requested /\ ~row[j].awx_id
         /\ row[j].status \in {"absent", "running"}
         /\ hist[j].launched = IF row[j].status = "running" THEN 1 ELSE 0
         /\ hist[j].ended = 0
<1>1. AbsentRow("awx").status = "absent" /\ AbsentRow("awx").job_type = "awx"
      /\ ~AbsentRow("awx").abort_requested /\ ~AbsentRow("awx").awx_id
  BY DEF AbsentRow
<1>2. LegacyRow.status = "running" /\ LegacyRow.job_type = "awx" /\ ~LegacyRow.abort_requested
      /\ ~LegacyRow.awx_id
  BY DEF LegacyRow, CreateRow, AbsentRow
<1>3. LegacyRow \in Row
  BY AbsentTyping, MoveTyping DEF LegacyRow
<1>4. row[j] = AbsentRow("awx") \/ row[j] = LegacyRow
  BY DEF Init
<1>5. hist[j].launched = (IF row[j] = LegacyRow THEN 1 ELSE 0) /\ hist[j].ended = 0
  BY DEF Init
<1>6. QED
  BY <1>1, <1>2, <1>3, <1>4, <1>5, AbsentTyping

\* The initial state is well-typed, rows of older versions included.
THEOREM InitTypeOK == Init => TypeOK
<1> SUFFICES ASSUME Init PROVE TypeOK
  OBVIOUS
<1>1. row \in [Job -> Row]
  BY InitRows DEF Init
<1>2. mem \in [Node -> [own : BOOLEAN, untracked : BOOLEAN, acquired : BOOLEAN, asked : SUBSET BOOLEAN]]
  BY DEF Init, NewMemory
<1>3. task \in [Node -> [Thread -> [pc : {"idle", "confirmed", "find", "claim"},
                                   found : SUBSET (Job \X (Node \cup {NoNode}))]]]
  BY DEF Init, IdleTask
<1>4. hist \in [Job -> [ended : Nat, launched : Nat, gaveUp : BOOLEAN]]
  BY DEF Init
<1>5. QED
  BY <1>1, <1>2, <1>3, <1>4, JobAssumption DEF Init, TypeOK, RemoteStatus

TaskType == [pc : {"idle", "confirmed", "find", "claim"}, found : SUBSET (Job \X (Node \cup {NoNode}))]
MemType == [own : BOOLEAN, untracked : BOOLEAN, acquired : BOOLEAN, asked : SUBSET BOOLEAN]
HistType == [ended : Nat, launched : Nat, gaveUp : BOOLEAN]

\* One process's memory, one take-over or one job's history changes at a time.
LEMMA MemTyping ==
  ASSUME TypeOK, NEW n \in Node, NEW m \in MemType
  PROVE  [mem EXCEPT ![n] = m] \in [Node -> MemType]
  BY DEF TypeOK, MemType

LEMMA MemFieldTyping ==
  ASSUME NEW m \in MemType, NEW b \in BOOLEAN, NEW asked \in SUBSET BOOLEAN
  PROVE  /\ [m EXCEPT !.asked = asked] \in MemType
         /\ [m EXCEPT !.acquired = TRUE, !.asked = asked] \in MemType
         /\ [m EXCEPT !.own = TRUE, !.untracked = b, !.asked = asked] \in MemType
  BY DEF MemType

LEMMA TaskTyping ==
  ASSUME TypeOK, NEW n \in Node, NEW t \in Thread, NEW x \in TaskType
  PROVE  [task EXCEPT ![n] = [task[n] EXCEPT ![t] = x]] \in [Node -> [Thread -> TaskType]]
  BY DEF TypeOK, TaskType

LEMMA TaskPcTyping ==
  ASSUME TypeOK, NEW n \in Node, NEW t \in Thread, NEW pc \in {"idle", "confirmed", "find", "claim"}
  PROVE  [task EXCEPT ![n] = [task[n] EXCEPT ![t] = [task[n][t] EXCEPT !.pc = pc]]]
           \in [Node -> [Thread -> TaskType]]
<1>1. task[n][t] \in TaskType
  BY DEF TypeOK, TaskType
<1>2. [task[n][t] EXCEPT !.pc = pc] \in TaskType
  BY <1>1 DEF TaskType
<1>3. QED
  BY <1>2, TaskTyping

LEMMA HistTyping ==
  ASSUME NEW h \in HistType
  PROVE  /\ [h EXCEPT !.launched = @ + 1] \in HistType /\ [h EXCEPT !.ended = @ + 1] \in HistType
         /\ [h EXCEPT !.gaveUp = TRUE] \in HistType
<1>1. [h EXCEPT !.launched = h.launched + 1] \in HistType
  BY DEF HistType
<1>2. [h EXCEPT !.ended = h.ended + 1] \in HistType
  BY DEF HistType
<1>3. [h EXCEPT !.gaveUp = TRUE] \in HistType
  BY DEF HistType
<1>4. QED
  BY <1>1, <1>2, <1>3

\* The processes keep the types: start, crash, heartbeats, the worker lock.
LEMMA ProcessTyping ==
  ASSUME TypeOK, NEW n \in Node,
         \/ Start(n) \/ Crash(n) \/ Heartbeat(n) \/ Lapse(n) \/ TakeLock(n) \/ StopLostWorker(n)
         \/ LoseLock
  PROVE  TypeOK'
<1> USE JobAssumption DEF Fault
<1>1. ASSUME Forget(n)
      PROVE  /\ up' \subseteq Node /\ lock' \in Node \cup {NoNode}
             /\ mem' \in [Node -> MemType] /\ task' \in [Node -> [Thread -> TaskType]]
             /\ loop' \in [Loop -> LoopState]
  BY <1>1 DEF Forget, TypeOK, NewMemory, IdleTask, MemType, TaskType, LoopState
<1>2. CASE Start(n)
  BY <1>2 DEF Start, TypeOK
<1>3. CASE Crash(n)
  BY <1>1, <1>3 DEF Crash, TypeOK, MemType, TaskType, LoopState
<1>4. CASE Heartbeat(n)
  BY <1>4 DEF Heartbeat, TypeOK
<1>5. CASE Lapse(n)
  BY <1>5 DEF Lapse, TypeOK
<1>6. CASE TakeLock(n)
  <2>1. mem' \in [Node -> MemType]
    <3> DEFINE S == IF mem[n].acquired THEN mem[n].asked ELSE mem[n].asked \cup {TRUE}
    <3>1. S \in SUBSET BOOLEAN /\ mem[n] \in MemType
      BY DEF TypeOK, MemType
    <3>2. mem' = [mem EXCEPT ![n] = [mem[n] EXCEPT !.acquired = TRUE, !.asked = S]]
      BY <1>6, Zenon DEF TakeLock
    <3> HIDE DEF S
    <3>3. QED
      BY <3>1, <3>2, MemFieldTyping, MemTyping
  <2>2. QED
    BY <1>6, <2>1 DEF TakeLock, TypeOK, MemType
<1>7. CASE StopLostWorker(n)
  BY <1>1, <1>7 DEF StopLostWorker, TypeOK, MemType, TaskType, LoopState
<1>8. CASE LoseLock
  BY <1>8 DEF LoseLock, TypeOK
<1>9. QED
  BY <1>2, <1>3, <1>4, <1>5, <1>6, <1>7, <1>8

\* So do the take-overs and the sweeps.
LEMMA TakeOverTyping ==
  ASSUME TypeOK, NEW n \in Node,
         \/ \E u \in BOOLEAN : StartTakeOver(n, u) \/ StartTakeOverFails(n, u)
         \/ ConfirmSweep(n) \/ SweepDeadNodes(n)
         \/ \E t \in Thread : Resuming(n, t)
         \/ \E quiet \in SUBSET Job : SweepQuiet(n, quiet)
  PROVE  TypeOK'
<1> USE JobAssumption DEF Fault
<1>1. ASSUME NEW u \in BOOLEAN, StartTakeOver(n, u) PROVE TypeOK'
  <2>1. row' \in [Job -> Row]
    BY <1>1, SweepTyping DEF StartTakeOver, TypeOK
  <2>2. mem' \in [Node -> MemType]
    <3> DEFINE U == mem[n].untracked \/ u
               S == mem[n].asked \ {u}
    <3>1. U \in BOOLEAN /\ S \in SUBSET BOOLEAN /\ mem[n] \in MemType
      BY DEF TypeOK, MemType
    <3>2. mem' = [mem EXCEPT ![n] = [mem[n] EXCEPT !.own = TRUE, !.untracked = U, !.asked = S]]
      BY <1>1, Zenon DEF StartTakeOver
    <3> HIDE DEF U, S
    <3>3. QED
      BY <3>1, <3>2, MemFieldTyping, MemTyping
  <2>3. task' \in [Node -> [Thread -> TaskType]]
    BY <1>1, TaskPcTyping DEF StartTakeOver, Thread
  <2>4. QED
    BY <1>1, <2>1, <2>2, <2>3 DEF StartTakeOver, TypeOK, MemType, TaskType
<1>2. ASSUME NEW u \in BOOLEAN, StartTakeOverFails(n, u) PROVE TypeOK'
  <2>1. mem' \in [Node -> MemType]
    <3>1. mem[n].asked \ {u} \in SUBSET BOOLEAN /\ mem[n] \in MemType
      BY DEF TypeOK, MemType
    <3>2. mem' = [mem EXCEPT ![n] = [mem[n] EXCEPT !.asked = mem[n].asked \ {u}]]
      BY <1>2 DEF StartTakeOverFails, TypeOK
    <3>3. QED
      BY <3>1, <3>2, MemFieldTyping, MemTyping
  <2>2. QED
    BY <1>2, <2>1 DEF StartTakeOverFails, TypeOK, MemType
<1>3. CASE ConfirmSweep(n)
  <2>1. task' \in [Node -> [Thread -> TaskType]]
    BY <1>3, TaskPcTyping DEF ConfirmSweep, Thread
  <2>2. QED
    BY <1>3, <2>1 DEF ConfirmSweep, TypeOK, TaskType
<1>4. CASE SweepDeadNodes(n)
  <2>1. row' \in [Job -> Row]
    BY <1>4, SweepTyping DEF SweepDeadNodes, TypeOK
  <2>2. task' \in [Node -> [Thread -> TaskType]]
    BY <1>4, TaskPcTyping DEF SweepDeadNodes, Thread
  <2>3. QED
    BY <1>4, <2>1, <2>2 DEF SweepDeadNodes, TypeOK, TaskType
<1>5. ASSUME NEW t \in Thread, FindResumable(n, t) PROVE TypeOK'
  <2> DEFINE found == {<<j, row[j].tracker>> : j \in {i \in Job : Resumable(row[i], i \in old)}}
  <2>1. found \in SUBSET (Job \X (Node \cup {NoNode}))
    BY DEF TypeOK, Row
  <2>2. IdleTask \in TaskType /\ [pc |-> "claim", found |-> found] \in TaskType
    BY <2>1 DEF IdleTask, TaskType
  <2>3. task' \in [Node -> [Thread -> TaskType]]
    BY <1>5, <2>2 DEF FindResumable, TypeOK, TaskType
  <2>4. QED
    BY <1>5, <2>3 DEF FindResumable, TypeOK, TaskType
<1>6. ASSUME NEW t \in Thread, NEW j \in Job, NEW seen \in Node \cup {NoNode}, ClaimAbandoned(n, t, j, seen)
      PROVE  TypeOK'
  <2>1. row' \in [Job -> Row]
    BY <1>6, SweepTyping DEF ClaimAbandoned, TypeOK
  <2>2. task' \in [Node -> [Thread -> TaskType]]
    <3>1. task[n][t] \in TaskType /\ IdleTask \in TaskType
      BY DEF TypeOK, TaskType, IdleTask
    <3>2. [task[n][t] EXCEPT !.found = task[n][t].found \ {<<j, seen>>}] \in TaskType
      BY <3>1 DEF TaskType
    <3>3. QED
      BY <1>6, <3>1, <3>2, TaskTyping DEF ClaimAbandoned
  <2>3. loop' \in [Loop -> LoopState]
    <3>1. "resume" \in LoopPc \ {"free"}
      BY DEF LoopPc
    <3>2. CASE Claimable(row[j], seen)
      BY <1>6, <3>1, <3>2, StartLoopTyping DEF ClaimAbandoned
    <3>3. CASE ~Claimable(row[j], seen)
      BY <1>6, <3>3 DEF ClaimAbandoned, TypeOK, LoopState
    <3>4. QED
      BY <3>2, <3>3
  <2>4. QED
    BY <1>6, <2>1, <2>2, <2>3 DEF ClaimAbandoned, TypeOK, TaskType, LoopState
<1>7. ASSUME NEW quiet \in SUBSET Job, SweepQuiet(n, quiet) PROVE TypeOK'
  <2>1. row' \in [Job -> Row]
    BY <1>7, SweepTyping DEF SweepQuiet, TypeOK
  <2>2. task' \in [Node -> [Thread -> TaskType]]
    BY <1>7, TaskPcTyping DEF SweepQuiet, Thread
  <2>3. QED
    BY <1>7, <2>1, <2>2 DEF SweepQuiet, TypeOK, TaskType
<1>8. QED
  BY <1>1, <1>2, <1>3, <1>4, <1>5, <1>6, <1>7 DEF Resuming

\* So do the users and the remote jobs.
LEMMA UserTyping ==
  ASSUME TypeOK, NEW j \in Job, UserStep(j) \/ RemoteEnds(j) \/ ADayPasses(j)
  PROVE  TypeOK'
<1>1. {"gate", "dispatch"} \subseteq LoopPc \ {"free"}
  BY DEF LoopPc
<1>2. ASSUME NEW n \in Node, Launch(n, j) PROVE TypeOK'
  <2>1. row' \in [Job -> Row]
    BY <1>2, MoveTyping DEF Launch, TypeOK
  <2>2. loop' \in [Loop -> LoopState]
    BY <1>1, <1>2, StartLoopTyping DEF Launch
  <2>3. QED
    BY <1>2, <2>1, <2>2 DEF Launch, TypeOK, LoopState
<1>3. ASSUME NEW n \in Node, Approve(n, j) PROVE TypeOK'
  <2>1. row' \in [Job -> Row]
    BY <1>3, MoveTyping DEF Approve, TypeOK
  <2>2. loop' \in [Loop -> LoopState]
    BY <1>1, <1>3, StartLoopTyping DEF Approve
  <2>3. QED
    BY <1>3, <2>1, <2>2 DEF Approve, TypeOK, LoopState
<1>4. CASE Reject(j)
  BY <1>4, MoveTyping DEF Reject, TypeOK
<1>5. CASE Abort(j)
  <2>1. row' \in [Job -> Row]
    BY <1>5, AbortTyping DEF Abort, TypeOK
  <2>2. remote' \in [Job -> RemoteStatus]
    BY <1>5 DEF Abort, TypeOK, RemoteStatus
  <2>3. QED
    BY <1>5, <2>1, <2>2 DEF Abort, TypeOK
<1>6. CASE Delete(j)
  BY <1>6, AbsentTyping DEF Delete, TypeOK
<1>7. CASE RemoteEnds(j)
  BY <1>7 DEF RemoteEnds, TypeOK, RemoteStatus
<1>8. CASE ADayPasses(j)
  BY <1>8, JobAssumption DEF ADayPasses, TypeOK
<1>9. QED
  BY <1>2, <1>3, <1>4, <1>5, <1>6, <1>7, <1>8 DEF UserStep

\* So do the loops.
LEMMA LoopTyping ==
  ASSUME TypeOK, NEW l \in Loop, LoopStep(l)
  PROVE  TypeOK'
<1>1. loop[l].pc # "free"
  BY DEF LoopStep, Gate, DispatchFails, Post, StoreRemoteId, Resume, GiveUp, Check, Poll, PollAborts,
         LoseContact, End, At
<1>2. JobOf(l) \in Job /\ row[JobOf(l)] \in Row /\ loop[l].answer \in Outcome
  BY <1>1, ActiveTyping DEF TypeOK
<1>3. loop' \in [Loop -> LoopState]
  <2>1. {"posted", "check", "poll"} \subseteq LoopPc \ {"free"}
    BY DEF LoopPc
  <2>2. {"failed", "aborted"} \subseteq Outcome /\ \A s \in DOMAIN Outcomes : Outcomes[s] \in Outcome
    BY DEF Outcome, Outcomes
  <2>3. Gate(l) \/ DispatchFails(l) \/ Post(l) \/ StoreRemoteId(l) => loop' \in [Loop -> LoopState]
    BY <1>1, <2>1, <2>2, MoveLoopTyping DEF Gate, DispatchFails, Post, StoreRemoteId
  <2>4. Resume(l) \/ GiveUp(l) \/ Check(l) \/ End(l) => loop' \in [Loop -> LoopState]
    BY <1>1, <2>1, MoveLoopTyping DEF Resume, GiveUp, Check, End
  <2>5. Poll(l) \/ PollAborts(l) \/ LoseContact(l) => loop' \in [Loop -> LoopState]
    BY <1>1, <2>1, <2>2, MoveLoopTyping DEF Poll, PollAborts, LoseContact
  <2>6. QED
    BY <2>3, <2>4, <2>5 DEF LoopStep
<1>4. row' \in [Job -> Row]
  <2>1. [row[JobOf(l)] EXCEPT !.awx_id = TRUE] \in Row
    BY <1>2 DEF Row
  <2>2. ASSUME NEW r \in Row, row' = [row EXCEPT ![JobOf(l)] = r] PROVE row' \in [Job -> Row]
    BY <2>2 DEF TypeOK
  <2>3. Gate(l) \/ GiveUp(l) \/ End(l) => row' \in [Job -> Row]
    BY <1>2, <2>2, MoveTyping DEF Gate, GiveUp, End
  <2>4. PollAborts(l) \/ LoseContact(l) => row' \in [Job -> Row]
    BY <1>2, <2>2, AbortTyping DEF PollAborts, LoseContact
  <2>5. StoreRemoteId(l) => row' \in [Job -> Row]
    BY <1>2, <2>1, <2>2 DEF StoreRemoteId, StoreIdRow, TypeOK
  <2>6. DispatchFails(l) \/ Post(l) \/ Resume(l) \/ Check(l) \/ Poll(l) => row' \in [Job -> Row]
    BY DEF DispatchFails, Post, Resume, Check, Poll, TypeOK
  <2>7. QED
    BY <2>3, <2>4, <2>5, <2>6 DEF LoopStep
<1>5. remote' \in [Job -> RemoteStatus]
  BY <1>2 DEF TypeOK, RemoteStatus, LoopStep, Gate, DispatchFails, Post, StoreRemoteId, Resume, GiveUp,
           Check, Poll, PollAborts, LoseContact, End
<1>6. hist' \in [Job -> HistType]
  <2>1. hist \in [Job -> HistType] /\ hist[JobOf(l)] \in HistType
    BY <1>2 DEF TypeOK, HistType
  <2>3. CASE GiveUp(l)
    BY <2>1, <2>3, HistTyping DEF GiveUp
  <2>4. CASE Post(l)
    BY <2>1, <2>4, HistTyping DEF Post
  <2>5. CASE End(l)
    BY <2>1, <2>5, HistTyping DEF End
  <2>6. ASSUME UNCHANGED hist PROVE hist' \in [Job -> HistType]
    BY <2>1, <2>6
  <2>7. QED
    BY <2>3, <2>4, <2>5, <2>6
       DEF LoopStep, Gate, DispatchFails, StoreRemoteId, Resume, Check, Poll, PollAborts, LoseContact
<1>7. SharedUnchanged
  BY DEF LoopStep, Gate, DispatchFails, Post, StoreRemoteId, Resume, GiveUp, Check, Poll, PollAborts,
         LoseContact, End
<1>8. QED
  BY <1>3, <1>4, <1>5, <1>6, <1>7 DEF TypeOK, SharedUnchanged, LoopState, HistType

LEMMA NextTypeOK == TypeOK /\ [Next]_vars => TypeOK'
<1> SUFFICES ASSUME TypeOK, [Next]_vars PROVE TypeOK'
  OBVIOUS
<1>1. ASSUME NEW n \in Node, NodeStep(n) PROVE TypeOK'
  BY <1>1, ProcessTyping, TakeOverTyping DEF NodeStep, StartThread, SweepThread, Thread
<1>2. CASE LoseLock
  <2>1. lock \in Node
    BY <1>2 DEF LoseLock, TypeOK
  <2>2. QED
    BY <1>2, <2>1, ProcessTyping
<1>3. ASSUME NEW j \in Job, UserStep(j) \/ RemoteEnds(j) \/ ADayPasses(j) PROVE TypeOK'
  BY <1>3, UserTyping
<1>4. ASSUME NEW l \in Loop, LoopStep(l) PROVE TypeOK'
  BY <1>4, LoopTyping
<1>5. CASE UNCHANGED vars
  BY <1>5 DEF vars, TypeOK
<1>6. QED
  BY <1>1, <1>2, <1>3, <1>4, <1>5 DEF Next

\* Every variable keeps its type, whatever the nodes, the users and the faults do.
THEOREM TypeCorrect == Spec => []TypeOK
  BY InitTypeOK, NextTypeOK, PTL DEF Spec


-----------------------------------------------------------------------------
(* What the statements may do to a job                                     *)

\* A sweep abandons a job that is running, or a workflow that waits, or leaves it alone.
Swept(r, s) ==
  /\ r.status = "running" \/ r.job_type = "workflow"
  /\ r.status \in {"running", "approve"} /\ s.status = "abandoned" /\ ~s.abort_requested
  /\ s.awx_id = r.awx_id /\ s.job_type = r.job_type

LEMMA SweepFacts ==
  ASSUME NEW r \in Row
  PROVE  /\ AbandonQuietRow(r) = r \/ Swept(r, AbandonQuietRow(r))
         /\ \A t, u : AbandonOwnRow(r, t, u) = r \/ Swept(r, AbandonOwnRow(r, t, u))
         /\ \A n, recent, kept :
              AbandonDeadRow(r, n, recent, kept) = r \/ Swept(r, AbandonDeadRow(r, n, recent, kept))
<1>1. UnderWay(r) => Swept(r, AbandonedRow(r))
  BY DEF AbandonedRow, Row, Swept, UnderWay
<1>2. AbandonQuietRow(r) = r \/ (AbandonQuietRow(r) = AbandonedRow(r) /\ UnderWay(r))
  BY DEF AbandonQuietRow, UnderWay
<1>3. ASSUME NEW t, NEW u
      PROVE  AbandonOwnRow(r, t, u) = r \/ (AbandonOwnRow(r, t, u) = AbandonedRow(r) /\ UnderWay(r))
  BY DEF AbandonOwnRow
<1>4. ASSUME NEW n, NEW recent, NEW kept
      PROVE  \/ AbandonDeadRow(r, n, recent, kept) = r
             \/ AbandonDeadRow(r, n, recent, kept) = AbandonedRow(r) /\ UnderWay(r)
  BY DEF AbandonDeadRow
<1>5. QED
  BY <1>1, <1>2, <1>3, <1>4

\* An end moves a job that runs or is abandoned, the first one only.
LEMMA EndFacts ==
  ASSUME NEW r \in Row, NEW o \in Outcome
  PROVE  /\ r.status \notin ENDS_FROM => EndRow(r, o) = r
         /\ r.status \in ENDS_FROM => EndRow(r, o).status = o /\ ~EndRow(r, o).abort_requested
         /\ EndRow(r, o).awx_id = r.awx_id /\ EndRow(r, o).job_type = r.job_type
<1>1. o \in TERMINAL_STATUS /\ o # "rejected"
  BY DEF Outcome, TERMINAL_STATUS
<1>2. QED
  BY <1>1 DEF EndRow, TransitionStatus, Row

\* The hold of an approval, and its rejection.
LEMMA HoldFacts ==
  ASSUME NEW r \in Row
  PROVE  /\ r.status # "running" => HoldRow(r) = r
         /\ r.status = "running" => HoldRow(r).status = "approve"
         /\ HoldRow(r).awx_id = r.awx_id /\ HoldRow(r).job_type = r.job_type
  BY DEF HoldRow, TransitionStatus, Row, TERMINAL_STATUS

LEMMA RejectFacts ==
  ASSUME NEW r \in Row, r.status = "approve"
  PROVE  /\ RejectRow(r).status = "rejected"
         /\ r.job_type # "workflow" => ~RejectRow(r).abort_requested
         /\ RejectRow(r).awx_id = r.awx_id /\ RejectRow(r).job_type = r.job_type
  BY DEF RejectRow, TransitionStatus, Row, TERMINAL_STATUS

\* What makes a job run, or run again.
LEMMA RunFacts ==
  ASSUME NEW r \in Row, NEW n \in Node \cup {NoNode}, NEW seen
  PROVE  /\ CreateRow(r, n) = [r EXCEPT !.status = "running", !.tracker = n]
         /\ r.status = "approve" => ContinueRow(r, n) = [r EXCEPT !.status = "running", !.tracker = n]
         /\ Claimable(r, seen) => /\ r.status = "abandoned"
                                  /\ ClaimRow(r, seen, n) = [r EXCEPT !.status = "running", !.tracker = n]
         /\ ~Claimable(r, seen) => ClaimRow(r, seen, n) = r
         /\ r.status = "running" => GiveUpRow(r) = [r EXCEPT !.status = "abandoned", !.end = TRUE]
         /\ r.status # "running" => GiveUpRow(r) = r
  BY DEF CreateRow, ContinueRow, ClaimRow, Claimable, GiveUpRow

\* What the steps of the processes and the sweeps leave of the jobs.
LEMMA ProcessFacts ==
  ASSUME NEW n \in Node,
         \/ Start(n) \/ Crash(n) \/ Heartbeat(n) \/ Lapse(n) \/ TakeLock(n) \/ StopLostWorker(n)
         \/ LoseLock \/ (\E u \in BOOLEAN : StartTakeOverFails(n, u)) \/ ConfirmSweep(n)
         \/ \E t \in Thread : FindResumable(n, t)
  PROVE  UNCHANGED <<row, hist, remote>>
  BY DEF Start, Crash, Heartbeat, Lapse, TakeLock, StopLostWorker, LoseLock, StartTakeOverFails,
         ConfirmSweep, FindResumable

SweepStep(n) ==
  \/ \E u \in BOOLEAN : StartTakeOver(n, u)
  \/ SweepDeadNodes(n)
  \/ \E quiet \in SUBSET Job : SweepQuiet(n, quiet)

LEMMA SweepStepFacts ==
  ASSUME TypeOK, NEW n \in Node, SweepStep(n)
  PROVE  /\ UNCHANGED <<hist, remote, loop>>
         /\ \A j \in Job : row'[j] = row[j] \/ Swept(row[j], row'[j])
<1>1. \A j \in Job : row[j] \in Row
  BY DEF TypeOK
<1>2. ASSUME NEW u \in BOOLEAN, StartTakeOver(n, u)
      PROVE  \A j \in Job : row'[j] = row[j] \/ Swept(row[j], row'[j])
  BY <1>1, <1>2, SweepFacts DEF StartTakeOver
<1>3. CASE SweepDeadNodes(n)
  BY <1>1, <1>3, SweepFacts DEF SweepDeadNodes
<1>4. ASSUME NEW quiet \in SUBSET Job, SweepQuiet(n, quiet)
      PROVE  \A j \in Job : row'[j] = row[j] \/ Swept(row[j], row'[j])
  BY <1>1, <1>4, SweepFacts DEF SweepQuiet
<1>5. UNCHANGED <<hist, remote, loop>>
  BY DEF SweepStep, StartTakeOver, SweepDeadNodes, SweepQuiet
<1>6. QED
  BY <1>2, <1>3, <1>4, <1>5 DEF SweepStep

\* Every step of a node is one of these.
LEMMA NodeSteps ==
  ASSUME NEW n \in Node, NodeStep(n)
  PROVE  \/ Start(n) \/ Crash(n) \/ Heartbeat(n) \/ Lapse(n) \/ TakeLock(n) \/ StopLostWorker(n)
         \/ (\E u \in BOOLEAN : StartTakeOverFails(n, u)) \/ ConfirmSweep(n)
         \/ SweepStep(n)
         \/ \E t \in Thread : FindResumable(n, t)
         \/ \E t \in Thread, j \in Job, seen \in Node \cup {NoNode} : ClaimAbandoned(n, t, j, seen)
  BY DEF NodeStep, StartThread, SweepThread, Resuming, SweepStep, Thread

\* What the steps of a loop leave of the jobs: its own job's row and history are all they touch.
LEMMA LoopFacts ==
  ASSUME TypeOK, NEW l \in Loop, LoopStep(l)
  PROVE  /\ loop[l].pc # "free" /\ JobOf(l) \in Job
         /\ \A k \in Job : k # JobOf(l) => row'[k] = row[k] /\ hist'[k] = hist[k] /\ remote'[k] = remote[k]
         /\ UNCHANGED task
<1>1. loop[l].pc # "free" /\ SharedUnchanged
  BY DEF LoopStep, Gate, DispatchFails, Post, StoreRemoteId, Resume, GiveUp, Check, Poll, PollAborts,
         LoseContact, End, At
<1>2. JobOf(l) \in Job
  BY <1>1, ActiveTyping
<1>3. ASSUME NEW k \in Job, k # JobOf(l)
      PROVE  row'[k] = row[k] /\ hist'[k] = hist[k] /\ remote'[k] = remote[k]
  BY <1>2, <1>3 DEF TypeOK, LoopStep, Gate, DispatchFails, Post, StoreRemoteId, Resume, GiveUp, Check, Poll,
                    PollAborts, LoseContact, End
<1>4. QED
  BY <1>1, <1>2, <1>3 DEF SharedUnchanged

-----------------------------------------------------------------------------
(* A job ends once                                                         *)

LEMMA EndedOnceStep ==
  ASSUME TypeOK, EndedOnce, [Next]_vars
  PROVE  EndedOnce'
<1> USE DEF Outcome
<1>1. ASSUME NEW n \in Node, NodeStep(n) PROVE EndedOnce'
  <2>1. CASE SweepStep(n)
    BY <2>1, SweepStepFacts DEF EndedOnce, Swept
  <2>2. ASSUME NEW t \in Thread, NEW j \in Job, NEW seen \in Node \cup {NoNode}, ClaimAbandoned(n, t, j, seen)
        PROVE  EndedOnce'
    <3>1. row[j] \in Row
      BY DEF TypeOK
    <3>2. row'[j] = ClaimRow(row[j], seen, n)
      BY <2>2 DEF ClaimAbandoned, TypeOK
    <3>3. row'[j] = row[j] \/ (row[j].status = "abandoned" /\ row'[j].status = "running")
      BY <3>1, <3>2 DEF ClaimRow, Claimable, Row
    <3>4. QED
      BY <2>2, <3>3 DEF ClaimAbandoned, EndedOnce, TypeOK
  <2>3. CASE UNCHANGED <<row, hist>>
    BY <2>3 DEF EndedOnce
  <2>4. QED
    BY <1>1, <2>1, <2>2, <2>3, NodeSteps, ProcessFacts
<1>2. CASE LoseLock
  BY <1>2 DEF LoseLock, EndedOnce
<1>3. ASSUME NEW j \in Job, UserStep(j) \/ RemoteEnds(j) \/ ADayPasses(j) PROVE EndedOnce'
  <2>1. row[j] \in Row
    BY DEF TypeOK
  <2>2. ASSUME NEW n \in Node, Launch(n, j) PROVE EndedOnce'
    BY <2>1, <2>2 DEF Launch, CreateRow, Row, TypeOK, EndedOnce
  <2>3. ASSUME NEW n \in Node, Approve(n, j) PROVE EndedOnce'
    BY <2>1, <2>3 DEF Approve, ContinueRow, Row, TypeOK, EndedOnce
  <2>4. CASE Reject(j)
    <3>1. row[j].status = "approve" /\ row'[j].status = "rejected" /\ hist' = hist
      BY <2>1, <2>4, RejectFacts DEF Reject, TypeOK
    <3>2. QED
      BY <2>4, <3>1 DEF Reject, TypeOK, EndedOnce
  <2>5. CASE Abort(j)
    <3>1. row'[j].status = row[j].status
      BY <2>1, <2>5 DEF Abort, RequestAbortRow, Row, TypeOK
    <3>2. QED
      BY <2>5, <3>1 DEF Abort, TypeOK, EndedOnce
  <2>6. CASE Delete(j)
    BY <2>6 DEF Delete, AbsentRow, TypeOK, EndedOnce
  <2>7. CASE RemoteEnds(j) \/ ADayPasses(j)
    BY <2>7 DEF RemoteEnds, ADayPasses, EndedOnce
  <2>8. QED
    BY <1>3, <2>2, <2>3, <2>4, <2>5, <2>6, <2>7 DEF UserStep
<1>4. ASSUME NEW l \in Loop, LoopStep(l) PROVE EndedOnce'
  <2> DEFINE j == JobOf(l)
  <2>1. j \in Job /\ row[j] \in Row /\ hist[j] \in HistType
    BY <1>4, LoopFacts DEF TypeOK, HistType
  <2>2. /\ loop[l].answer \in Outcome
        /\ \A k \in Job : k # j => row'[k] = row[k] /\ hist'[k] = hist[k]
    BY <1>4, LoopFacts, ActiveTyping
  <2> HIDE DEF j
  <2> SUFFICES /\ row'[j].status \in Outcome => hist'[j].ended = 1
               /\ row'[j].status \notin Outcome \cup {"deleted"} => hist'[j].ended = 0
               /\ hist'[j].ended <= 1
    BY <2>2 DEF EndedOnce
  <2>3. CASE Gate(l)
    <3>1. row'[j] = HoldRow(row[j]) /\ hist' = hist
      BY <2>1, <2>3 DEF Gate, TypeOK, j
    <3>2. row'[j] = row[j] \/ (row[j].status = "running" /\ row'[j].status = "approve")
      BY <2>1, <3>1, HoldFacts
    <3>3. QED
      BY <2>1, <3>1, <3>2 DEF EndedOnce
  <2>4. CASE GiveUp(l)
    <3>1. row'[j] = GiveUpRow(row[j]) /\ hist'[j].ended = hist[j].ended
      BY <2>1, <2>4 DEF GiveUp, TypeOK, j
    <3>2. row'[j] = row[j] \/ (row[j].status = "running" /\ row'[j].status = "abandoned")
      BY <2>1, <3>1 DEF GiveUpRow, Row
    <3>3. QED
      BY <2>1, <3>1, <3>2 DEF EndedOnce
  <2>5. CASE End(l)
    <3>1. row'[j] = EndRow(row[j], loop[l].answer)
      BY <2>1, <2>5 DEF End, TypeOK, j
    <3>2. CASE row[j].status \in ENDS_FROM
      <4>1. hist'[j].ended = hist[j].ended + 1
        BY <2>1, <2>5, <3>2 DEF End, TypeOK, j
      <4>2. QED
        BY <2>1, <2>2, <3>1, <3>2, <4>1, EndFacts DEF EndedOnce, ENDS_FROM
    <3>3. CASE row[j].status \notin ENDS_FROM
      <4>1. hist' = hist
        BY <2>5, <3>3 DEF End, j
      <4>2. QED
        BY <2>1, <2>2, <3>1, <3>3, <4>1, EndFacts DEF EndedOnce
    <3>4. QED
      BY <3>2, <3>3
  <2>6. CASE DispatchFails(l) \/ Post(l) \/ StoreRemoteId(l) \/ Resume(l) \/ Check(l) \/ Poll(l)
             \/ PollAborts(l) \/ LoseContact(l)
    <3>1. row'[j].status = row[j].status
      BY <2>1, <2>6 DEF DispatchFails, Post, StoreRemoteId, Resume, Check, Poll, PollAborts, LoseContact,
                        StoreIdRow, ResetAbortRow, TypeOK, Row, j
    <3>2. hist'[j].ended = hist[j].ended
      BY <2>1, <2>6 DEF DispatchFails, Post, StoreRemoteId, Resume, Check, Poll, PollAborts, LoseContact,
                        TypeOK, HistType, j
    <3>3. QED
      BY <2>1, <3>1, <3>2 DEF EndedOnce
  <2>7. QED
    BY <1>4, <2>3, <2>4, <2>5, <2>6 DEF LoopStep
<1>5. CASE UNCHANGED vars
  BY <1>5 DEF vars, EndedOnce
<1>6. QED
  BY <1>1, <1>2, <1>3, <1>4, <1>5 DEF Next

\* A job ends once, whatever loops, take-overs and aborts race to end it.
THEOREM EndedOnceHolds == Spec => []EndedOnce
<1>1. Init => EndedOnce
  BY InitRows DEF EndedOnce, Outcome
<1>2. TypeOK /\ EndedOnce /\ [Next]_vars => EndedOnce'
  BY EndedOnceStep
<1>3. QED
  BY <1>1, <1>2, TypeCorrect, PTL DEF Spec

-----------------------------------------------------------------------------
(* What the steps leave of the loops and of what a take-over read          *)

\* A loop that moves keeps its job; a loop that stops follows nothing; no other loop changes.
LEMMA MoveLoopFacts ==
  ASSUME TypeOK, NEW l \in Loop, loop[l].pc # "free",
         NEW pc \in LoopPc \ {"free"}, Goto(l, pc) \/ (pc = "end" /\ \E o \in Outcome : Answer(l, o))
  PROVE  /\ \A m \in Loop : m # l => loop'[m] = loop[m]
         /\ \A m \in Loop, k \in Job : Follows(m, k)' <=> Follows(m, k)
         /\ loop'[l].pc = pc
<1>1. loop[l] \in ActiveLoop
  BY ActiveTyping
<1>2. \A m \in Loop : m # l => loop'[m] = loop[m]
  BY DEF Goto, Answer, TypeOK
<1>3. loop'[l].pc = pc /\ loop'[l].job = loop[l].job
  BY <1>1 DEF Goto, Answer, TypeOK, ActiveLoop
<1>4. QED
  BY <1>2, <1>3 DEF Follows

LEMMA StopLoopFacts ==
  ASSUME TypeOK, NEW l \in Loop, Stop(l)
  PROVE  /\ \A m \in Loop : m # l => loop'[m] = loop[m]
         /\ \A k \in Job : ~Follows(l, k)'
  BY DEF Stop, TypeOK, Follows, FreeLoop

LEMMA StartLoopFacts ==
  ASSUME TypeOK, NEW pc, NEW j, NEW n, StartLoop(pc, j, n)
  PROVE  \E l \in Loop : /\ \A k \in Job : ~Follows(l, k)
                         /\ loop'[l].pc = pc /\ loop'[l].job = j
                         /\ \A m \in Loop : m # l => loop'[m] = loop[m]
  BY StartedLoop DEF TypeOK, Follows

\* A take-over reads jobs in FindResumable only, and only those that were launched on AWX and are not
\* a day old.
LEMMA ReadFacts ==
  ASSUME TypeOK, [Next]_vars, NEW j \in Job, Read(j)'
  PROVE  Read(j) \/ (row[j].awx_id /\ j \notin old)
<1>1. PICK n \in Node, t \in Thread, seen \in Node \cup {NoNode} : <<j, seen>> \in task'[n][t].found
  BY DEF Read
<1>2. CASE <<j, seen>> \in task[n][t].found
  BY <1>2 DEF Read
<1>3. CASE <<j, seen>> \notin task[n][t].found
  <2>1. UNCHANGED task => FALSE
    BY <1>1, <1>3
  <2>2. ASSUME NEW m \in Node, NEW u \in Thread, FindResumable(m, u) PROVE row[j].awx_id /\ j \notin old
    <3> DEFINE found == {<<k, row[k].tracker>> : k \in {i \in Job : Resumable(row[i], i \in old)}}
    <3>1. task'[n][t].found = task[n][t].found \/ task'[n][t].found = found \/ task'[n][t].found = {}
      BY <2>2 DEF FindResumable, TypeOK, IdleTask
    <3>2. <<j, seen>> \in found
      BY <1>1, <1>3, <3>1
    <3>3. QED
      BY <3>2 DEF Resumable
  <2>3. ASSUME NEW m \in Node, NEW u \in Thread, NEW k \in Job, NEW s \in Node \cup {NoNode},
               ClaimAbandoned(m, u, k, s)
        PROVE  FALSE
    BY <1>1, <1>3, <2>3 DEF ClaimAbandoned, TypeOK, IdleTask
  <2>4. ASSUME NEW m \in Node, Forget(m) PROVE FALSE
    BY <1>1, <1>3, <2>4 DEF Forget, TypeOK, IdleTask
  <2>5. ASSUME NEW m \in Node, SweepStep(m) \/ ConfirmSweep(m) PROVE FALSE
    <3>1. ASSUME NEW u \in Thread, NEW pc, task' = [task EXCEPT ![m][u].pc = pc] PROVE FALSE
      <4>1. task'[n][t].found = task[n][t].found
        BY <3>1 DEF TypeOK
      <4>2. QED
        BY <1>1, <1>3, <4>1
    <3>2. ASSUME NEW u \in BOOLEAN, StartTakeOver(m, u) PROVE FALSE
      <4>1. \E pc : task' = [task EXCEPT ![m]["start"].pc = pc]
        BY <3>2, Zenon DEF StartTakeOver
      <4>2. QED
        BY <3>1, <4>1 DEF Thread
    <3>3. CASE SweepDeadNodes(m)
      <4>1. \E pc : task' = [task EXCEPT ![m]["sweep"].pc = pc]
        BY <3>3, Zenon DEF SweepDeadNodes
      <4>2. QED
        BY <3>1, <4>1 DEF Thread
    <3>4. CASE ConfirmSweep(m)
      BY <3>1, <3>4 DEF ConfirmSweep, Thread
    <3>5. ASSUME NEW quiet, SweepQuiet(m, quiet) PROVE FALSE
      BY <3>1, <3>5 DEF SweepQuiet, Thread
    <3>6. QED
      BY <2>5, <3>2, <3>3, <3>4, <3>5 DEF SweepStep
  <2>6. ASSUME NEW m \in Node, NodeStep(m) PROVE row[j].awx_id /\ j \notin old
    BY <2>1, <2>2, <2>3, <2>4, <2>5, <2>6, NodeSteps
       DEF Start, Crash, Heartbeat, Lapse, TakeLock, StopLostWorker, StartTakeOverFails
  <2>7. LoseLock => FALSE
    BY <2>1 DEF LoseLock
  <2>8. ASSUME NEW k \in Job, UserStep(k) \/ RemoteEnds(k) \/ ADayPasses(k) PROVE FALSE
    BY <2>1, <2>8 DEF UserStep, Launch, Approve, Reject, Abort, Delete, RemoteEnds, ADayPasses
  <2>9. ASSUME NEW l \in Loop, LoopStep(l) PROVE FALSE
    BY <2>1, <2>9, LoopFacts
  <2>10. QED
    BY <2>1, <2>6, <2>7, <2>8, <2>9 DEF Next, vars
<1>4. QED
  BY <1>2, <1>3

-----------------------------------------------------------------------------
(* A job is launched once                                                  *)

Early == {"absent", "approve", "rejected"}

\* What most steps do to a job: it does not come to wait, it ends only when no loop is to launch it,
\* and no loop starts on it.
LEMMA LaunchKept ==
  ASSUME TypeOK, [Next]_vars, NEW k \in Job, LaunchOK(k),
         hist'[k].launched = hist[k].launched,
         row'[k].status \in Early => row[k].status \in Early,
         row'[k].status \in Outcome => row[k].status \in Outcome \/ ~\E l \in Loop : Launches(l, k)',
         row'[k].awx_id => row[k].awx_id \/ hist[k].launched = 1,
         \A l \in Loop : /\ Follows(l, k)' => Follows(l, k)
                         /\ Launches(l, k)' => Launches(l, k)
                         /\ Posted(l, k)' => Posted(l, k)
  PROVE  LaunchOK(k)'
<1>1. Read(k)' => Read(k) \/ row[k].awx_id
  BY ReadFacts
<1>2. row'[k].status \in Early => hist'[k].launched = 0 /\ ~\E l \in Loop : Follows(l, k)'
  BY DEF LaunchOK, Early
<1>3. \A l \in Loop : Launches(l, k)' => /\ hist'[k].launched = 0 /\ row'[k].status \notin Outcome
                                         /\ \A m \in Loop : Follows(m, k)' => m = l
  BY DEF LaunchOK
<1>4. row'[k].awx_id \/ Read(k)' \/ (\E l \in Loop : Posted(l, k)') => hist'[k].launched = 1
  BY <1>1 DEF LaunchOK
<1>5. hist'[k].launched <= 1
  BY DEF LaunchOK
<1>6. QED
  BY <1>2, <1>3, <1>4, <1>5 DEF LaunchOK, Early

\* The steps of the nodes: a sweep only abandons, a crash only frees loops, and a job that is taken
\* over was launched, so that no loop is to launch it.
LEMMA NodeLaunchOK ==
  ASSUME TypeOK, OneLauncher, [Next]_vars, NEW n \in Node, NodeStep(n), NEW k \in Job
  PROVE  LaunchOK(k)'
<1>0. LaunchOK(k) /\ row[k] \in Row
  BY DEF OneLauncher, TypeOK
<1>1. CASE SweepStep(n)
  BY <1>0, <1>1, SweepStepFacts, LaunchKept DEF Swept, Early, Outcome, Follows, Launches, Posted
<1>2. ASSUME NEW t \in Thread, NEW j \in Job, NEW seen \in Node \cup {NoNode}, ClaimAbandoned(n, t, j, seen)
      PROVE  LaunchOK(k)'
  <2>1. UNCHANGED hist
    BY <1>2 DEF ClaimAbandoned
  <2>2. CASE k # j \/ ~Claimable(row[j], seen)
    <3>1. row'[k] = row[k]
      BY <1>2, <2>2 DEF ClaimAbandoned, ClaimRow, TypeOK
    <3>2. CASE ~Claimable(row[j], seen)
      BY <1>0, <1>2, <2>1, <3>1, <3>2, LaunchKept DEF ClaimAbandoned, Follows, Launches, Posted
    <3>3. CASE k # j /\ Claimable(row[j], seen)
      <4>1. PICK l \in Loop : /\ loop'[l].job = j
                              /\ \A m \in Loop : m # l => loop'[m] = loop[m]
        BY <1>2, <3>3, StartLoopFacts DEF ClaimAbandoned
      <4>2. QED
        BY <1>0, <2>1, <3>1, <3>3, <4>1, LaunchKept DEF Follows, Launches, Posted
    <3>4. QED
      BY <2>2, <3>2, <3>3
  <2>3. CASE k = j /\ Claimable(row[j], seen)
    <3>1. row'[j].status = "running" /\ row'[j].awx_id = row[j].awx_id
      BY <1>0, <1>2, <2>3 DEF ClaimAbandoned, ClaimRow, TypeOK, Row
    <3>2. hist[j].launched = 1
      <4>1. Read(j)
        BY <1>2 DEF ClaimAbandoned, Read
      <4>2. QED
        BY <1>0, <2>3, <4>1 DEF LaunchOK
    <3>3. PICK l \in Loop : /\ loop'[l].pc = "resume"
                            /\ \A m \in Loop : m # l => loop'[m] = loop[m]
      BY <1>2, <2>3, StartLoopFacts DEF ClaimAbandoned
    <3>4. \A m \in Loop : ~Launches(m, j)'
      BY <1>0, <2>3, <3>2, <3>3 DEF LaunchOK, Launches, Follows
    <3>5. QED
      BY <2>1, <2>3, <3>1, <3>2, <3>4 DEF LaunchOK, Outcome
  <2>4. QED
    BY <2>2, <2>3
<1>3. CASE Crash(n) \/ StopLostWorker(n)
  <2>1. Forget(n) /\ UNCHANGED <<row, hist>>
    BY <1>3 DEF Crash, StopLostWorker
  <2>2. \A l \in Loop : loop'[l] = loop[l] \/ loop'[l].pc = "free"
    BY <2>1 DEF Forget, FreeLoop
  <2>3. QED
    BY <1>0, <2>1, <2>2, LaunchKept DEF Follows, Launches, Posted
<1>4. CASE UNCHANGED <<row, hist, loop>>
  BY <1>0, <1>4, LaunchKept DEF Follows, Launches, Posted
<1>5. QED
  BY <1>1, <1>2, <1>3, <1>4, NodeSteps
     DEF Start, Heartbeat, Lapse, TakeLock, StartTakeOverFails, ConfirmSweep, FindResumable

\* The steps of the users: a launch and an approval start the one loop that is to launch the job.
LEMMA UserLaunchOK ==
  ASSUME TypeOK, OneLauncher, [Next]_vars, NEW j \in Job,
         UserStep(j) \/ RemoteEnds(j) \/ ADayPasses(j), NEW k \in Job
  PROVE  LaunchOK(k)'
<1>1. LaunchOK(k) /\ row[k] \in Row
  BY DEF OneLauncher, TypeOK
<1>2. UNCHANGED hist
  BY DEF UserStep, Launch, Approve, Reject, Abort, Delete, RemoteEnds, ADayPasses
<1>3. ASSUME NEW pc, NEW n \in Node, StartLoop(pc, j, n), row[j].status \in {"absent", "approve"},
             row'[j].status = "running", row'[j].awx_id = row[j].awx_id,
             \A i \in Job : i # j => row'[i] = row[i],
             pc \in {"gate", "dispatch"}
      PROVE  LaunchOK(k)'
  <2>1. PICK l \in Loop : /\ loop'[l].pc = pc /\ loop'[l].job = j
                          /\ \A m \in Loop : m # l => loop'[m] = loop[m]
    BY <1>3, StartLoopFacts
  <2>2. CASE k # j
    BY <1>1, <1>2, <1>3, <2>1, <2>2, LaunchKept DEF Follows, Launches, Posted
  <2>3. CASE k = j
    <3>1. hist[k].launched = 0 /\ ~(row[k].awx_id \/ Read(k)) /\ \A m \in Loop : ~Follows(m, k)
      BY <1>1, <1>3, <2>3 DEF LaunchOK
    <3>2. \A m \in Loop : Follows(m, k)' => m = l
      BY <2>1, <2>3, <3>1 DEF Follows
    <3>3. \A m \in Loop : ~Posted(m, k)'
      BY <1>3, <2>1, <3>2 DEF Posted
    <3>4. ~Read(k)'
      BY <3>1, ReadFacts
    <3>5. QED
      BY <1>2, <1>3, <2>3, <3>1, <3>2, <3>3, <3>4 DEF LaunchOK, Launches, Outcome
  <2>4. QED
    BY <2>2, <2>3
<1>4. ASSUME NEW n \in Node, Launch(n, j) PROVE LaunchOK(k)'
  <2>1. \A i \in Job : i # j => row'[i] = row[i]
    BY <1>4 DEF Launch, TypeOK
  <2>2. row'[j].status = "running" /\ row'[j].awx_id = row[j].awx_id
    BY <1>4 DEF Launch, CreateRow, TypeOK, Row
  <2>3. QED
    BY <1>3, <1>4, <2>1, <2>2 DEF Launch
<1>5. ASSUME NEW n \in Node, Approve(n, j) PROVE LaunchOK(k)'
  <2>1. \A i \in Job : i # j => row'[i] = row[i]
    BY <1>5 DEF Approve, TypeOK
  <2>2. row'[j].status = "running" /\ row'[j].awx_id = row[j].awx_id
    BY <1>5 DEF Approve, ContinueRow, TypeOK, Row
  <2>3. QED
    BY <1>3, <1>5, <2>1, <2>2 DEF Approve
<1>6. ASSUME UNCHANGED loop,
             \/ row'[k] = row[k]
             \/ row'[k].status = "rejected" /\ row[k].status = "approve" /\ row'[k].awx_id = row[k].awx_id
             \/ row'[k].status = row[k].status /\ row'[k].awx_id = row[k].awx_id
             \/ row'[k].status = "deleted" /\ ~row'[k].awx_id
      PROVE  LaunchOK(k)'
  BY <1>1, <1>2, <1>6, LaunchKept DEF Follows, Launches, Posted, Early, Outcome
<1>7. CASE Reject(j)
  BY <1>1, <1>6, <1>7, RejectFacts DEF Reject, TypeOK
<1>8. CASE Abort(j)
  <2>1. row'[k].status = row[k].status /\ row'[k].awx_id = row[k].awx_id
    BY <1>1, <1>8 DEF Abort, RequestAbortRow, TypeOK, Row
  <2>2. QED
    BY <1>6, <1>8, <2>1 DEF Abort
<1>9. CASE Delete(j)
  <2>1. row'[k] = row[k] \/ (row'[k].status = "deleted" /\ ~row'[k].awx_id)
    BY <1>9 DEF Delete, AbsentRow, TypeOK
  <2>2. QED
    BY <1>6, <1>9, <2>1 DEF Delete
<1>10. CASE RemoteEnds(j) \/ ADayPasses(j)
  BY <1>6, <1>10 DEF RemoteEnds, ADayPasses
<1>11. QED
  BY <1>4, <1>5, <1>7, <1>8, <1>9, <1>10 DEF UserStep

\* The steps of the loops: only the one loop that is to launch a job launches it.
LEMMA LoopLaunchOK ==
  ASSUME TypeOK, OneLauncher, [Next]_vars, NEW l \in Loop, LoopStep(l), NEW k \in Job
  PROVE  LaunchOK(k)'
<1> DEFINE j == JobOf(l)
<1>1. /\ LaunchOK(k) /\ row[k] \in Row /\ hist[k] \in HistType
      /\ loop[l].pc # "free" /\ loop[l] \in ActiveLoop /\ j \in Job
      /\ \A i \in Job : i # j => row'[i] = row[i] /\ hist'[i] = hist[i]
  BY LoopFacts, ActiveTyping DEF OneLauncher, TypeOK, HistType
<1>2. Follows(l, j) /\ \A i \in Job : Follows(l, i) => i = j
  BY <1>1 DEF Follows, JobOf
<1>3. ASSUME NEW pc \in {"check", "poll", "end", "posted"},
             Goto(l, pc) \/ (pc = "end" /\ \E o \in Outcome : Answer(l, o)),
             pc = "posted" => k # j,
             hist'[k].launched = hist[k].launched, row'[k].status = row[k].status,
             row'[k].awx_id => row[k].awx_id \/ hist[k].launched = 1
      PROVE  LaunchOK(k)'
  <2>1. pc \in LoopPc \ {"free"}
    BY DEF LoopPc
  <2>2. /\ \A m \in Loop : m # l => loop'[m] = loop[m]
        /\ \A m \in Loop, i \in Job : Follows(m, i)' <=> Follows(m, i)
        /\ loop'[l].pc = pc
    BY <1>1, <1>3, <2>1, MoveLoopFacts
  <2>3. QED
    BY <1>1, <1>2, <1>3, <2>2, LaunchKept DEF Launches, Posted, Early
<1>4. ASSUME Stop(l), hist'[k].launched = hist[k].launched,
             row'[k].status \in Early => row[k].status \in Early,
             row'[k].status \in Outcome => row[k].status \in Outcome \/ ~\E m \in Loop : Launches(m, k)',
             row'[k].awx_id = row[k].awx_id
      PROVE  LaunchOK(k)'
  <2>1. /\ \A m \in Loop : m # l => loop'[m] = loop[m]
        /\ ~Follows(l, k)'
    BY <1>4, StopLoopFacts
  <2>2. QED
    BY <1>1, <1>4, <2>1, LaunchKept DEF Follows, Launches, Posted
<1>5. CASE Gate(l)
  <2>1. row'[k] = IF k = j THEN HoldRow(row[k]) ELSE row[k]
    BY <1>1, <1>5 DEF Gate, TypeOK
  <2>2. UNCHANGED hist /\ Stop(l)
    BY <1>5 DEF Gate
  <2>3. CASE k # j \/ row[k].status # "running"
    BY <1>1, <1>4, <2>1, <2>2, <2>3, HoldFacts
  <2>4. CASE k = j /\ row[k].status = "running"
    <3>1. row'[k].status = "approve" /\ row'[k].awx_id = row[k].awx_id
      BY <1>1, <2>1, <2>4, HoldFacts
    <3>2. hist[k].launched = 0 /\ \A m \in Loop : Follows(m, k) => m = l
      BY <1>1, <1>2, <1>5, <2>4 DEF Gate, At, LaunchOK, Launches
    <3>3. \A m \in Loop : ~Follows(m, k)'
      <4>1. ~Follows(l, k)' /\ \A m \in Loop : m # l => loop'[m] = loop[m]
        BY <2>2, StopLoopFacts
      <4>2. QED
        BY <3>2, <4>1 DEF Follows
    <3>4. ~row'[k].awx_id /\ ~Read(k)'
      BY <1>1, <3>1, <3>2, ReadFacts DEF LaunchOK
    <3>5. QED
      BY <2>2, <3>1, <3>2, <3>3, <3>4 DEF LaunchOK, Launches, Posted
  <2>5. QED
    BY <2>3, <2>4
<1>6. CASE Post(l)
  <2>1. /\ \/ Goto(l, "posted")
           \/ Answer(l, "failed")
        /\ UNCHANGED row /\ hist' = [hist EXCEPT ![j].launched = @ + 1]
    BY <1>6 DEF Post
  <2>2. CASE k # j
    BY <1>1, <1>3, <2>1, <2>2 DEF Outcome
  <2>3. CASE k = j
    <3>1. /\ hist[k].launched = 0 /\ row[k].status \notin Outcome
          /\ \A m \in Loop : Follows(m, k) => m = l
      BY <1>1, <1>2, <1>6, <2>3 DEF Post, At, LaunchOK, Launches
    <3>2. hist'[k].launched = 1 /\ row[k].status \notin {"absent", "approve", "rejected"}
      BY <1>1, <1>2, <2>1, <2>3, <3>1 DEF LaunchOK, TypeOK, HistType
    <3>3. \A m \in Loop : ~Launches(m, k)'
      <4>1. PICK pc \in {"posted", "end"} : Goto(l, pc) \/ (pc = "end" /\ \E o \in Outcome : Answer(l, o))
        BY <2>1 DEF Outcome
      <4>2. pc \in LoopPc \ {"free"}
        BY DEF LoopPc
      <4>3. loop'[l].pc = pc /\ \A m \in Loop, i \in Job : Follows(m, i)' <=> Follows(m, i)
        BY <1>1, <4>1, <4>2, MoveLoopFacts
      <4>4. QED
        BY <3>1, <4>3 DEF Launches
    <3>4. QED
      BY <2>1, <3>1, <3>2, <3>3 DEF LaunchOK
  <2>4. QED
    BY <2>2, <2>3
<1>7. CASE StoreRemoteId(l)
  <2>1. Posted(l, j)
    BY <1>2, <1>7 DEF StoreRemoteId, At, Posted
  <2>2. row'[k] = row[k] \/ (k = j /\ row'[k] = StoreIdRow(row[k]))
    BY <1>1, <1>7 DEF StoreRemoteId, TypeOK
  <2>3. row'[k].status = row[k].status
    BY <1>1, <2>2 DEF StoreIdRow, Row
  <2>4. row'[k].awx_id => row[k].awx_id \/ hist[k].launched = 1
    BY <1>1, <2>1, <2>2 DEF LaunchOK
  <2>5. UNCHANGED hist /\ (Goto(l, "check") \/ Answer(l, "failed"))
    BY <1>7 DEF StoreRemoteId
  <2>6. QED
    BY <1>3, <2>3, <2>4, <2>5 DEF Outcome
<1>8. CASE GiveUp(l)
  <2>1. row'[k] = row[k] \/ (row[k].status = "running" /\ row'[k] = [row[k] EXCEPT !.status = "abandoned", !.end = TRUE])
    BY <1>1, <1>8 DEF GiveUp, GiveUpRow, TypeOK
  <2>2. hist'[k].launched = hist[k].launched /\ Stop(l)
    BY <1>1, <1>8 DEF GiveUp, TypeOK, HistType
  <2>3. QED
    BY <1>1, <1>4, <2>1, <2>2 DEF Early, Outcome, Row
<1>9. CASE End(l)
  <2>1. row'[k] = IF k = j THEN EndRow(row[k], loop[l].answer) ELSE row[k]
    BY <1>1, <1>9 DEF End, TypeOK
  <2>2. hist'[k].launched = hist[k].launched /\ Stop(l)
    BY <1>1, <1>9 DEF End, TypeOK, HistType
  <2>3. CASE k # j
    BY <1>1, <1>4, <2>1, <2>2, <2>3
  <2>4. CASE k = j
    <3>1. loop[l].answer \in Outcome
      BY <1>1 DEF ActiveLoop
    <3>2. \A m \in Loop : ~Launches(m, k)'
      <4>1. \A m \in Loop : ~Launches(m, k)
        BY <1>1, <1>2, <1>9, <2>4 DEF End, At, LaunchOK, Launches
      <4>2. ~Follows(l, k)' /\ \A m \in Loop : m # l => loop'[m] = loop[m]
        BY <2>2, StopLoopFacts
      <4>3. QED
        BY <4>1, <4>2 DEF Launches, Follows
    <3>3. QED
      BY <1>1, <1>4, <2>1, <2>2, <2>4, <3>1, <3>2, EndFacts DEF Early, Outcome
  <2>5. QED
    BY <2>3, <2>4
<1>10. CASE Check(l)
  BY <1>1, <1>3, <1>4, <1>10 DEF Check
<1>11. CASE DispatchFails(l) \/ Resume(l) \/ Poll(l)
  <2>1. \A s \in DOMAIN Outcomes : Outcomes[s] \in Outcome
    BY DEF Outcomes, Outcome
  <2>2. QED
    BY <1>3, <1>11, <2>1 DEF DispatchFails, Resume, Poll, Outcome
<1>12. CASE PollAborts(l) \/ LoseContact(l)
  <2>1. row'[k].status = row[k].status /\ row'[k].awx_id = row[k].awx_id
    BY <1>1, <1>12 DEF PollAborts, LoseContact, ResetAbortRow, TypeOK, Row
  <2>2. UNCHANGED hist /\ (Goto(l, "check") \/ \E o \in Outcome : Answer(l, o))
    BY <1>12 DEF PollAborts, LoseContact, Outcome
  <2>3. QED
    BY <1>3, <2>1, <2>2
<1>13. QED
  BY <1>5, <1>6, <1>7, <1>8, <1>9, <1>10, <1>11, <1>12 DEF LoopStep

LEMMA OneLauncherStep ==
  ASSUME TypeOK, OneLauncher, [Next]_vars
  PROVE  OneLauncher'
<1> SUFFICES ASSUME NEW k \in Job PROVE LaunchOK(k)'
  BY DEF OneLauncher
<1>1. CASE UNCHANGED <<row, hist, loop>>
  BY <1>1, LaunchKept DEF OneLauncher, Follows, Launches, Posted
<1>2. QED
  BY <1>1, NodeLaunchOK, UserLaunchOK, LoopLaunchOK DEF Next, vars, LoseLock

LEMMA InitOneLauncher == Init => OneLauncher
<1> SUFFICES ASSUME Init, NEW k \in Job PROVE LaunchOK(k)
  BY DEF OneLauncher
<1>1. \A l \in Loop : ~Follows(l, k)
  BY DEF Init, Follows, FreeLoop
<1>2. ~Read(k)
  BY DEF Init, Read, IdleTask
<1>3. hist[k].launched \in {0, 1} /\ ~row[k].awx_id
  BY InitRows
<1>4. row[k].status \in {"absent", "approve", "rejected"} => hist[k].launched = 0
  BY InitRows
<1>5. QED
  BY <1>1, <1>2, <1>3, <1>4 DEF LaunchOK, Launches, Posted

\* The loop about to launch a job is alone on it, whoever approves it or takes it over (Job.continue,
\* claim of jobResume.js).
THEOREM OneLauncherHolds == Spec => []OneLauncher
  BY InitOneLauncher, OneLauncherStep, TypeCorrect, PTL DEF Spec

\* A job is launched on its runner once, whoever approves it and however often it is taken over, and
\* one that waits for approval or was rejected never was.
THEOREM LaunchedOnceHolds == Spec => []LaunchedOnce
<1>1. OneLauncher => LaunchedOnce
  BY DEF OneLauncher, LaunchOK, LaunchedOnce
<1>2. QED
  BY <1>1, OneLauncherHolds, PTL

-----------------------------------------------------------------------------
(* A success is the remote job's own                                       *)

\* A job that is on the runner was launched; what succeeded there stays so, because it is not
\* launched again; and a loop is about to write a success only of a remote job that succeeded.
Succeeds(l, j) == Follows(l, j) /\ loop[l].pc = "end" /\ loop[l].answer = "success"

TruthOK(j) ==
  /\ remote[j] # "none" => hist[j].launched = 1
  /\ row[j].status = "success" \/ (\E l \in Loop : Succeeds(l, j)) => remote[j] = "successful"

TruthInv == \A j \in Job : TruthOK(j)

LEMMA TruthKept ==
  ASSUME NEW k \in Job, TruthOK(k),
         remote'[k] # "none" => hist'[k].launched = 1,
         remote[k] = "successful" => remote'[k] = "successful",
         row'[k].status = "success" => row[k].status = "success" \/ \E l \in Loop : Succeeds(l, k),
         \A l \in Loop : Succeeds(l, k)' => Succeeds(l, k) \/ remote'[k] = "successful"
  PROVE  TruthOK(k)'
  BY DEF TruthOK

\* The steps of a node: none writes a success, and the loop a take-over starts has yet to poll.
LEMMA NodeTruthOK ==
  ASSUME TypeOK, TruthInv, NEW n \in Node, NodeStep(n), NEW k \in Job
  PROVE  TruthOK(k)'
<1>0. TruthOK(k) /\ row[k] \in Row
  BY DEF TruthInv, TypeOK
<1>1. ASSUME UNCHANGED <<hist, remote>>,
             row'[k].status = "success" => row[k].status = "success",
             \A l \in Loop : loop'[l] = loop[l] \/ loop'[l].pc # "end"
      PROVE  TruthOK(k)'
  BY <1>0, <1>1, TruthKept DEF TruthOK, Succeeds, Follows
<1>2. CASE SweepStep(n)
  BY <1>1, <1>2, SweepStepFacts DEF Swept
<1>3. ASSUME NEW t \in Thread, NEW j \in Job, NEW seen \in Node \cup {NoNode}, ClaimAbandoned(n, t, j, seen)
      PROVE  TruthOK(k)'
  <2>1. UNCHANGED <<hist, remote>>
    BY <1>3 DEF ClaimAbandoned
  <2>2. row'[k].status = "success" => row[k].status = "success"
    BY <1>0, <1>3 DEF ClaimAbandoned, ClaimRow, TypeOK, Row
  <2>3. \A l \in Loop : loop'[l] = loop[l] \/ loop'[l].pc # "end"
    BY <1>3, StartLoopFacts DEF ClaimAbandoned
  <2>4. QED
    BY <1>1, <2>1, <2>2, <2>3
<1>4. CASE Crash(n) \/ StopLostWorker(n)
  <2>1. Forget(n) /\ UNCHANGED <<row, hist, remote>>
    BY <1>4 DEF Crash, StopLostWorker
  <2>2. \A l \in Loop : loop'[l] = loop[l] \/ loop'[l].pc # "end"
    BY <2>1 DEF Forget, FreeLoop
  <2>3. QED
    BY <1>1, <2>1, <2>2
<1>5. CASE UNCHANGED <<row, hist, remote, loop>>
  BY <1>1, <1>5
<1>6. QED
  BY <1>2, <1>3, <1>4, <1>5, NodeSteps
     DEF Start, Heartbeat, Lapse, TakeLock, StartTakeOverFails, ConfirmSweep, FindResumable

\* The steps of the users and of the runner: an abort and an end change a remote job that runs.
LEMMA UserTruthOK ==
  ASSUME TypeOK, TruthInv, NEW j \in Job,
         UserStep(j) \/ RemoteEnds(j) \/ ADayPasses(j), NEW k \in Job
  PROVE  TruthOK(k)'
<1>0. TruthOK(k) /\ row[k] \in Row
  BY DEF TruthInv, TypeOK
<1>1. ASSUME UNCHANGED hist,
             remote'[k] = remote[k] \/ remote[k] = "running",
             row'[k].status = "success" => row[k].status = "success",
             \A l \in Loop : loop'[l] = loop[l] \/ loop'[l].pc # "end"
      PROVE  TruthOK(k)'
  BY <1>0, <1>1, TruthKept DEF TruthOK, Succeeds, Follows
<1>2. ASSUME NEW n \in Node, Launch(n, j) \/ Approve(n, j) PROVE TruthOK(k)'
  <2>1. row'[k] = row[k] \/ row'[k].status = "running"
    <3>1. CASE k # j
      BY <1>2, <3>1 DEF Launch, Approve, TypeOK
    <3>2. CASE k = j /\ Launch(n, j)
      BY <1>0, <3>2 DEF Launch, CreateRow, TypeOK, Row
    <3>3. CASE k = j /\ Approve(n, j)
      BY <1>0, <3>3 DEF Approve, ContinueRow, TypeOK, Row
    <3>4. QED
      BY <1>2, <3>1, <3>2, <3>3
  <2>2. \A l \in Loop : loop'[l] = loop[l] \/ loop'[l].pc # "end"
    BY <1>2, StartLoopFacts DEF Launch, Approve
  <2>3. QED
    BY <1>1, <1>2, <2>1, <2>2 DEF Launch, Approve
<1>3. CASE Reject(j)
  <2>1. row'[k] = row[k] \/ row'[k].status = "rejected"
    BY <1>0, <1>3, RejectFacts DEF Reject, TypeOK
  <2>2. QED
    BY <1>1, <1>3, <2>1 DEF Reject
<1>4. CASE Abort(j)
  <2>1. row'[k].status = row[k].status
    BY <1>0, <1>4 DEF Abort, RequestAbortRow, TypeOK, Row
  <2>2. remote'[k] = remote[k] \/ remote[k] = "running"
    BY <1>4 DEF Abort, TypeOK
  <2>3. QED
    BY <1>1, <1>4, <2>1, <2>2 DEF Abort
<1>5. CASE Delete(j)
  <2>1. row'[k] = row[k] \/ row'[k].status = "deleted"
    BY <1>5 DEF Delete, AbsentRow, TypeOK
  <2>2. QED
    BY <1>1, <1>5, <2>1 DEF Delete
<1>6. CASE RemoteEnds(j)
  <2>1. remote'[k] = remote[k] \/ remote[k] = "running"
    BY <1>6 DEF RemoteEnds, TypeOK
  <2>2. QED
    BY <1>1, <1>6, <2>1 DEF RemoteEnds
<1>7. CASE ADayPasses(j)
  BY <1>1, <1>7 DEF ADayPasses
<1>8. QED
  BY <1>2, <1>3, <1>4, <1>5, <1>6, <1>7 DEF UserStep

\* The steps of a loop: only a poll of a remote job that succeeded answers a success, and only a job
\* that was not launched is posted.
LEMMA LoopTruthOK ==
  ASSUME TypeOK, OneLauncher, TruthInv, NEW l \in Loop, LoopStep(l), NEW k \in Job
  PROVE  TruthOK(k)'
<1> DEFINE j == JobOf(l)
<1>0. /\ TruthOK(k) /\ row[k] \in Row /\ hist[k] \in HistType /\ LaunchOK(k) /\ j \in Job
      /\ loop[l].pc # "free" /\ loop[l] \in ActiveLoop /\ loop \in [Loop -> {FreeLoop} \cup ActiveLoop]
      /\ \A i \in Job : i # j => row'[i] = row[i] /\ hist'[i] = hist[i] /\ remote'[i] = remote[i]
  BY LoopFacts, ActiveTyping DEF TruthInv, OneLauncher, TypeOK, HistType
<1>1. ASSUME hist'[k].launched = hist[k].launched,
             remote'[k] = remote[k] \/ remote[k] = "running",
             row'[k].status = "success" => row[k].status = "success" \/ Succeeds(l, k),
             \A m \in Loop : m # l => loop'[m] = loop[m],
             Succeeds(l, k)' => Succeeds(l, k) \/ remote'[k] = "successful"
      PROVE  TruthOK(k)'
  <2>1. \A m \in Loop : Succeeds(m, k)' => Succeeds(m, k) \/ remote'[k] = "successful"
    BY <1>1 DEF Succeeds, Follows
  <2>2. QED
    BY <1>0, <1>1, <2>1, TruthKept DEF TruthOK
<1>2. /\ \A pc \in LoopPc \ {"free"} : Goto(l, pc) =>
           (\A m \in Loop : m # l => loop'[m] = loop[m]) /\ loop'[l].pc = pc
      /\ \A o \in Outcome : Answer(l, o) =>
           (\A m \in Loop : m # l => loop'[m] = loop[m]) /\ loop'[l].answer = o /\ loop'[l].job = j
      /\ Stop(l) => (\A m \in Loop : m # l => loop'[m] = loop[m]) /\ loop'[l].pc = "free"
  BY <1>0 DEF Goto, Answer, Stop, FreeLoop, ActiveLoop, JobOf
<1>3. ASSUME \/ Stop(l)
             \/ \E pc \in {"check", "poll", "posted"} : Goto(l, pc)
             \/ \E o \in Outcome \ {"success"} : Answer(l, o)
      PROVE  (\A m \in Loop : m # l => loop'[m] = loop[m]) /\ ~Succeeds(l, k)'
  BY <1>2, <1>3 DEF Succeeds, Follows, LoopPc, Outcome
<1>4. CASE Gate(l)
  <2>1. row'[k] = row[k] \/ row'[k] = HoldRow(row[k])
    BY <1>0, <1>4 DEF Gate, TypeOK
  <2>2. row'[k].status = "success" => row[k].status = "success"
    BY <1>0, <2>1, HoldFacts
  <2>3. QED
    BY <1>1, <1>3, <1>4, <2>2 DEF Gate
<1>5. CASE Post(l)
  <2>1. /\ \/ Goto(l, "posted")
           \/ Answer(l, "failed")
        /\ UNCHANGED row
        /\ hist' = [hist EXCEPT ![j].launched = @ + 1]
        /\ remote' = [remote EXCEPT ![j] = "running"]
    BY <1>5 DEF Post
  <2>2. (\A m \in Loop : m # l => loop'[m] = loop[m]) /\ ~Succeeds(l, k)'
    BY <1>3, <2>1 DEF Outcome
  <2>3. CASE k # j
    BY <1>0, <1>1, <2>1, <2>2, <2>3
  <2>4. CASE k = j
    <3>1. hist[k].launched = 0
      BY <1>0, <1>5, <2>4 DEF Post, At, LaunchOK, Launches, Follows, JobOf
    <3>2. remote[k] = "none" /\ hist'[k].launched = 1 /\ remote'[k] = "running"
      BY <1>0, <2>1, <2>4, <3>1 DEF TruthOK, TypeOK, HistType
    <3>3. \A m \in Loop : Succeeds(m, k)' => Succeeds(m, k)
      BY <2>2 DEF Succeeds, Follows
    <3>4. QED
      BY <1>0, <2>1, <3>2, <3>3, TruthKept
  <2>5. QED
    BY <2>3, <2>4
<1>6. CASE StoreRemoteId(l)
  <2>1. row'[k] = row[k] \/ row'[k] = StoreIdRow(row[k])
    BY <1>0, <1>6 DEF StoreRemoteId, TypeOK
  <2>2. row'[k].status = row[k].status
    BY <1>0, <2>1 DEF StoreIdRow, Row
  <2>3. UNCHANGED <<hist, remote>> /\ (Goto(l, "check") \/ Answer(l, "failed"))
    BY <1>6 DEF StoreRemoteId
  <2>4. QED
    BY <1>1, <1>3, <2>2, <2>3 DEF Outcome
<1>7. CASE GiveUp(l)
  <2>1. row'[k] = row[k] \/ row'[k].status = "abandoned"
    BY <1>0, <1>7 DEF GiveUp, GiveUpRow, TypeOK, Row
  <2>2. hist'[k].launched = hist[k].launched
    BY <1>0, <1>7 DEF GiveUp, TypeOK, HistType
  <2>3. QED
    BY <1>1, <1>3, <1>7, <2>1, <2>2 DEF GiveUp
<1>8. CASE End(l)
  <2>1. row'[k] = row[k] \/ (k = j /\ row'[k] = EndRow(row[k], loop[l].answer))
    BY <1>0, <1>8 DEF End, TypeOK
  <2>2. row'[k].status = "success" => row[k].status = "success" \/ Succeeds(l, k)
    <3>1. loop[l].answer \in Outcome
      BY <1>0 DEF ActiveLoop
    <3>2. QED
      BY <1>0, <1>8, <2>1, <3>1, EndFacts DEF End, At, Succeeds, Follows, JobOf
  <2>3. hist'[k].launched = hist[k].launched
    BY <1>0, <1>8 DEF End, TypeOK, HistType
  <2>4. QED
    BY <1>1, <1>3, <1>8, <2>2, <2>3 DEF End
<1>9. CASE Poll(l)
  <2>1. CASE remote[j] \in DOMAIN Outcomes
    <3>1. Answer(l, Outcomes[remote[j]]) /\ UNCHANGED <<row, hist, remote>>
      BY <1>9, <2>1 DEF Poll
    <3>2. Outcomes[remote[j]] \in Outcome /\ (Outcomes[remote[j]] = "success" => remote[j] = "successful")
      BY <2>1 DEF Outcomes, Outcome
    <3>3. Succeeds(l, k)' => remote'[k] = "successful"
      BY <1>2, <3>1, <3>2 DEF Succeeds, Follows
    <3>4. QED
      BY <1>1, <1>2, <3>1, <3>2, <3>3
  <2>2. CASE remote[j] \notin DOMAIN Outcomes
    BY <1>1, <1>3, <1>9, <2>2 DEF Poll
  <2>3. QED
    BY <2>1, <2>2
<1>10. CASE PollAborts(l) \/ LoseContact(l)
  <2>1. row'[k].status = row[k].status
    BY <1>0, <1>10 DEF PollAborts, LoseContact, ResetAbortRow, TypeOK, Row
  <2>2. UNCHANGED hist /\ (Goto(l, "check") \/ \E o \in Outcome \ {"success"} : Answer(l, o))
    BY <1>10 DEF PollAborts, LoseContact, Outcome
  <2>3. remote'[k] = remote[k] \/ remote[k] = "running"
    BY <1>10 DEF PollAborts, LoseContact, TypeOK
  <2>4. QED
    BY <1>1, <1>3, <2>1, <2>2, <2>3
<1>11. CASE DispatchFails(l) \/ Resume(l) \/ Check(l)
  <2>1. UNCHANGED <<row, hist, remote>> /\ (Stop(l) \/ Goto(l, "check") \/ Goto(l, "poll") \/ Answer(l, "failed"))
    BY <1>11 DEF DispatchFails, Resume, Check
  <2>2. QED
    BY <1>1, <1>3, <2>1 DEF Outcome
<1>12. QED
  BY <1>4, <1>5, <1>6, <1>7, <1>8, <1>9, <1>10, <1>11 DEF LoopStep

LEMMA TruthStep ==
  ASSUME TypeOK, OneLauncher, TruthInv, [Next]_vars
  PROVE  TruthInv'
<1> SUFFICES ASSUME NEW k \in Job PROVE TruthOK(k)'
  BY DEF TruthInv
<1>1. CASE UNCHANGED <<row, hist, remote, loop>>
  BY <1>1 DEF TruthInv, TruthOK, Succeeds, Follows
<1>2. QED
  BY <1>1, NodeTruthOK, UserTruthOK, LoopTruthOK DEF Next, vars, LoseLock

\* What a job says is what happened on the runner: a success is the remote job's own, however often
\* the job was given up and taken over (Awx.trackJob).
THEOREM TruthfulEndHolds == Spec => []TruthfulEnd
<1>1. Init => TruthInv
  <2> SUFFICES ASSUME Init, NEW k \in Job PROVE TruthOK(k)
    BY DEF TruthInv
  <2>1. \A l \in Loop : ~Succeeds(l, k)
    BY DEF Init, Succeeds, Follows, FreeLoop
  <2>2. row[k].status # "success" /\ hist[k].launched = IF row[k].status = "running" THEN 1 ELSE 0
    BY InitRows
  <2>3. remote[k] # "none" => row[k].status = "running"
    BY DEF Init, LegacyRow, CreateRow, AbsentRow
  <2>4. QED
    BY <2>1, <2>2, <2>3 DEF TruthOK
<1>2. TruthInv => TruthfulEnd
  BY DEF TruthInv, TruthOK, TruthfulEnd
<1>3. QED
  BY <1>1, <1>2, TruthStep, TypeCorrect, OneLauncherHolds, PTL DEF Spec

-----------------------------------------------------------------------------
(* An abort is answered by whatever ends the job                           *)

\* None of the jobs is a workflow, whose rejection keeps the flag.
AbortOK(j) ==
  /\ row[j].job_type = "awx"
  /\ row[j].abort_requested => row[j].status \in {"running", "approve"} \/ hist[j].gaveUp

AbortInv == \A j \in Job : AbortOK(j)

\* What all steps but the launch, the end and the give-up do to the flag.
LEMMA AbortKept ==
  ASSUME NEW k \in Job, AbortOK(k), hist[k].gaveUp => hist'[k].gaveUp,
         row'[k].job_type = row[k].job_type,
         \/ row'[k].status = row[k].status /\ (row'[k].abort_requested => row[k].abort_requested)
         \/ row'[k].status \in {"running", "approve"}
         \/ ~row'[k].abort_requested
         \/ hist'[k].gaveUp
  PROVE  AbortOK(k)'
  BY DEF AbortOK

LEMMA AbortInvStep ==
  ASSUME TypeOK, AbortInv, [Next]_vars
  PROVE  AbortInv'
<1> SUFFICES ASSUME NEW k \in Job PROVE AbortOK(k)'
  BY DEF AbortInv
<1>1. AbortOK(k) /\ row[k] \in Row
  BY DEF AbortInv, TypeOK
<1>2. ASSUME NEW n \in Node, NodeStep(n) PROVE AbortOK(k)'
  <2>1. CASE SweepStep(n)
    BY <1>1, <2>1, SweepStepFacts, AbortKept DEF Swept
  <2>2. ASSUME NEW t \in Thread, NEW j \in Job, NEW seen \in Node \cup {NoNode}, ClaimAbandoned(n, t, j, seen)
        PROVE  AbortOK(k)'
    <3>1. row'[k] = row[k] \/ row'[k] = [row[k] EXCEPT !.status = "running", !.tracker = n]
      BY <2>2 DEF ClaimAbandoned, ClaimRow, TypeOK
    <3>2. row'[k] # row[k] => row'[k].job_type = row[k].job_type /\ row'[k].status = "running"
      BY <1>1, <3>1 DEF Row
    <3>3. UNCHANGED hist
      BY <2>2 DEF ClaimAbandoned
    <3>4. CASE row'[k] = row[k]
      BY <1>1, <3>3, <3>4 DEF AbortOK
    <3>5. QED
      BY <1>1, <3>2, <3>3, <3>4, AbortKept
  <2>3. CASE UNCHANGED <<row, hist>>
    BY <1>1, <2>3 DEF AbortOK
  <2>4. QED
    BY <1>2, <2>1, <2>2, <2>3, NodeSteps, ProcessFacts
<1>3. CASE LoseLock \/ UNCHANGED vars
  BY <1>1, <1>3 DEF LoseLock, vars, AbortOK
<1>4. ASSUME NEW j \in Job, UserStep(j) \/ RemoteEnds(j) \/ ADayPasses(j) PROVE AbortOK(k)'
  <2>1. UNCHANGED hist
    BY <1>4 DEF UserStep, Launch, Approve, Reject, Abort, Delete, RemoteEnds, ADayPasses
  <2>2. CASE row'[k] = row[k]
    BY <1>1, <2>1, <2>2 DEF AbortOK
  <2>3. ASSUME NEW n \in Node, Launch(n, j) \/ Approve(n, j) PROVE AbortOK(k)'
    <3>1. row'[k] = row[k] \/ row'[k] = [row[k] EXCEPT !.status = "running", !.tracker = n]
      BY <2>3 DEF Launch, Approve, CreateRow, ContinueRow, TypeOK
    <3>2. row'[k] # row[k] => row'[k].job_type = row[k].job_type /\ row'[k].status = "running"
      BY <1>1, <3>1 DEF Row
    <3>3. QED
      BY <1>1, <2>1, <2>2, <3>2, AbortKept
  <2>4. CASE Reject(j)
    <3>1. k # j => row'[k] = row[k]
      BY <2>4 DEF Reject, TypeOK
    <3>2. k = j => row'[k].job_type = row[k].job_type /\ ~row'[k].abort_requested
      BY <1>1, <2>4, RejectFacts DEF Reject, TypeOK, AbortOK
    <3>3. QED
      BY <1>1, <2>1, <2>2, <3>1, <3>2, AbortKept
  <2>5. CASE Abort(j)
    <3>1. k # j => row'[k] = row[k]
      BY <2>5 DEF Abort, TypeOK
    <3>2. k = j => row'[k].job_type = row[k].job_type /\ row'[k].status \in {"running", "approve"}
      BY <1>1, <2>5 DEF Abort, RequestAbortRow, UnderWay, TypeOK, Row
    <3>3. QED
      BY <1>1, <2>1, <2>2, <3>1, <3>2, AbortKept
  <2>6. CASE Delete(j)
    <3>1. row'[k] = row[k] \/ (row'[k].job_type = "awx" /\ ~row'[k].abort_requested)
      BY <2>6 DEF Delete, AbsentRow, TypeOK
    <3>2. QED
      BY <2>2, <3>1 DEF AbortOK
  <2>7. CASE RemoteEnds(j) \/ ADayPasses(j)
    BY <2>2, <2>7 DEF RemoteEnds, ADayPasses
  <2>8. QED
    BY <1>4, <2>3, <2>4, <2>5, <2>6, <2>7 DEF UserStep
<1>5. ASSUME NEW l \in Loop, LoopStep(l) PROVE AbortOK(k)'
  <2>1. /\ JobOf(l) \in Job /\ hist[k] \in HistType
        /\ k # JobOf(l) => row'[k] = row[k] /\ hist'[k] = hist[k]
    BY <1>5, LoopFacts DEF TypeOK, HistType
  <2>2. CASE k # JobOf(l)
    BY <1>1, <2>1, <2>2 DEF AbortOK
  <2>3. CASE k = JobOf(l)
    <3>1. CASE Gate(l)
      <4>1. row'[k] = HoldRow(row[k]) /\ UNCHANGED hist
        BY <2>1, <2>3, <3>1 DEF Gate, TypeOK
      <4>2. QED
        BY <1>1, <4>1, HoldFacts, AbortKept
    <3>2. CASE GiveUp(l)
      <4>1. row'[k] = GiveUpRow(row[k])
        BY <2>1, <2>3, <3>2 DEF GiveUp, TypeOK
      <4>2. CASE row[k].status = "running"
        <5>1. hist'[k].gaveUp /\ row'[k].job_type = row[k].job_type
          BY <1>1, <2>1, <2>3, <3>2, <4>1, <4>2 DEF GiveUp, GiveUpRow, TypeOK, Row
        <5>2. QED
          BY <1>1, <5>1, AbortKept
      <4>3. CASE row[k].status # "running"
        BY <1>1, <2>3, <3>2, <4>1, <4>3 DEF GiveUp, GiveUpRow, AbortOK
      <4>4. QED
        BY <4>2, <4>3
    <3>3. CASE End(l)
      <4>1. row'[k] = EndRow(row[k], loop[l].answer)
        BY <2>1, <2>3, <3>3 DEF End, TypeOK
      <4>2. hist'[k].gaveUp = hist[k].gaveUp /\ loop[l].answer \in Outcome
        BY <2>1, <3>3, <1>5, LoopFacts, ActiveTyping DEF End, TypeOK
      <4>3. QED
        BY <1>1, <4>1, <4>2, EndFacts, AbortKept
    <3>4. CASE DispatchFails(l) \/ Post(l) \/ Resume(l) \/ Check(l) \/ Poll(l)
      <4>1. row' = row /\ hist'[k].gaveUp = hist[k].gaveUp
        BY <2>1, <3>4 DEF DispatchFails, Post, Resume, Check, Poll, TypeOK
      <4>2. QED
        BY <1>1, <4>1, AbortKept
    <3>5. CASE StoreRemoteId(l) \/ PollAborts(l) \/ LoseContact(l)
      <4>1. UNCHANGED hist
        BY <3>5 DEF StoreRemoteId, PollAborts, LoseContact
      <4>2. row'[k] = row[k] \/ row'[k] = StoreIdRow(row[k]) \/ row'[k] = ResetAbortRow(row[k])
        BY <2>1, <2>3, <3>5 DEF StoreRemoteId, PollAborts, LoseContact, TypeOK
      <4>3. CASE row'[k] = row[k]
        BY <1>1, <4>1, <4>3 DEF AbortOK
      <4>4. CASE row'[k] = StoreIdRow(row[k])
        BY <1>1, <4>1, <4>4, AbortKept DEF StoreIdRow, Row
      <4>5. CASE row'[k] = ResetAbortRow(row[k])
        BY <1>1, <4>1, <4>5, AbortKept DEF ResetAbortRow, Row
      <4>6. QED
        BY <4>2, <4>3, <4>4, <4>5
    <3>6. QED
      BY <1>5, <3>1, <3>2, <3>3, <3>4, <3>5 DEF LoopStep
  <2>4. QED
    BY <2>2, <2>3
<1>6. QED
  BY <1>2, <1>3, <1>4, <1>5 DEF Next

LEMMA AbortInvHolds == Spec => []AbortInv
<1>1. Init => AbortInv
  BY InitRows DEF AbortInv, AbortOK
<1>2. TypeOK /\ AbortInv /\ [Next]_vars => AbortInv'
  BY AbortInvStep
<1>3. QED
  BY <1>1, <1>2, TypeCorrect, PTL DEF Spec

\* The abort flag outlives no job but the ones giveUp left abandoned.
THEOREM AbortAnsweredHolds == Spec => []AbortAnswered
<1>1. AbortInv => AbortAnswered
  BY DEF AbortInv, AbortOK, AbortAnswered
<1>2. QED
  BY <1>1, AbortInvHolds, PTL

-----------------------------------------------------------------------------
(* Every step of the cluster is, for every job, a move of JobPromise       *)

Told(k) == hist'[k].ended = hist[k].ended
Ran(k) == hist'[k].launched = hist[k].launched

\* The moves of the promise, in terms of the rows.
Move(k) ==
  LET s == row[k].status
      t == row'[k].status
  IN \/ t = s /\ Told(k) /\ Ran(k)
     \/ s = "absent" /\ t = "running" /\ Told(k) /\ Ran(k)
     \/ s = "running" /\ t = "approve" /\ hist[k].launched = 0 /\ Told(k) /\ Ran(k)
     \/ s = "approve" /\ t \in {"running", "rejected"} /\ Told(k) /\ Ran(k)
     \/ s = "running" /\ t = "abandoned" /\ Told(k) /\ Ran(k)
     \/ s = "abandoned" /\ t = "running" /\ hist[k].launched = 1 /\ Told(k) /\ Ran(k)
     \/ s \notin {"absent", "deleted"} /\ t = "deleted" /\ Told(k) /\ Ran(k)
     \/ /\ t = s /\ s \in {"running", "abandoned", "deleted"} /\ Told(k)
        /\ hist[k].launched = 0 /\ hist'[k].launched = 1
     \/ /\ s \in {"running", "abandoned"} /\ t \in Outcome /\ Ran(k)
        /\ hist[k].ended = 0 /\ hist'[k].ended = 1

LEMMA PhaseFacts ==
  /\ PhaseOf("absent") = "none" /\ PhaseOf("running") = "underway" /\ PhaseOf("approve") = "waiting"
  /\ PhaseOf("abandoned") = "adrift" /\ PhaseOf("rejected") = "rejected" /\ PhaseOf("deleted") = "gone"
  /\ \A o \in Outcome : PhaseOf(o) = "ended"
<1>1. "absent" \notin Outcome /\ "running" \notin Outcome /\ "approve" \notin Outcome
      /\ "abandoned" \notin Outcome /\ "rejected" \notin Outcome /\ "deleted" \notin Outcome
  BY DEF Outcome
<1>2. \A o \in Outcome : PhaseOf(o) = "ended"
  BY DEF Outcome, PhaseOf
<1>3. QED
  BY <1>1, <1>2 DEF PhaseOf

LEMMA MovesRefine ==
  ASSUME TypeOK, TypeOK', NEW k \in Job, Move(k)
  PROVE  Promise!JobMove(k)
<1> DEFINE s == row[k].status
           t == row'[k].status
<1>1. s \in Status /\ t \in Status
  BY DEF TypeOK, Row
<1>2. s \notin {"absent", "deleted"} => PhaseOf(s) \in Promise!Phase \ {"none", "gone"}
  BY <1>1, PhaseFacts DEF Promise!Phase, Status, TERMINAL_STATUS, Outcome
<1>3. CASE t = s /\ Told(k) /\ Ran(k)
  BY <1>3 DEF Promise!JobMove, Promise!Rest, Promise!Quiet, Told, Ran
<1>4. CASE s = "absent" /\ t = "running" /\ Told(k) /\ Ran(k)
  BY <1>4, PhaseFacts DEF Promise!JobMove, Promise!Submit, Promise!Moves, Promise!Quiet, Told, Ran
<1>5. CASE s = "running" /\ t = "approve" /\ hist[k].launched = 0 /\ Told(k) /\ Ran(k)
  BY <1>5, PhaseFacts DEF Promise!JobMove, Promise!Hold, Promise!Moves, Promise!Quiet, Told, Ran
<1>6. CASE s = "approve" /\ t \in {"running", "rejected"} /\ Told(k) /\ Ran(k)
  BY <1>6, PhaseFacts
     DEF Promise!JobMove, Promise!Approve, Promise!Reject, Promise!Moves, Promise!Quiet, Told, Ran
<1>7. CASE s = "running" /\ t = "abandoned" /\ Told(k) /\ Ran(k)
  BY <1>7, PhaseFacts DEF Promise!JobMove, Promise!GiveUp, Promise!Moves, Promise!Quiet, Told, Ran
<1>8. CASE s = "abandoned" /\ t = "running" /\ hist[k].launched = 1 /\ Told(k) /\ Ran(k)
  BY <1>8, PhaseFacts DEF Promise!JobMove, Promise!Recover, Promise!Moves, Promise!Quiet, Told, Ran
<1>9. CASE s \notin {"absent", "deleted"} /\ t = "deleted" /\ Told(k) /\ Ran(k)
  BY <1>2, <1>9, PhaseFacts DEF Promise!JobMove, Promise!Remove, Promise!Moves, Promise!Quiet, Told, Ran
<1>10. CASE /\ t = s /\ s \in {"running", "abandoned", "deleted"} /\ Told(k)
            /\ hist[k].launched = 0 /\ hist'[k].launched = 1
  BY <1>10, PhaseFacts DEF Promise!JobMove, Promise!Run, Told
<1>11. CASE /\ s \in {"running", "abandoned"} /\ t \in Outcome /\ Ran(k)
            /\ hist[k].ended = 0 /\ hist'[k].ended = 1
  BY <1>11, PhaseFacts DEF Promise!JobMove, Promise!Finish, Promise!Moves, Ran
<1>12. QED
  BY <1>3, <1>4, <1>5, <1>6, <1>7, <1>8, <1>9, <1>10, <1>11 DEF Move

\* A sweep gives a job up, a claim takes over one that was launched.
LEMMA NodeMoves ==
  ASSUME TypeOK, OneLauncher, AbortInv, NEW n \in Node, NodeStep(n), NEW k \in Job
  PROVE  Move(k)
<1>1. row[k] \in Row /\ LaunchOK(k) /\ AbortOK(k)
  BY DEF TypeOK, OneLauncher, AbortInv
<1>2. CASE SweepStep(n)
  BY <1>1, <1>2, SweepStepFacts DEF Swept, Move, Told, Ran, AbortOK
<1>3. ASSUME NEW t \in Thread, NEW j \in Job, NEW seen \in Node \cup {NoNode}, ClaimAbandoned(n, t, j, seen)
      PROVE  Move(k)
  <2>1. UNCHANGED hist
    BY <1>3 DEF ClaimAbandoned
  <2>2. CASE row'[k] = row[k]
    BY <2>1, <2>2 DEF Move, Told, Ran
  <2>3. CASE row'[k] # row[k]
    <3>1. k = j /\ row'[k] = ClaimRow(row[k], seen, n)
      BY <1>3, <2>3 DEF ClaimAbandoned, TypeOK
    <3>2. row[k].status = "abandoned" /\ row'[k].status = "running"
      BY <1>1, <2>3, <3>1 DEF ClaimRow, Claimable, Row
    <3>3. hist[k].launched = 1
      BY <1>1, <1>3, <3>1 DEF ClaimAbandoned, Read, LaunchOK
    <3>4. QED
      BY <2>1, <3>2, <3>3 DEF Move, Told, Ran
  <2>4. QED
    BY <2>2, <2>3
<1>4. CASE UNCHANGED <<row, hist>>
  BY <1>4 DEF Move, Told, Ran
<1>5. QED
  BY <1>2, <1>3, <1>4, NodeSteps, ProcessFacts

LEMMA UserMoves ==
  ASSUME TypeOK, OneLauncher, NEW j \in Job, UserStep(j) \/ RemoteEnds(j) \/ ADayPasses(j), NEW k \in Job
  PROVE  Move(k)
<1>1. row[k] \in Row /\ LaunchOK(k)
  BY DEF TypeOK, OneLauncher
<1>2. UNCHANGED hist
  BY DEF UserStep, Launch, Approve, Reject, Abort, Delete, RemoteEnds, ADayPasses
<1>3. CASE row'[k] = row[k]
  BY <1>2, <1>3 DEF Move, Told, Ran
<1>4. ASSUME NEW n \in Node, Launch(n, j), k = j PROVE Move(k)
  <2>1. row[k].status = "absent" /\ row'[k].status = "running"
    BY <1>1, <1>4 DEF Launch, CreateRow, TypeOK, Row
  <2>2. QED
    BY <1>2, <2>1 DEF Move, Told, Ran
<1>5. ASSUME NEW n \in Node, Approve(n, j), k = j PROVE Move(k)
  <2>1. row[k].status = "approve" /\ row'[k].status = "running"
    BY <1>1, <1>5 DEF Approve, ContinueRow, TypeOK, Row
  <2>2. QED
    BY <1>2, <2>1 DEF Move, Told, Ran
<1>6. CASE Reject(j) /\ k = j
  <2>1. row[k].status = "approve" /\ row'[k].status = "rejected"
    BY <1>1, <1>6, RejectFacts DEF Reject, TypeOK
  <2>2. QED
    BY <1>2, <2>1 DEF Move, Told, Ran
<1>7. CASE Abort(j)
  <2>1. row'[k].status = row[k].status
    BY <1>1, <1>7 DEF Abort, RequestAbortRow, TypeOK, Row
  <2>2. QED
    BY <1>2, <2>1 DEF Move, Told, Ran
<1>8. CASE Delete(j) /\ k = j
  <2>1. row[k].status \notin {"absent", "deleted"} /\ row'[k].status = "deleted"
    BY <1>8 DEF Delete, Exists, AbsentRow, TypeOK
  <2>2. QED
    BY <1>2, <2>1 DEF Move, Told, Ran
<1>9. k # j \/ RemoteEnds(j) \/ ADayPasses(j) => row'[k] = row[k] \/ Abort(j)
  BY DEF UserStep, Launch, Approve, Reject, Delete, RemoteEnds, ADayPasses, TypeOK
<1>10. QED
  BY <1>3, <1>4, <1>5, <1>6, <1>7, <1>8, <1>9 DEF UserStep

\* A loop holds, launches, gives up or ends its job.
LEMMA LoopMoves ==
  ASSUME TypeOK, EndedOnce, OneLauncher, NEW l \in Loop, LoopStep(l), NEW k \in Job
  PROVE  Move(k)
<1>1. /\ row[k] \in Row /\ hist[k] \in HistType /\ LaunchOK(k)
      /\ JobOf(l) \in Job /\ Follows(l, JobOf(l)) /\ loop[l].answer \in Outcome
      /\ k # JobOf(l) => row'[k] = row[k] /\ hist'[k] = hist[k]
  BY LoopFacts, ActiveTyping DEF TypeOK, OneLauncher, Follows, JobOf, HistType
<1>2. CASE k # JobOf(l)
  BY <1>1, <1>2 DEF Move, Told, Ran
<1>3. CASE k = JobOf(l)
  <2>1. CASE Gate(l)
    <3>1. row'[k] = HoldRow(row[k]) /\ UNCHANGED hist
      BY <1>1, <1>3, <2>1 DEF Gate, TypeOK
    <3>2. hist[k].launched = 0
      BY <1>1, <1>3, <2>1 DEF Gate, At, LaunchOK, Launches
    <3>3. QED
      BY <1>1, <3>1, <3>2, HoldFacts DEF Move, Told, Ran
  <2>2. CASE Post(l)
    <3>1. row' = row /\ hist'[k] = [hist[k] EXCEPT !.launched = @ + 1]
      BY <1>1, <1>3, <2>2 DEF Post, TypeOK
    <3>2. hist[k].launched = 0 /\ row[k].status \notin Outcome \cup {"absent", "approve", "rejected"}
      BY <1>1, <1>3, <2>2 DEF Post, At, LaunchOK, Launches
    <3>3. hist'[k].launched = 1 /\ Told(k)
      BY <1>1, <3>1, <3>2 DEF HistType, Told
    <3>4. row[k].status \in {"running", "abandoned", "deleted"}
      BY <1>1, <3>2 DEF Row, Status, TERMINAL_STATUS, Outcome
    <3>5. QED
      BY <3>1, <3>2, <3>3, <3>4 DEF Move
  <2>3. CASE GiveUp(l)
    <3>1. row'[k] = GiveUpRow(row[k]) /\ Told(k) /\ Ran(k)
      BY <1>1, <1>3, <2>3 DEF GiveUp, TypeOK, Told, Ran
    <3>2. row'[k] = row[k] \/ (row[k].status = "running" /\ row'[k].status = "abandoned")
      BY <1>1, <3>1 DEF GiveUpRow, Row
    <3>3. QED
      BY <3>1, <3>2 DEF Move
  <2>4. CASE End(l)
    <3>1. row'[k] = EndRow(row[k], loop[l].answer)
      BY <1>1, <1>3, <2>4 DEF End, TypeOK
    <3>2. CASE row[k].status \in ENDS_FROM
      <4>1. hist'[k].ended = hist[k].ended + 1 /\ Ran(k)
        BY <1>1, <1>3, <2>4, <3>2 DEF End, TypeOK, Ran
      <4>2. row[k].status \in {"running", "abandoned"} /\ row'[k].status \in Outcome
        BY <1>1, <3>1, <3>2, EndFacts DEF ENDS_FROM
      <4>3. hist[k].ended = 0
        BY <4>2 DEF EndedOnce, Outcome
      <4>4. QED
        BY <4>1, <4>2, <4>3 DEF Move
    <3>3. CASE row[k].status \notin ENDS_FROM
      BY <1>1, <1>3, <2>4, <3>1, <3>3, EndFacts DEF End, Move, Told, Ran
    <3>4. QED
      BY <3>2, <3>3
  <2>5. CASE DispatchFails(l) \/ StoreRemoteId(l) \/ Resume(l) \/ Check(l) \/ Poll(l)
             \/ PollAborts(l) \/ LoseContact(l)
    <3>1. UNCHANGED hist /\ row'[k].status = row[k].status
      BY <1>1, <2>5 DEF DispatchFails, StoreRemoteId, Resume, Check, Poll, PollAborts, LoseContact,
                        StoreIdRow, ResetAbortRow, TypeOK, Row
    <3>2. QED
      BY <3>1 DEF Move, Told, Ran
  <2>6. QED
    BY <2>1, <2>2, <2>3, <2>4, <2>5 DEF LoopStep
<1>4. QED
  BY <1>2, <1>3

LEMMA StepMoves ==
  ASSUME TypeOK, EndedOnce, OneLauncher, AbortInv, [Next]_vars, NEW k \in Job
  PROVE  Move(k)
<1>1. UNCHANGED <<row, hist>> => Move(k)
  BY DEF Move, Told, Ran
<1>2. QED
  BY <1>1, NodeMoves, UserMoves, LoopMoves DEF Next, vars, LoseLock

\* A job that ended stays as it ended, until it is deleted.
THEOREM FinalStaysHolds == Spec => FinalStays
<1>1. ASSUME TypeOK, EndedOnce, OneLauncher, AbortInv, [Next]_vars
      PROVE  [\A j \in Job : row[j].status \in Outcome \cup {"rejected"} =>
                row'[j].status \in {row[j].status, "deleted"}]_vars
  <2>1. ASSUME NEW j \in Job, row[j].status \in Outcome \cup {"rejected"}
        PROVE  row'[j].status \in {row[j].status, "deleted"}
    BY <1>1, <2>1, StepMoves DEF Move, Outcome
  <2>2. QED
    BY <2>1
<1>2. QED
  BY <1>1, TypeCorrect, EndedOnceHolds, OneLauncherHolds, AbortInvHolds, PTL DEF Spec, FinalStays

\* Every step of the cluster is, for every job, a move the promise allows.
THEOREM PromiseKeptHolds == Spec => PromiseKept
<1>1. Init => Promise!Init
  <2> SUFFICES ASSUME Init PROVE Promise!Init
    OBVIOUS
  <2>1. \A j \in Job : /\ PhaseOf(row[j].status) \in {"none", "underway"}
                       /\ hist[j].launched = IF PhaseOf(row[j].status) = "underway" THEN 1 ELSE 0
                       /\ hist[j].ended = 0
    BY PhaseFacts, InitRows
  <2>2. QED
    BY <2>1 DEF Promise!Init
<1>2. ASSUME TypeOK, TypeOK', EndedOnce, OneLauncher, AbortInv, [Next]_vars
      PROVE  [Promise!Next]_(Promise!vars)
  BY <1>2, StepMoves, MovesRefine DEF Promise!Next
<1>3. QED
  BY <1>1, <1>2, TypeCorrect, EndedOnceHolds, OneLauncherHolds, AbortInvHolds, PTL
     DEF Spec, PromiseKept, Promise!Spec

-----------------------------------------------------------------------------
(* A job is followed by one loop, as long as the only fault is a crash     *)

\* A process that runs has a heartbeat; one that serves, or works at a take-over, has given up the
\* jobs of its previous run.
NodeOK(n) ==
  /\ n \in up => n \in fresh
  /\ (n \in up /\ FALSE \notin mem[n].asked) => mem[n].own
  /\ \A t \in Thread : task[n][t].pc # "idle" => (n \in up /\ mem[n].own)

\* A loop is in a process that runs and that gave up the jobs of its previous run; it is the one the
\* running job's row names; and a job given up over its head is one of the day-old quiet ones.
Sound(l, j) ==
  /\ loop[l].node \in up /\ mem[loop[l].node].own
  /\ row[j].status = "running" => row[j].tracker = loop[l].node
  /\ (row[j].status = "abandoned" /\ ~row[j].end) => j \in old

\* The loop is alone on its job, and no take-over works on a day-old job.
FollowOK(j) ==
  /\ row[j].host = NoNode
  /\ j \in old => ~Read(j)
  /\ \A l \in Loop : Follows(l, j) => Sound(l, j) /\ \A k \in Loop : Follows(k, j) => k = l

FollowInv == /\ \A n \in Node : NodeOK(n)
             /\ \A j \in Job : FollowOK(j)

OnlyCrashes == FaultKinds \subseteq {"crash"}

\* A live process's heartbeat does not lapse, and the database answers.
LEMMA NoOtherFault ==
  ASSUME OnlyCrashes
  PROVE  ~Fault("lapse") /\ ~Fault("database")
  BY DEF OnlyCrashes, Fault

\* A process that stops forgets what it did.
LEMMA ForgetFacts ==
  ASSUME TypeOK, NEW n \in Node, Forget(n)
  PROVE  /\ up' = up \ {n} /\ \A m \in Node : m # n => mem'[m] = mem[m] /\ task'[m] = task[m]
         /\ mem'[n] = NewMemory /\ \A t \in Thread : task'[n][t] = IdleTask
         /\ \A l \in Loop : \/ loop'[l] = loop[l] /\ (loop[l].pc # "free" => loop[l].node # n)
                            \/ loop'[l] = FreeLoop
  BY DEF Forget, TypeOK

\* Only the steps of the processes touch their memory, their take-overs and the heartbeats.
LEMMA NodeOKKept ==
  ASSUME NEW n \in Node, NodeOK(n), UNCHANGED <<up, fresh, mem, task>>
  PROVE  NodeOK(n)'
  BY DEF NodeOK

LEMMA NodeOKElsewhere ==
  ASSUME NEW n \in Node, NodeOK(n), n \in up' <=> n \in up, n \in fresh => n \in fresh',
         mem'[n].own = mem[n].own, FALSE \in mem[n].asked => FALSE \in mem'[n].asked,
         \A t \in Thread : task'[n][t].pc # "idle" => task[n][t].pc # "idle"
  PROVE  NodeOK(n)'
  BY DEF NodeOK

\* One take-over's state changes.
LEMMA TaskFacts ==
  ASSUME TypeOK, NEW n \in Node, NEW t \in Thread, NEW x, task' = [task EXCEPT ![n][t] = x]
  PROVE  /\ task'[n][t] = x
         /\ \A m \in Node, u \in Thread : m # n \/ u # t => task'[m][u] = task[m][u]
  BY DEF TypeOK

LEMMA TaskPcFacts ==
  ASSUME TypeOK, NEW n \in Node, NEW t \in Thread, NEW pc, task' = [task EXCEPT ![n][t].pc = pc]
  PROVE  /\ task'[n][t].pc = pc
         /\ \A m \in Node, u \in Thread : m # n \/ u # t => task'[m][u] = task[m][u]
  BY DEF TypeOK

\* The processes keep it: their starts, their crashes, their take-overs.
LEMMA NodeOKNodeStep ==
  ASSUME OnlyCrashes, TypeOK, NEW n \in Node, NodeStep(n), NEW m \in Node, NodeOK(n), NodeOK(m)
  PROVE  NodeOK(m)'
<1> USE NoOtherFault
<1>1. CASE Start(n)
  <2>1. /\ up' = up \cup {n} /\ fresh' = fresh \cup {n} /\ UNCHANGED task
        /\ mem'[m].own = mem[m].own /\ mem'[n].asked = {FALSE}
        /\ m # n => mem'[m] = mem[m]
    BY <1>1, ZenonT(30) DEF Start, TypeOK
  <2>2. QED
    BY <2>1 DEF NodeOK
<1>2. CASE Crash(n) \/ StopLostWorker(n)
  <2>1. Forget(n) /\ UNCHANGED fresh
    BY <1>2 DEF Crash, StopLostWorker
  <2>2. CASE m = n
    <3>1. m \notin up' /\ \A t \in Thread : task'[m][t].pc = "idle"
      BY <2>1, <2>2, ForgetFacts DEF IdleTask
    <3>2. QED
      BY <3>1 DEF NodeOK
  <2>3. CASE m # n
    <3>1. mem'[m] = mem[m] /\ task'[m] = task[m] /\ (m \in up' <=> m \in up)
      BY <2>1, <2>3, ForgetFacts
    <3>2. QED
      BY <2>1, <3>1 DEF NodeOK
  <2>4. QED
    BY <2>2, <2>3
<1>3. CASE Heartbeat(n)
  BY <1>3 DEF Heartbeat, NodeOK
<1>4. CASE Lapse(n)
  BY <1>4 DEF Lapse, NodeOK
<1>5. CASE TakeLock(n)
  <2>1. /\ UNCHANGED <<up, fresh, task>>
        /\ mem'[m].own = mem[m].own /\ mem[m].asked \subseteq mem'[m].asked
    BY <1>5, ZenonT(30) DEF TakeLock, TypeOK
  <2>2. QED
    BY <2>1, NodeOKElsewhere
<1>6. ASSUME NEW u \in BOOLEAN, StartTakeOver(n, u) PROVE NodeOK(m)'
  <2>1. /\ UNCHANGED <<up, fresh>> /\ n \in up
        /\ mem'[n].own /\ \A k \in Node : k # n => mem'[k] = mem[k]
    BY <1>6 DEF StartTakeOver, TypeOK
  <2>2. \E pc : task' = [task EXCEPT ![n]["start"].pc = pc]
    BY <1>6, Zenon DEF StartTakeOver
  <2>3. m # n => \A t \in Thread : task'[m][t] = task[m][t]
    BY <2>2, TaskPcFacts DEF Thread
  <2>4. QED
    BY <2>1, <2>3 DEF NodeOK
<1>7. ASSUME NEW u \in BOOLEAN, StartTakeOverFails(n, u) PROVE NodeOK(m)'
  BY <1>7 DEF StartTakeOverFails
<1>8. CASE ConfirmSweep(n)
  <2>1. UNCHANGED <<up, fresh, mem>> /\ n \in up /\ mem[n].own
    BY <1>8 DEF ConfirmSweep, Serves, NodeOK
  <2>2. m # n => \A t \in Thread : task'[m][t] = task[m][t]
    BY <1>8, TaskPcFacts DEF ConfirmSweep, Thread
  <2>3. QED
    BY <2>1, <2>2 DEF NodeOK
<1>9. CASE SweepDeadNodes(n) \/ \E quiet \in SUBSET Job : SweepQuiet(n, quiet)
  <2>1. /\ UNCHANGED <<up, fresh, mem>> /\ n \in up
        /\ task[n]["sweep"].pc # "idle" /\ \E pc : task' = [task EXCEPT ![n]["sweep"].pc = pc]
    BY <1>9, Zenon DEF SweepDeadNodes, SweepQuiet
  <2>2. mem[n].own
    BY <2>1 DEF NodeOK, Thread
  <2>3. m # n => \A t \in Thread : task'[m][t] = task[m][t]
    BY <2>1, TaskPcFacts DEF Thread
  <2>4. QED
    BY <2>1, <2>2, <2>3 DEF NodeOK
<1>10. ASSUME NEW t \in Thread,
              FindResumable(n, t) \/ \E j \in Job, seen \in Node \cup {NoNode} : ClaimAbandoned(n, t, j, seen)
       PROVE  NodeOK(m)'
  <2>1. /\ UNCHANGED <<up, fresh, mem>> /\ n \in up
        /\ task[n][t].pc # "idle" /\ \E x : task' = [task EXCEPT ![n][t] = x]
    BY <1>10, Zenon DEF FindResumable, ClaimAbandoned
  <2>2. mem[n].own
    BY <2>1 DEF NodeOK
  <2>3. m # n => \A u \in Thread : task'[m][u] = task[m][u]
    BY <2>1, TaskFacts
  <2>4. QED
    BY <2>1, <2>2, <2>3 DEF NodeOK
<1>11. QED
  BY <1>1, <1>2, <1>3, <1>4, <1>5, <1>6, <1>7, <1>8, <1>9, <1>10, NodeSteps DEF SweepStep

\* What is a day old stays so, and no take-over works on it.
LEMMA OldFacts ==
  ASSUME TypeOK, [Next]_vars, NEW k \in Job, FollowOK(k)
  PROVE  /\ k \in old => k \in old'
         /\ k \in old' => ~Read(k)'
<1>1. ASSUME UNCHANGED old
      PROVE  (k \in old => k \in old') /\ (k \in old' => ~Read(k)')
  BY <1>1, ReadFacts DEF FollowOK
<1>2. ASSUME NEW j \in Job, ADayPasses(j)
      PROVE  (k \in old => k \in old') /\ (k \in old' => ~Read(k)')
  <2>1. old' = old \cup {j} /\ UNCHANGED task /\ ~Read(j)
    BY <1>2 DEF ADayPasses
  <2>2. Read(k)' <=> Read(k)
    BY <2>1 DEF Read
  <2>3. QED
    BY <2>1, <2>2 DEF FollowOK
<1>3. ASSUME NEW j \in Job, UserStep(j) \/ RemoteEnds(j) PROVE UNCHANGED old
  BY <1>3 DEF UserStep, Launch, Approve, Reject, Abort, Delete, RemoteEnds
<1>4. ASSUME NEW n \in Node, NodeStep(n) PROVE UNCHANGED old
  BY <1>4, NodeSteps DEF Start, Crash, Heartbeat, Lapse, TakeLock, StopLostWorker, StartTakeOverFails,
       ConfirmSweep, FindResumable, ClaimAbandoned, SweepStep, StartTakeOver, SweepDeadNodes, SweepQuiet
<1>5. ASSUME NEW l \in Loop, LoopStep(l) PROVE UNCHANGED old
  BY <1>5 DEF LoopStep, SharedUnchanged, Gate, DispatchFails, Post, StoreRemoteId, Resume, GiveUp, Check, Poll,
              PollAborts, LoseContact, End
<1>6. QED
  BY <1>1, <1>2, <1>3, <1>4, <1>5 DEF Next, vars, LoseLock

\* What most steps do to a job: no loop starts on it, and as long as one follows it, it comes to run
\* in no way and is given up only when it is a day old.
LEMMA FollowKept ==
  ASSUME TypeOK, [Next]_vars, NEW k \in Job, FollowOK(k), row'[k].host = NoNode,
         \A l \in Loop : Follows(l, k)' => /\ Follows(l, k) /\ loop'[l].node = loop[l].node
                                           /\ loop[l].node \in up' /\ mem'[loop[l].node].own,
         (\E l \in Loop : Follows(l, k)') =>
            /\ row'[k].status = "running" => row[k].status = "running" /\ row'[k].tracker = row[k].tracker
            /\ row'[k].status = "abandoned" /\ ~row'[k].end =>
                 k \in old \/ (row[k].status = "abandoned" /\ ~row[k].end)
  PROVE  FollowOK(k)'
<1>1. (k \in old => k \in old') /\ (k \in old' => ~Read(k)')
  BY OldFacts
<1>2. ASSUME NEW l \in Loop, Follows(l, k)'
      PROVE  Sound(l, k)' /\ \A m \in Loop : Follows(m, k)' => m = l
  <2>1. /\ Follows(l, k) /\ Sound(l, k) /\ \A m \in Loop : Follows(m, k) => m = l
        /\ loop'[l].node = loop[l].node /\ loop[l].node \in up' /\ mem'[loop[l].node].own
    BY <1>2 DEF FollowOK
  <2>2. row'[k].status = "running" => row'[k].tracker = loop'[l].node
    BY <1>2, <2>1 DEF Sound
  <2>3. row'[k].status = "abandoned" /\ ~row'[k].end => k \in old'
    BY <1>1, <1>2, <2>1 DEF Sound
  <2>4. QED
    BY <2>1, <2>2, <2>3 DEF Sound
<1>3. QED
  BY <1>1, <1>2 DEF FollowOK

\* A loop that is started on a job no loop follows, by a process that serves or takes it over.
LEMMA FollowStarted ==
  ASSUME TypeOK, [Next]_vars, NEW k \in Job, FollowOK(k), row'[k].host = NoNode,
         \A l \in Loop : ~Follows(l, k),
         NEW pc, NEW n \in Node, StartLoop(pc, k, n), n \in up', mem'[n].own,
         row'[k].status = "running", row'[k].tracker = n
  PROVE  FollowOK(k)'
<1>1. k \in old' => ~Read(k)'
  BY OldFacts
<1>2. PICK l \in Loop : loop' = [loop EXCEPT ![l] = [pc |-> pc, job |-> k, node |-> n, answer |-> "failed"]]
  BY StartedLoop
<1>3. /\ loop'[l].node = n /\ loop'[l].job = k
      /\ \A m \in Loop : m # l => loop'[m] = loop[m]
  BY <1>2 DEF TypeOK
<1>4. \A m \in Loop : Follows(m, k)' => m = l
  BY <1>3 DEF Follows
<1>5. Sound(l, k)'
  BY <1>3 DEF Sound
<1>6. QED
  BY <1>1, <1>4, <1>5 DEF FollowOK

\* A sweep leaves the host alone.
LEMMA SweepHosts ==
  ASSUME NEW r \in Row
  PROVE  /\ AbandonQuietRow(r).host = r.host
         /\ \A t, u : AbandonOwnRow(r, t, u).host = r.host
         /\ \A n, recent, kept : AbandonDeadRow(r, n, recent, kept).host = r.host
<1>1. AbandonedRow(r).host = r.host
  BY DEF AbandonedRow, Row
<1>2. QED
  BY <1>1 DEF AbandonQuietRow, AbandonOwnRow, AbandonDeadRow

\* Of the jobs a loop follows, a start and the sweep of dead nodes abandon none: the loop's process
\* runs, is not the one that starts, and has a heartbeat.
LEMMA SweptUnfollowed ==
  ASSUME TypeOK, OneLauncher, FollowInv, NEW n \in Node, SweepStep(n),
         NEW k \in Job, NEW l \in Loop, Follows(l, k)
  PROVE  row'[k] = row[k] \/ k \in old
<1>1. /\ row[k] \in Row /\ row[k].host = NoNode /\ Sound(l, k) /\ row[k].status # "approve"
      /\ loop[l].node \in Node
  BY ActiveTyping DEF TypeOK, FollowInv, FollowOK, OneLauncher, LaunchOK, Follows
<1>2. UnderWay(row[k]) => row[k].status = "running" /\ row[k].tracker = loop[l].node
  BY <1>1 DEF UnderWay, Sound
<1>3. loop[l].node # NoNode /\ loop[l].node \in fresh
  BY <1>1, NoNodeAssumption DEF Sound, FollowInv, NodeOK
<1>4. ASSUME NEW u \in BOOLEAN, StartTakeOver(n, u) PROVE row'[k] = row[k]
  <2>1. CASE ~mem[n].own
    <3>1. ~u
      BY <1>4, <2>1 DEF StartTakeOver, FollowInv, NodeOK
    <3>2. row'[k] = AbandonOwnRow(row[k], n, u)
      BY <1>4, <2>1 DEF StartTakeOver
    <3>3. loop[l].node # n
      BY <1>1, <2>1 DEF Sound
    <3>4. QED
      BY <1>2, <3>1, <3>2, <3>3 DEF AbandonOwnRow
  <2>2. CASE mem[n].own
    <3>1. row'[k] = AbandonOwnRow(row[k], NoNode, TRUE) \/ row'[k] = row[k]
      BY <1>4, <2>2 DEF StartTakeOver
    <3>2. QED
      BY <1>2, <1>3, <3>1 DEF AbandonOwnRow
  <2>3. QED
    BY <2>1, <2>2
<1>5. CASE SweepDeadNodes(n)
  <2>1. row'[k] = AbandonDeadRow(row[k], n, fresh, {})
    BY <1>5 DEF SweepDeadNodes
  <2>2. QED
    BY <1>1, <1>2, <1>3, <2>1 DEF AbandonDeadRow, Owner
<1>6. ASSUME NEW quiet \in SUBSET Job, SweepQuiet(n, quiet) PROVE row'[k] = row[k] \/ k \in old
  BY <1>6 DEF SweepQuiet
<1>7. QED
  BY <1>4, <1>5, <1>6 DEF SweepStep

\* The steps of the nodes keep one loop on a job: a take-over claims a job only that no loop follows,
\* because it is abandoned and not a day old.
LEMMA NodeFollowOK ==
  ASSUME OnlyCrashes, TypeOK, OneLauncher, FollowInv, [Next]_vars, NEW n \in Node, NodeStep(n), NEW k \in Job
  PROVE  FollowOK(k)'
<1> USE NoOtherFault
<1>1. FollowOK(k) /\ row[k] \in Row /\ row[k].host = NoNode /\ \A m \in Node : NodeOK(m)
  BY DEF FollowInv, FollowOK, TypeOK
<1>2. ASSUME NEW l \in Loop, Follows(l, k)
      PROVE  loop[l].node \in Node /\ loop[l].node \in up /\ mem[loop[l].node].own
  BY <1>1, <1>2, ActiveTyping DEF FollowOK, Sound, Follows
<1>3. CASE SweepStep(n)
  <2>1. UNCHANGED <<loop, up>> /\ \A m \in Node : mem[m].own => mem'[m].own
    <3>1. ASSUME NEW u \in BOOLEAN, StartTakeOver(n, u)
          PROVE  UNCHANGED <<loop, up>> /\ mem'[n].own /\ \A m \in Node : m # n => mem'[m] = mem[m]
      BY <3>1 DEF StartTakeOver, TypeOK
    <3>2. (SweepDeadNodes(n) \/ \E quiet \in SUBSET Job : SweepQuiet(n, quiet)) => UNCHANGED <<loop, up, mem>>
      BY DEF SweepDeadNodes, SweepQuiet
    <3>3. QED
      BY <1>3, <3>1, <3>2 DEF SweepStep
  <2>2. row'[k].host = NoNode
    <3>1. ASSUME NEW u \in BOOLEAN, StartTakeOver(n, u) PROVE row'[k].host = NoNode
      <4>1. \E t, v : row'[k] = AbandonOwnRow(row[k], t, v) \/ row'[k] = row[k]
        BY <3>1 DEF StartTakeOver
      <4>2. QED
        BY <1>1, <4>1, SweepHosts
    <3>2. SweepDeadNodes(n) => row'[k].host = NoNode
      BY <1>1, SweepHosts DEF SweepDeadNodes
    <3>3. ASSUME NEW quiet \in SUBSET Job, SweepQuiet(n, quiet) PROVE row'[k].host = NoNode
      BY <1>1, <3>3, SweepHosts DEF SweepQuiet
    <3>4. QED
      BY <1>3, <3>1, <3>2, <3>3 DEF SweepStep
  <2>3. row'[k] = row[k] \/ row'[k].status = "abandoned"
    BY <1>3, SweepStepFacts DEF Swept
  <2>4. (\E l \in Loop : Follows(l, k)) => row'[k] = row[k] \/ k \in old
    BY <1>3, SweptUnfollowed
  <2>5. \A l \in Loop : Follows(l, k)' => Follows(l, k) /\ loop'[l].node = loop[l].node
    BY <2>1 DEF Follows
  <2>6. QED
    BY <1>1, <1>2, <2>1, <2>2, <2>3, <2>4, <2>5, FollowKept
<1>4. ASSUME NEW t \in Thread, NEW j \in Job, NEW seen \in Node \cup {NoNode}, ClaimAbandoned(n, t, j, seen)
      PROVE  FollowOK(k)'
  <2>1. UNCHANGED <<up, mem>> /\ n \in up /\ mem[n].own
    BY <1>1, <1>4 DEF ClaimAbandoned, NodeOK
  <2>2. CASE k # j \/ ~Claimable(row[j], seen)
    <3>1. row'[k] = row[k]
      BY <1>4, <2>2 DEF ClaimAbandoned, ClaimRow, TypeOK
    <3>2. \A l \in Loop : Follows(l, k)' => Follows(l, k) /\ loop'[l].node = loop[l].node
      <4>1. CASE ~Claimable(row[j], seen)
        BY <1>4, <4>1 DEF ClaimAbandoned, Follows
      <4>2. CASE k # j /\ Claimable(row[j], seen)
        <5>1. PICK l \in Loop : /\ loop'[l].job = j
                                /\ \A m \in Loop : m # l => loop'[m] = loop[m]
          BY <1>4, <4>2, StartLoopFacts DEF ClaimAbandoned
        <5>2. QED
          BY <4>2, <5>1 DEF Follows
      <4>3. QED
        BY <2>2, <4>1, <4>2
    <3>3. QED
      BY <1>1, <1>2, <2>1, <3>1, <3>2, FollowKept
  <2>3. CASE k = j /\ Claimable(row[j], seen)
    <3>1. row[k].status = "abandoned" /\ ~row[k].end
      BY <2>3 DEF Claimable
    <3>2. k \notin old
      BY <1>1, <1>4, <2>3 DEF ClaimAbandoned, Read, FollowOK
    <3>3. \A l \in Loop : ~Follows(l, k)
      BY <1>1, <3>1, <3>2 DEF FollowOK, Sound
    <3>4. row'[k].status = "running" /\ row'[k].tracker = n /\ row'[k].host = NoNode
      BY <1>1, <1>4, <2>3 DEF ClaimAbandoned, ClaimRow, TypeOK, Row
    <3>5. StartLoop("resume", k, n)
      BY <1>4, <2>3 DEF ClaimAbandoned
    <3>6. QED
      BY <1>1, <2>1, <3>3, <3>4, <3>5, FollowStarted
  <2>4. QED
    BY <2>2, <2>3
<1>5. CASE Crash(n) \/ StopLostWorker(n)
  <2>1. Forget(n) /\ UNCHANGED row
    BY <1>5 DEF Crash, StopLostWorker
  <2>2. \A l \in Loop : Follows(l, k)' => loop'[l] = loop[l] /\ loop[l].node # n
    <3>1. ASSUME NEW l \in Loop, Follows(l, k)' PROVE loop'[l] = loop[l] /\ loop[l].node # n
      BY <2>1, <3>1, ForgetFacts DEF Follows, FreeLoop
    <3>2. QED
      BY <3>1
  <2>3. \A m \in Node : m # n /\ m \in up => m \in up' /\ mem'[m] = mem[m]
    BY <2>1, ForgetFacts
  <2>4. ASSUME NEW l \in Loop, Follows(l, k)'
        PROVE  /\ Follows(l, k) /\ loop'[l].node = loop[l].node
               /\ loop[l].node \in up' /\ mem'[loop[l].node].own
    <3>1. Follows(l, k) /\ loop'[l] = loop[l] /\ loop[l].node # n
      BY <2>2, <2>4 DEF Follows
    <3>2. QED
      BY <1>2, <2>3, <3>1
  <2>5. QED
    BY <1>1, <2>1, <2>4, FollowKept
<1>6. CASE \/ Start(n) \/ Heartbeat(n) \/ Lapse(n) \/ TakeLock(n) \/ ConfirmSweep(n)
           \/ (\E u \in BOOLEAN : StartTakeOverFails(n, u)) \/ \E t \in Thread : FindResumable(n, t)
  <2>1. UNCHANGED <<row, loop>> /\ up \subseteq up'
    BY <1>6 DEF Start, Heartbeat, Lapse, TakeLock, StartTakeOverFails, ConfirmSweep, FindResumable
  <2>2. \A m \in Node : mem'[m].own = mem[m].own
    <3>1. CASE Start(n)
      BY <3>1 DEF Start, TypeOK
    <3>2. CASE TakeLock(n)
      BY <3>2 DEF TakeLock, TypeOK
    <3>3. CASE UNCHANGED mem
      BY <3>3
    <3>4. ~\E u \in BOOLEAN : StartTakeOverFails(n, u)
      BY DEF StartTakeOverFails
    <3>5. QED
      BY <1>6, <3>1, <3>2, <3>3, <3>4 DEF Heartbeat, Lapse, ConfirmSweep, FindResumable
  <2>3. \A l \in Loop : Follows(l, k)' => Follows(l, k) /\ loop'[l].node = loop[l].node
    BY <2>1 DEF Follows
  <2>4. QED
    BY <1>1, <1>2, <2>1, <2>2, <2>3, FollowKept
<1>7. QED
  BY <1>3, <1>4, <1>5, <1>6, NodeSteps

\* The steps of the users: a launch and an approval start a loop on a job no loop follows.
LEMMA UserFollowOK ==
  ASSUME TypeOK, OneLauncher, FollowInv, [Next]_vars, NEW j \in Job,
         UserStep(j) \/ RemoteEnds(j) \/ ADayPasses(j), NEW k \in Job
  PROVE  FollowOK(k)'
<1>1. /\ FollowOK(k) /\ row[k] \in Row /\ row[k].host = NoNode /\ LaunchOK(k)
      /\ \A n \in Node : NodeOK(n)
  BY DEF FollowInv, FollowOK, TypeOK, OneLauncher
<1>2. UNCHANGED <<up, mem>>
  BY DEF UserStep, Launch, Approve, Reject, Abort, Delete, RemoteEnds, ADayPasses
<1>3. ASSUME NEW l \in Loop, Follows(l, k)
      PROVE  loop[l].node \in up' /\ mem'[loop[l].node].own
  BY <1>1, <1>2, <1>3 DEF FollowOK, Sound
<1>4. ASSUME NEW pc, NEW n \in Node, StartLoop(pc, j, n), Serves(n), row[j].status \in {"absent", "approve"},
             row'[j].status = "running", row'[j].tracker = n, row'[j].host = row[j].host,
             \A i \in Job : i # j => row'[i] = row[i]
      PROVE  FollowOK(k)'
  <2>1. CASE k # j
    <3>1. PICK l \in Loop : /\ loop'[l].job = j
                            /\ \A m \in Loop : m # l => loop'[m] = loop[m]
      BY <1>4, StartLoopFacts
    <3>2. \A m \in Loop : Follows(m, k)' => Follows(m, k) /\ loop'[m].node = loop[m].node
      BY <2>1, <3>1 DEF Follows
    <3>3. QED
      BY <1>1, <1>3, <1>4, <2>1, <3>2, FollowKept
  <2>2. CASE k = j
    <3>1. \A l \in Loop : ~Follows(l, k)
      BY <1>1, <1>4, <2>2 DEF LaunchOK
    <3>2. n \in up' /\ mem'[n].own
      BY <1>1, <1>2, <1>4 DEF Serves, NodeOK
    <3>3. QED
      BY <1>1, <1>4, <2>2, <3>1, <3>2, FollowStarted
  <2>3. QED
    BY <2>1, <2>2
<1>5. ASSUME NEW n \in Node, Launch(n, j) PROVE FollowOK(k)'
  <2>1. \A i \in Job : i # j => row'[i] = row[i]
    BY <1>5 DEF Launch, TypeOK
  <2>2. row'[j].status = "running" /\ row'[j].tracker = n /\ row'[j].host = row[j].host
    BY <1>5 DEF Launch, CreateRow, TypeOK, Row
  <2>3. QED
    BY <1>4, <1>5, <2>1, <2>2 DEF Launch
<1>6. ASSUME NEW n \in Node, Approve(n, j) PROVE FollowOK(k)'
  <2>1. \A i \in Job : i # j => row'[i] = row[i]
    BY <1>6 DEF Approve, TypeOK
  <2>2. row'[j].status = "running" /\ row'[j].tracker = n /\ row'[j].host = row[j].host
    BY <1>6 DEF Approve, ContinueRow, TypeOK, Row
  <2>3. QED
    BY <1>4, <1>6, <2>1, <2>2 DEF Approve
<1>7. ASSUME UNCHANGED loop, row'[k].host = NoNode,
             \/ row'[k].status \notin {"running", "abandoned"}
             \/ row'[k].status = row[k].status /\ row'[k].tracker = row[k].tracker /\ row'[k].end = row[k].end
      PROVE  FollowOK(k)'
  <2>1. \A l \in Loop : Follows(l, k)' => Follows(l, k) /\ loop'[l].node = loop[l].node
    BY <1>7 DEF Follows
  <2>2. QED
    BY <1>1, <1>3, <1>7, <2>1, FollowKept
<1>8. CASE Reject(j)
  <2>1. row'[k] = row[k] \/ (row'[k].status = "rejected" /\ row'[k].host = NoNode)
    BY <1>1, <1>8 DEF Reject, RejectRow, TransitionStatus, TypeOK, Row
  <2>2. QED
    BY <1>1, <1>7, <1>8, <2>1 DEF Reject
<1>9. CASE Abort(j)
  <2>1. /\ row'[k].status = row[k].status /\ row'[k].tracker = row[k].tracker /\ row'[k].end = row[k].end
        /\ row'[k].host = row[k].host
    BY <1>1, <1>9 DEF Abort, RequestAbortRow, TypeOK, Row
  <2>2. QED
    BY <1>1, <1>7, <1>9, <2>1 DEF Abort
<1>10. CASE Delete(j)
  <2>1. row'[k] = row[k] \/ (row'[k].status = "deleted" /\ row'[k].host = NoNode)
    BY <1>10 DEF Delete, AbsentRow, TypeOK
  <2>2. QED
    BY <1>1, <1>7, <1>10, <2>1 DEF Delete
<1>11. CASE RemoteEnds(j) \/ ADayPasses(j)
  BY <1>1, <1>7, <1>11 DEF RemoteEnds, ADayPasses
<1>12. QED
  BY <1>5, <1>6, <1>8, <1>9, <1>10, <1>11 DEF UserStep

\* The steps of the loops: each keeps its job, or stops, or gives it up and stops.
LEMMA LoopFollowOK ==
  ASSUME TypeOK, FollowInv, [Next]_vars, NEW l \in Loop, LoopStep(l), NEW k \in Job
  PROVE  FollowOK(k)'
<1> DEFINE j == JobOf(l)
<1>1. /\ FollowOK(k) /\ row[k] \in Row /\ row[k].host = NoNode
      /\ loop[l].pc # "free" /\ loop[l] \in ActiveLoop /\ j \in Job /\ Follows(l, j)
      /\ loop[l].answer \in Outcome
      /\ \A i \in Job : i # j => row'[i] = row[i]
  BY LoopFacts, ActiveTyping DEF FollowInv, FollowOK, TypeOK, Follows, JobOf
<1>2. UNCHANGED <<up, mem>>
  BY DEF LoopStep, SharedUnchanged, Gate, DispatchFails, Post, StoreRemoteId, Resume, GiveUp, Check, Poll,
         PollAborts, LoseContact, End
<1>3. ASSUME NEW m \in Loop, Follows(m, k)
      PROVE  /\ loop[m].node \in up' /\ mem'[loop[m].node].own
             /\ \A i \in Loop : Follows(i, k) => i = m
  BY <1>1, <1>2, <1>3 DEF FollowOK, Sound
<1>4. ASSUME NEW pc \in LoopPc \ {"free"}, Goto(l, pc) \/ (pc = "end" /\ \E o \in Outcome : Answer(l, o)),
             row'[k].status = row[k].status, row'[k].tracker = row[k].tracker, row'[k].end = row[k].end,
             row'[k].host = row[k].host
      PROVE  FollowOK(k)'
  <2>1. \A m \in Loop : m # l => loop'[m] = loop[m]
    BY <1>1, <1>4, MoveLoopFacts
  <2>2. \A m \in Loop : Follows(m, k)' => Follows(m, k)
    BY <1>1, <1>4, MoveLoopFacts
  <2>3. loop'[l].node = loop[l].node
    BY <1>1, <1>4 DEF Goto, Answer, TypeOK, ActiveLoop
  <2>4. \A m \in Loop : Follows(m, k)' => Follows(m, k) /\ loop'[m].node = loop[m].node
    BY <2>1, <2>2, <2>3
  <2>5. QED
    BY <1>1, <1>3, <1>4, <2>4, FollowKept
<1>5. ASSUME Stop(l), row'[k].host = NoNode PROVE FollowOK(k)'
  <2>1. /\ \A m \in Loop : m # l => loop'[m] = loop[m]
        /\ ~Follows(l, k)'
    BY <1>5, StopLoopFacts
  <2>2. \A m \in Loop : Follows(m, k)' => Follows(m, k) /\ loop'[m].node = loop[m].node
    BY <2>1 DEF Follows
  <2>3. k = j => ~\E m \in Loop : Follows(m, k)'
    BY <1>1, <1>3, <2>1, <2>2
  <2>4. k # j => row'[k] = row[k]
    BY <1>1
  <2>5. QED
    BY <1>1, <1>3, <1>5, <2>2, <2>3, <2>4, FollowKept
<1>6. {"posted", "check", "poll", "end"} \subseteq LoopPc \ {"free"}
  BY DEF LoopPc
<1>7. CASE Gate(l)
  <2>1. row'[k] = row[k] \/ row'[k] = HoldRow(row[k])
    BY <1>1, <1>7 DEF Gate, TypeOK
  <2>2. row'[k].host = NoNode
    BY <1>1, <2>1 DEF HoldRow, TransitionStatus, Row
  <2>3. QED
    BY <1>5, <1>7, <2>2 DEF Gate
<1>8. CASE GiveUp(l)
  <2>1. row'[k] = row[k] \/ row'[k] = GiveUpRow(row[k])
    BY <1>1, <1>8 DEF GiveUp, TypeOK
  <2>2. row'[k].host = NoNode
    BY <1>1, <2>1 DEF GiveUpRow, Row
  <2>3. QED
    BY <1>5, <1>8, <2>2 DEF GiveUp
<1>9. CASE End(l)
  <2>1. row'[k] = row[k] \/ row'[k] = EndRow(row[k], loop[l].answer)
    BY <1>1, <1>9 DEF End, TypeOK
  <2>2. row'[k].host = NoNode
    BY <1>1, <2>1 DEF EndRow, TransitionStatus, Row
  <2>3. QED
    BY <1>5, <1>9, <2>2 DEF End
<1>10. CASE Check(l)
  BY <1>1, <1>4, <1>5, <1>6, <1>10 DEF Check
<1>11. CASE DispatchFails(l) \/ Post(l) \/ Resume(l) \/ Poll(l)
  <2>1. \A s \in DOMAIN Outcomes : Outcomes[s] \in Outcome
    BY DEF Outcomes, Outcome
  <2>2. UNCHANGED row
    BY <1>11 DEF DispatchFails, Post, Resume, Poll
  <2>3. \E pc \in LoopPc \ {"free"} : Goto(l, pc) \/ (pc = "end" /\ \E o \in Outcome : Answer(l, o))
    BY <1>6, <1>11, <2>1 DEF DispatchFails, Post, Resume, Poll, Outcome
  <2>4. QED
    BY <1>1, <1>4, <2>2, <2>3
<1>12. CASE StoreRemoteId(l) \/ PollAborts(l) \/ LoseContact(l)
  <2>1. row'[k] = row[k] \/ row'[k] = StoreIdRow(row[k]) \/ row'[k] = ResetAbortRow(row[k])
    BY <1>1, <1>12 DEF StoreRemoteId, PollAborts, LoseContact, TypeOK
  <2>2. /\ row'[k].status = row[k].status /\ row'[k].tracker = row[k].tracker /\ row'[k].end = row[k].end
        /\ row'[k].host = row[k].host
    BY <1>1, <2>1 DEF StoreIdRow, ResetAbortRow, Row
  <2>3. \E pc \in LoopPc \ {"free"} : Goto(l, pc) \/ (pc = "end" /\ \E o \in Outcome : Answer(l, o))
    BY <1>6, <1>12 DEF StoreRemoteId, PollAborts, LoseContact, Outcome
  <2>4. QED
    BY <1>1, <1>4, <2>2, <2>3
<1>13. QED
  BY <1>7, <1>8, <1>9, <1>10, <1>11, <1>12 DEF LoopStep

LEMMA FollowInvStep ==
  ASSUME OnlyCrashes, TypeOK, OneLauncher, FollowInv, [Next]_vars
  PROVE  FollowInv'
<1>1. ASSUME NEW m \in Node PROVE NodeOK(m)'
  <2>1. NodeOK(m) /\ \A n \in Node : NodeOK(n)
    BY DEF FollowInv
  <2>2. ASSUME NEW n \in Node, NodeStep(n) PROVE NodeOK(m)'
    BY <2>1, <2>2, NodeOKNodeStep
  <2>3. ASSUME NEW j \in Job, UserStep(j) \/ RemoteEnds(j) \/ ADayPasses(j) PROVE UNCHANGED <<up, fresh, mem, task>>
    BY <2>3 DEF UserStep, Launch, Approve, Reject, Abort, Delete, RemoteEnds, ADayPasses
  <2>4. ASSUME NEW l \in Loop, LoopStep(l) PROVE UNCHANGED <<up, fresh, mem, task>>
    BY <2>4 DEF LoopStep, SharedUnchanged, Gate, DispatchFails, Post, StoreRemoteId, Resume, GiveUp, Check, Poll,
                PollAborts, LoseContact, End
  <2>5. QED
    BY <2>1, <2>2, <2>3, <2>4, NodeOKKept DEF Next, vars, LoseLock
<1>2. ASSUME NEW k \in Job PROVE FollowOK(k)'
  <2>1. CASE UNCHANGED <<row, up, mem, task, loop, old>>
    BY <2>1 DEF FollowInv, FollowOK, Sound, Follows, Read
  <2>2. QED
    BY <2>1, NodeFollowOK, UserFollowOK, LoopFollowOK DEF Next, vars, LoseLock
<1>3. QED
  BY <1>1, <1>2 DEF FollowInv

LEMMA InitFollowInv == Init => FollowInv
<1> SUFFICES ASSUME Init PROVE FollowInv
  OBVIOUS
<1>1. \A n \in Node : NodeOK(n)
  BY DEF Init, NodeOK, IdleTask
<1>2. AbsentRow("awx").host = NoNode /\ LegacyRow.host = NoNode
  BY DEF LegacyRow, CreateRow, AbsentRow
<1>3. \A j \in Job : row[j].host = NoNode
  BY <1>2 DEF Init
<1>4. \A j \in Job, l \in Loop : ~Follows(l, j)
  BY DEF Init, Follows, FreeLoop
<1>5. old = {}
  BY DEF Init
<1>6. QED
  BY <1>1, <1>3, <1>4, <1>5 DEF FollowInv, FollowOK

LEMMA FollowInvHolds ==
  ASSUME OnlyCrashes
  PROVE  Spec => []FollowInv
<1>1. TypeOK /\ OneLauncher /\ FollowInv /\ [Next]_vars => FollowInv'
  BY FollowInvStep
<1>2. QED
  BY <1>1, InitFollowInv, TypeCorrect, OneLauncherHolds, PTL DEF Spec

\* A job is followed by one loop only, as long as the only fault is a crash: no live node's heartbeat
\* lapses and no statement of a take-over fails (the comment of Job.followedElsewhere, and
\* abandonAndResumeOnce).
THEOREM OneFollowerHolds ==
  ASSUME FaultKinds \subseteq {"crash"}
  PROVE  Spec => []OneFollower
<1>1. FollowInv => OneFollower
  BY DEF FollowInv, FollowOK, OneFollower
<1>2. OnlyCrashes
  BY DEF OnlyCrashes
<1>3. QED
  BY <1>1, <1>2, FollowInvHolds, PTL

\* Of the jobs a loop follows, only the day-old quiet ones are given up, under the same hypothesis.
THEOREM FollowedNotAbandonedHolds ==
  ASSUME FaultKinds \subseteq {"crash"}
  PROVE  Spec => FollowedNotAbandoned
<1>1. ASSUME TypeOK, OneLauncher, AbortInv, FollowInv, [Next]_vars, NEW k \in Job,
             row[k].status = "running", row'[k].status = "abandoned", ~row'[k].end, k \notin old,
             NEW l \in Loop, Follows(l, k)
      PROVE  FALSE
  <2>1. row[k] \in Row /\ row'[k] # row[k]
    BY <1>1 DEF TypeOK
  <2>2. ASSUME NEW n \in Node, NodeStep(n) PROVE FALSE
    <3>1. CASE SweepStep(n)
      BY <1>1, <2>1, <3>1, SweptUnfollowed
    <3>2. ASSUME NEW t \in Thread, NEW j \in Job, NEW seen \in Node \cup {NoNode}, ClaimAbandoned(n, t, j, seen)
          PROVE  FALSE
      BY <1>1, <2>1, <3>2 DEF ClaimAbandoned, ClaimRow, Claimable, TypeOK
    <3>3. QED
      BY <2>1, <2>2, <3>1, <3>2, NodeSteps, ProcessFacts
  <2>3. ASSUME NEW j \in Job, UserStep(j) \/ RemoteEnds(j) \/ ADayPasses(j) PROVE FALSE
    <3>1. CASE k # j \/ RemoteEnds(j) \/ ADayPasses(j)
      <4>1. row'[k] = row[k] \/ row'[k].status = row[k].status
        BY <1>1, <2>3, <3>1 DEF UserStep, Launch, Approve, Reject, Abort, Delete, RemoteEnds, ADayPasses, TypeOK
      <4>2. QED
        BY <1>1, <4>1
    <3>2. CASE k = j /\ UserStep(j)
      <4>1. ~\E n \in Node : Launch(n, j) \/ Approve(n, j)
        BY <1>1, <3>2 DEF Launch, Approve
      <4>2. ~Reject(j)
        BY <1>1, <3>2 DEF Reject
      <4>3. ~Abort(j)
        <5>1. Abort(j) => row'[k] = RequestAbortRow(row[k])
          BY <1>1, <3>2 DEF Abort, TypeOK
        <5>2. RequestAbortRow(row[k]).status = row[k].status
          BY <2>1 DEF RequestAbortRow, UnderWay, Row
        <5>3. QED
          BY <1>1, <5>1, <5>2
      <4>4. ~Delete(j)
        BY <1>1, <3>2 DEF Delete, AbsentRow, TypeOK
      <4>5. QED
        BY <3>2, <4>1, <4>2, <4>3, <4>4 DEF UserStep
    <3>3. QED
      BY <2>3, <3>1, <3>2
  <2>4. ASSUME NEW m \in Loop, LoopStep(m) PROVE FALSE
    <3>1. JobOf(m) = k /\ loop[m].answer \in Outcome
      BY <1>1, <2>1, <2>4, LoopFacts, ActiveTyping
    <3>2. ~GiveUp(m)
      <4>1. GiveUp(m) => row'[k] = GiveUpRow(row[k])
        BY <1>1, <3>1 DEF GiveUp, TypeOK
      <4>2. GiveUpRow(row[k]).end = TRUE
        BY <1>1, <2>1 DEF GiveUpRow, Row
      <4>3. QED
        BY <1>1, <4>1, <4>2
    <3>3. ~Gate(m)
      BY <1>1, <2>1, <3>1, HoldFacts DEF Gate, TypeOK
    <3>4. ~End(m)
      BY <1>1, <2>1, <3>1, EndFacts DEF End, TypeOK, ENDS_FROM, Outcome
    <3>5. (\/ DispatchFails(m) \/ Post(m) \/ StoreRemoteId(m) \/ Resume(m) \/ Check(m) \/ Poll(m)
           \/ PollAborts(m) \/ LoseContact(m)) => row'[k].status = row[k].status
      <4>1. (\/ DispatchFails(m) \/ Post(m) \/ StoreRemoteId(m) \/ Resume(m) \/ Check(m) \/ Poll(m)
             \/ PollAborts(m) \/ LoseContact(m))
            => row'[k] = row[k] \/ row'[k] = StoreIdRow(row[k]) \/ row'[k] = ResetAbortRow(row[k])
        BY <1>1, <3>1 DEF DispatchFails, Post, StoreRemoteId, Resume, Check, Poll, PollAborts, LoseContact, TypeOK
      <4>2. StoreIdRow(row[k]).status = row[k].status /\ ResetAbortRow(row[k]).status = row[k].status
        BY <2>1 DEF StoreIdRow, ResetAbortRow, Row
      <4>3. QED
        BY <4>1, <4>2
    <3>6. QED
      BY <1>1, <2>4, <3>2, <3>3, <3>4, <3>5 DEF LoopStep
  <2>5. QED
    BY <1>1, <2>1, <2>2, <2>3, <2>4 DEF Next, vars, LoseLock
<1>2. ASSUME TypeOK, OneLauncher, AbortInv, FollowInv, [Next]_vars
      PROVE  [\A j \in Job : (/\ row[j].status = "running" /\ row'[j].status = "abandoned"
                              /\ ~row'[j].end /\ j \notin old)
                             => ~\E l \in Loop : Follows(l, j)]_vars
  BY <1>1, <1>2
<1>3. OnlyCrashes
  BY DEF OnlyCrashes
<1>4. QED
  BY <1>2, <1>3, TypeCorrect, OneLauncherHolds, AbortInvHolds, FollowInvHolds, PTL DEF Spec, FollowedNotAbandoned

-----------------------------------------------------------------------------
(* A job given up with its node can be followed again                      *)

\* A job whose form asks for no approval never waits for one, and its `end` is written by its end or by
\* a give-up only.
EndOK(j) ==
  /\ row[j].host = NoNode /\ row[j].status # "approve"
  /\ \A l \in Loop : Follows(l, j) => loop[l].pc # "gate"
  /\ row[j].end => hist[j].ended > 0 \/ hist[j].gaveUp

EndInv == \A j \in Job \ Gated : EndOK(j)

\* What most steps do to a job: they do not write its `end`, and no loop comes to its gate.
LEMMA EndKept ==
  ASSUME NEW k \in Job, EndOK(k), row'[k].host = row[k].host,
         row'[k].status = "approve" => row[k].status = "approve",
         row'[k].end => row[k].end, hist'[k].ended = hist[k].ended, hist[k].gaveUp => hist'[k].gaveUp,
         \A l \in Loop : Follows(l, k)' => \/ Follows(l, k) /\ loop'[l].pc = loop[l].pc
                                           \/ loop'[l].pc # "gate"
  PROVE  EndOK(k)'
<1>1. \A l \in Loop : Follows(l, k)' => loop'[l].pc # "gate"
  BY DEF EndOK
<1>2. QED
  BY <1>1 DEF EndOK

\* A sweep leaves the `end` alone as well.
LEMMA SweepEnds ==
  ASSUME NEW r \in Row
  PROVE  /\ AbandonQuietRow(r).end = r.end
         /\ \A t, u : AbandonOwnRow(r, t, u).end = r.end
         /\ \A n, recent, kept : AbandonDeadRow(r, n, recent, kept).end = r.end
<1>1. AbandonedRow(r).end = r.end
  BY DEF AbandonedRow, Row
<1>2. QED
  BY <1>1 DEF AbandonQuietRow, AbandonOwnRow, AbandonDeadRow

LEMMA SweepStepEnds ==
  ASSUME TypeOK, NEW n \in Node, SweepStep(n), NEW k \in Job
  PROVE  row'[k].host = row[k].host /\ row'[k].end = row[k].end
<1>1. row[k] \in Row
  BY DEF TypeOK
<1>2. ASSUME NEW u \in BOOLEAN, StartTakeOver(n, u)
      PROVE  row'[k].host = row[k].host /\ row'[k].end = row[k].end
  <2>1. \E t, v : row'[k] = AbandonOwnRow(row[k], t, v) \/ row'[k] = row[k]
    BY <1>2 DEF StartTakeOver
  <2>2. QED
    BY <1>1, <2>1, SweepHosts, SweepEnds
<1>3. SweepDeadNodes(n) => row'[k].host = row[k].host /\ row'[k].end = row[k].end
  BY <1>1, SweepHosts, SweepEnds DEF SweepDeadNodes
<1>4. ASSUME NEW quiet \in SUBSET Job, SweepQuiet(n, quiet)
      PROVE  row'[k].host = row[k].host /\ row'[k].end = row[k].end
  BY <1>1, <1>4, SweepHosts, SweepEnds DEF SweepQuiet
<1>5. QED
  BY <1>2, <1>3, <1>4 DEF SweepStep

\* The steps of the nodes: a sweep leaves `end` as it is, a take-over starts behind the gate.
LEMMA NodeEndOK ==
  ASSUME TypeOK, NEW n \in Node, NodeStep(n), NEW k \in Job, EndOK(k)
  PROVE  EndOK(k)'
<1>1. row[k] \in Row
  BY DEF TypeOK
<1>2. CASE SweepStep(n)
  <2>1. row'[k] = row[k] \/ row'[k].status = "abandoned"
    BY <1>2, SweepStepFacts DEF Swept
  <2>2. QED
    BY <1>2, <2>1, SweepStepFacts, SweepStepEnds, EndKept DEF Follows
<1>3. ASSUME NEW t \in Thread, NEW j \in Job, NEW seen \in Node \cup {NoNode}, ClaimAbandoned(n, t, j, seen)
      PROVE  EndOK(k)'
  <2>1. UNCHANGED hist
    BY <1>3 DEF ClaimAbandoned
  <2>2. row'[k] = row[k] \/ row'[k] = ClaimRow(row[k], seen, n)
    BY <1>3 DEF ClaimAbandoned, TypeOK
  <2>3. row'[k].host = row[k].host /\ row'[k].end = row[k].end
        /\ (row'[k].status = "approve" => row[k].status = "approve")
    BY <1>1, <2>2 DEF ClaimRow, Row
  <2>4. \A l \in Loop : loop'[l] = loop[l] \/ loop'[l].pc = "resume"
    <3>1. CASE Claimable(row[j], seen)
      BY <1>3, <3>1, StartLoopFacts DEF ClaimAbandoned
    <3>2. CASE ~Claimable(row[j], seen)
      BY <1>3, <3>2 DEF ClaimAbandoned
    <3>3. QED
      BY <3>1, <3>2
  <2>5. QED
    BY <2>1, <2>3, <2>4, EndKept DEF Follows
<1>4. CASE Crash(n) \/ StopLostWorker(n)
  <2>1. Forget(n) /\ UNCHANGED <<row, hist>>
    BY <1>4 DEF Crash, StopLostWorker
  <2>2. \A l \in Loop : loop'[l] = loop[l] \/ loop'[l] = FreeLoop
    BY <2>1 DEF Forget
  <2>3. QED
    BY <2>1, <2>2, EndKept DEF Follows, FreeLoop
<1>5. CASE UNCHANGED <<row, hist, loop>>
  BY <1>5, EndKept DEF Follows
<1>6. QED
  BY <1>2, <1>3, <1>4, <1>5, NodeSteps
     DEF Start, Heartbeat, Lapse, TakeLock, StartTakeOverFails, ConfirmSweep, FindResumable

\* The steps of the users: only a launch of a gated job starts at the gate.
LEMMA UserEndOK ==
  ASSUME TypeOK, NEW j \in Job, UserStep(j) \/ RemoteEnds(j) \/ ADayPasses(j),
         NEW k \in Job \ Gated, EndOK(k)
  PROVE  EndOK(k)'
<1>1. row[k] \in Row
  BY DEF TypeOK
<1>2. UNCHANGED hist
  BY DEF UserStep, Launch, Approve, Reject, Abort, Delete, RemoteEnds, ADayPasses
<1>3. ASSUME NEW pc, NEW n \in Node, StartLoop(pc, j, n), k = j => pc # "gate",
             \/ row'[k] = row[k]
             \/ row'[k].host = row[k].host /\ row'[k].end = row[k].end /\ row'[k].status = "running"
      PROVE  EndOK(k)'
  <2>1. PICK l \in Loop : /\ loop'[l].pc = pc /\ loop'[l].job = j
                          /\ \A m \in Loop : m # l => loop'[m] = loop[m]
    BY <1>3, StartLoopFacts
  <2>2. \A m \in Loop : Follows(m, k)' => \/ Follows(m, k) /\ loop'[m].pc = loop[m].pc
                                          \/ loop'[m].pc # "gate"
    BY <1>3, <2>1 DEF Follows
  <2>3. QED
    BY <1>2, <1>3, <2>2, EndKept
<1>4. ASSUME NEW n \in Node, Launch(n, j) PROVE EndOK(k)'
  <2>1. row'[k] = row[k] \/ row'[k] = CreateRow(row[k], n)
    BY <1>4 DEF Launch, TypeOK
  <2>2. \E pc : StartLoop(pc, j, n) /\ (k = j => pc # "gate")
    BY <1>4 DEF Launch
  <2>3. CreateRow(row[k], n).host = row[k].host /\ CreateRow(row[k], n).end = row[k].end
        /\ CreateRow(row[k], n).status = "running"
    BY <1>1 DEF CreateRow, Row
  <2>4. QED
    BY <1>3, <2>1, <2>2, <2>3
<1>5. ASSUME NEW n \in Node, Approve(n, j) PROVE EndOK(k)'
  <2>1. k # j
    BY <1>5 DEF Approve, EndOK
  <2>2. row'[k] = row[k] /\ StartLoop("dispatch", j, n)
    BY <1>5, <2>1 DEF Approve, TypeOK
  <2>3. QED
    BY <1>3, <2>1, <2>2
<1>6. ASSUME UNCHANGED loop, row'[k].host = row[k].host, row'[k].end => row[k].end,
             row'[k].status = "approve" => row[k].status = "approve"
      PROVE  EndOK(k)'
  BY <1>2, <1>6, EndKept DEF Follows
<1>7. CASE Reject(j)
  <2>1. k # j
    BY <1>7 DEF Reject, EndOK
  <2>2. row'[k] = row[k] /\ UNCHANGED loop
    BY <1>7, <2>1 DEF Reject, TypeOK
  <2>3. QED
    BY <1>6, <2>2
<1>8. CASE Abort(j)
  <2>1. (row'[k] = row[k] \/ row'[k] = RequestAbortRow(row[k])) /\ UNCHANGED loop
    BY <1>8 DEF Abort, TypeOK
  <2>2. LET r == RequestAbortRow(row[k])
        IN r.host = row[k].host /\ r.end = row[k].end /\ r.status = row[k].status
    BY <1>1 DEF RequestAbortRow, UnderWay, Row
  <2>3. QED
    BY <1>6, <2>1, <2>2
<1>9. CASE Delete(j)
  <2>1. row'[k] = row[k] \/ (row'[k].status = "deleted" /\ row'[k].host = NoNode /\ row'[k].end = FALSE)
    BY <1>9 DEF Delete, AbsentRow, TypeOK
  <2>2. row[k].host = NoNode /\ UNCHANGED loop
    BY <1>9 DEF Delete, EndOK
  <2>3. QED
    BY <1>6, <2>1, <2>2
<1>10. CASE RemoteEnds(j) \/ ADayPasses(j)
  BY <1>6, <1>10 DEF RemoteEnds, ADayPasses
<1>11. QED
  BY <1>4, <1>5, <1>7, <1>8, <1>9, <1>10 DEF UserStep

\* The steps of the loops: an end that is written is counted, a give-up is noted, and no loop of an
\* ungated job holds it.
LEMMA LoopEndOK ==
  ASSUME TypeOK, NEW l \in Loop, LoopStep(l), NEW k \in Job, EndOK(k)
  PROVE  EndOK(k)'
<1> DEFINE j == JobOf(l)
<1>1. /\ row[k] \in Row /\ hist[k] \in HistType
      /\ loop[l].pc # "free" /\ j \in Job /\ loop[l].answer \in Outcome /\ Follows(l, j)
      /\ \A i \in Job : i # j => row'[i] = row[i] /\ hist'[i] = hist[i]
  BY LoopFacts, ActiveTyping DEF TypeOK, HistType, Follows, JobOf
<1>2. \A m \in Loop : Follows(m, k)' => \/ Follows(m, k) /\ loop'[m].pc = loop[m].pc
                                        \/ loop'[m].pc # "gate"
  <2>1. ASSUME NEW pc \in {"posted", "check", "poll", "end"},
               Goto(l, pc) \/ (pc = "end" /\ \E o \in Outcome : Answer(l, o))
        PROVE  \A m \in Loop : Follows(m, k)' => \/ Follows(m, k) /\ loop'[m].pc = loop[m].pc
                                                 \/ loop'[m].pc # "gate"
    <3>1. pc \in LoopPc \ {"free"} /\ pc # "gate"
      BY DEF LoopPc
    <3>2. loop'[l].pc = pc /\ \A m \in Loop : m # l => loop'[m] = loop[m]
      BY <1>1, <2>1, <3>1, MoveLoopFacts
    <3>3. QED
      BY <3>1, <3>2 DEF Follows
  <2>2. ASSUME Stop(l)
        PROVE  \A m \in Loop : Follows(m, k)' => Follows(m, k) /\ loop'[m].pc = loop[m].pc
    BY <2>2, StopLoopFacts DEF Follows
  <2>3. \A s \in DOMAIN Outcomes : Outcomes[s] \in Outcome
    BY DEF Outcomes, Outcome
  <2>4. \/ Stop(l)
        \/ \E pc \in {"posted", "check", "poll", "end"} :
             Goto(l, pc) \/ (pc = "end" /\ \E o \in Outcome : Answer(l, o))
    BY <2>3 DEF LoopStep, Gate, DispatchFails, Post, StoreRemoteId, Resume, GiveUp, Check, Poll, PollAborts,
                LoseContact, End, Outcome
  <2>5. QED
    BY <2>1, <2>2, <2>4
<1>3. CASE k # j
  BY <1>1, <1>2, <1>3, EndKept
<1>4. CASE k = j
  <2>1. ~Gate(l)
    BY <1>1, <1>4 DEF Gate, At, EndOK
  <2>2. CASE GiveUp(l)
    <3>1. row'[k] = GiveUpRow(row[k])
      BY <1>1, <1>4, <2>2 DEF GiveUp, TypeOK
    <3>2. CASE row[k].status = "running"
      <4>1. hist'[k].gaveUp = TRUE
        BY <1>1, <1>4, <2>2, <3>2 DEF GiveUp, TypeOK, HistType
      <4>2. row'[k].host = row[k].host /\ row'[k].status = "abandoned"
        BY <1>1, <3>1, <3>2 DEF GiveUpRow, Row
      <4>3. QED
        BY <1>2, <4>1, <4>2 DEF EndOK
    <3>3. CASE row[k].status # "running"
      BY <1>2, <1>4, <2>2, <3>1, <3>3, EndKept DEF GiveUp, GiveUpRow
    <3>4. QED
      BY <3>2, <3>3
  <2>3. CASE End(l)
    <3>1. row'[k] = EndRow(row[k], loop[l].answer)
      BY <1>1, <1>4, <2>3 DEF End, TypeOK
    <3>2. CASE row[k].status \in ENDS_FROM
      <4>1. hist'[k].ended > 0
        BY <1>1, <1>4, <2>3, <3>2 DEF End, TypeOK, HistType
      <4>2. row'[k].host = row[k].host /\ row'[k].status # "approve"
        BY <1>1, <3>1, <3>2 DEF EndRow, TransitionStatus, ENDS_FROM, Row, Outcome
      <4>3. QED
        BY <1>2, <4>1, <4>2 DEF EndOK
    <3>3. CASE row[k].status \notin ENDS_FROM
      <4>1. row'[k] = row[k] /\ UNCHANGED hist
        BY <1>1, <1>4, <2>3, <3>1, <3>3, EndFacts DEF End
      <4>2. QED
        BY <1>2, <4>1, EndKept
    <3>4. QED
      BY <3>2, <3>3
  <2>4. CASE \/ DispatchFails(l) \/ Post(l) \/ StoreRemoteId(l) \/ Resume(l) \/ Check(l) \/ Poll(l)
             \/ PollAborts(l) \/ LoseContact(l)
    <3>1. row'[k] = row[k] \/ row'[k] = StoreIdRow(row[k]) \/ row'[k] = ResetAbortRow(row[k])
      BY <1>1, <1>4, <2>4 DEF DispatchFails, Post, StoreRemoteId, Resume, Check, Poll, PollAborts, LoseContact, TypeOK
    <3>2. row'[k].host = row[k].host /\ row'[k].status = row[k].status /\ row'[k].end = row[k].end
      BY <1>1, <3>1 DEF StoreIdRow, ResetAbortRow, Row
    <3>3. hist'[k].ended = hist[k].ended /\ hist'[k].gaveUp = hist[k].gaveUp
      BY <1>1, <1>4, <2>4 DEF DispatchFails, Post, StoreRemoteId, Resume, Check, Poll, PollAborts, LoseContact,
                              TypeOK, HistType
    <3>4. QED
      BY <1>2, <3>2, <3>3, EndKept
  <2>5. QED
    BY <2>1, <2>2, <2>3, <2>4 DEF LoopStep
<1>5. QED
  BY <1>3, <1>4

LEMMA EndInvStep ==
  ASSUME TypeOK, EndInv, [Next]_vars
  PROVE  EndInv'
<1> SUFFICES ASSUME NEW k \in Job \ Gated PROVE EndOK(k)'
  BY DEF EndInv
<1>1. EndOK(k)
  BY DEF EndInv
<1>2. CASE UNCHANGED <<row, hist, loop>>
  BY <1>1, <1>2, EndKept DEF Follows
<1>3. QED
  BY <1>1, <1>2, NodeEndOK, UserEndOK, LoopEndOK DEF Next, vars, LoseLock

LEMMA InitEndInv == Init => EndInv
<1> SUFFICES ASSUME Init, NEW j \in Job PROVE EndOK(j)
  BY DEF EndInv
<1>1. /\ AbsentRow("awx").host = NoNode /\ AbsentRow("awx").end = FALSE
      /\ LegacyRow.host = NoNode /\ LegacyRow.end = FALSE
  BY DEF LegacyRow, CreateRow, AbsentRow
<1>2. row[j] = AbsentRow("awx") \/ row[j] = LegacyRow
  BY DEF Init
<1>3. row[j].status # "approve"
  BY InitRows
<1>4. \A l \in Loop : ~Follows(l, j)
  BY DEF Init, Follows, FreeLoop
<1>5. QED
  BY <1>1, <1>2, <1>3, <1>4 DEF EndOK

\* A job that was launched, was given up with its node and has not ended is one findResumable returns,
\* unless its form asks for an approval: the gate writes `end`, and nothing takes it back.
THEOREM UngatedResumable == Spec => [](\A j \in Job \ Gated : LostResumable(j))
<1>1. TypeOK /\ AbortInv /\ EndInv => \A j \in Job \ Gated : LostResumable(j)
  BY DEF TypeOK, AbortInv, AbortOK, EndInv, EndOK, LostResumable, Resumable, HistType
<1>2. TypeOK /\ EndInv /\ [Next]_vars => EndInv'
  BY EndInvStep
<1>3. QED
  BY <1>1, <1>2, InitEndInv, TypeCorrect, AbortInvHolds, PTL DEF Spec

\* So, where no form asks for an approval, every such job can be followed again, whatever fails.
THEOREM LostJobsResumableHolds ==
  ASSUME Gated = {}
  PROVE  Spec => []LostJobsResumable
<1>1. (\A j \in Job \ Gated : LostResumable(j)) => LostJobsResumable
  BY DEF LostJobsResumable
<1>2. QED
  BY <1>1, UngatedResumable, PTL

=============================================================================

------------------------- MODULE WorkflowRunProofs --------------------------
(***************************************************************************)
(* An abort reaches every job of a workflow, the end of a workflow says    *)
(* what its nodes did, and no node is launched twice, for any workflow,    *)
(* any number of nodes and of faults.                                      *)
(*                                                                         *)
(* The node's run and the request look for the flag and for the running    *)
(* jobs in any order with the loop: what holds throughout is that the flag *)
(* of an aborted loop stays as long as the workflow may go on (FlagKept),  *)
(* that a job it launched is followed here or settled (Watched), and that  *)
(* what tells one of them of the abort comes once more after it (Heard).   *)
(* The end of a workflow is true because a node is only skipped for links  *)
(* that fail for good (Justified), and because the loop knows what each of *)
(* its nodes is at (NodeTruth).                                            *)
(***************************************************************************)
EXTENDS WorkflowRun, FiniteSetTheorems, WellFoundedInduction, TLAPS

-----------------------------------------------------------------------------
(* The inductive invariant                                                 *)

\* the shape of the state, as far as an abort needs it
Shape ==
  /\ row \in Row /\ row.job_type = "workflow"
  /\ child \in [Id -> Row] /\ run \in [Id -> RunPc]
  /\ follower \in [Id -> Node \cup {NoNode}] /\ resumed \in [Id -> SUBSET Node]
  /\ loop = [pc |-> loop.pc, seen |-> loop.seen, waiting |-> loop.waiting,
             aborted |-> loop.aborted, todo |-> loop.todo]
  /\ loop.pc \in LoopPc /\ loop.aborted \in BOOLEAN

\* a workflow that may go on: a rejected one is run again by its loop
Live(r) == r.status \in {"running", "approve", "rejected"}

\* the flag a loop acted on is there as long as the workflow may go on
FlagKept == loop.aborted /\ Live(row) => row.abort_requested

\* only the loop ends its row as aborted, and it stops with that
EndsOnce == loop.pc # "off" => row.status # "aborted" /\ loop.seen # "aborted"

\* the job of a node: given up only as a job of this process
Kept(r) ==
  /\ r.host = NoNode /\ r.tracker \in {NoNode, Home, Worker}
  /\ r.status \in {"absent", "running", "abandoned"} \/ r.end
  /\ r.status = "abandoned" => r.tracker = Home

\* what holds throughout
WorkflowInv ==
  /\ Shape /\ FlagKept /\ EndsOnce
  /\ \A n \in Id : Kept(child[n])

-----------------------------------------------------------------------------
(* What the statements leave of a row                                      *)

\* A move from one status to another is to a row.
LEMMA MoveTyping ==
  ASSUME NEW r \in Row, NEW from, NEW to \in Status, NEW end \in BOOLEAN
  PROVE  /\ TransitionStatus(r, from, to, end) \in Row
         /\ TransitionStatus(r, from, to, end).job_type = r.job_type
<1> DEFINE flag == r.abort_requested /\ (\/ to \notin TERMINAL_STATUS
                                         \/ to = "rejected" /\ r.job_type = "workflow")
<1>1. flag \in BOOLEAN
  OBVIOUS
<1> HIDE DEF flag
<1>2. /\ [r EXCEPT !.status = to, !.end = end, !.abort_requested = flag] \in Row
      /\ [r EXCEPT !.status = to, !.end = end, !.abort_requested = flag].job_type = r.job_type
  BY <1>1 DEF Row
<1>3. QED
  BY <1>2 DEF TransitionStatus, flag

\* An end goes from running or abandoned to an outcome, with the end written.
LEMMA EndFacts ==
  ASSUME NEW r \in Row, NEW o \in Outcome
  PROVE  /\ EndRow(r, o) \in Row /\ EndRow(r, o).job_type = r.job_type
         /\ EndRow(r, o) = r \/ (EndRow(r, o).status = o /\ EndRow(r, o).end)
         /\ EndRow(r, o).host = r.host /\ EndRow(r, o).tracker = r.tracker
         /\ r.status \in {"running", "abandoned"} => EndRow(r, o).status = o /\ EndRow(r, o).end
<1>1. o \in Status
  BY DEF Outcome, Status, TERMINAL_STATUS
<1>2. EndRow(r, o) \in Row /\ EndRow(r, o).job_type = r.job_type
  BY <1>1, MoveTyping DEF EndRow
<1>3. CASE r.status \in ENDS_FROM
  <2> DEFINE flag == r.abort_requested /\ (\/ o \notin TERMINAL_STATUS
                                           \/ o = "rejected" /\ r.job_type = "workflow")
  <2>1. EndRow(r, o) = [r EXCEPT !.status = o, !.end = TRUE, !.abort_requested = flag]
    BY <1>3 DEF EndRow, TransitionStatus
  <2> HIDE DEF flag
  <2>2. QED
    BY <2>1, <1>2 DEF Row
<1>4. CASE r.status \notin ENDS_FROM
  BY <1>2, <1>4 DEF EndRow, TransitionStatus, ENDS_FROM
<1>5. QED
  BY <1>3, <1>4

\* A sweep abandons a row under way, and clears its flag.
Swept(r, s) == s = r \/ (UnderWay(r) /\ s = AbandonedRow(r))

\* Nothing else of the row changes.
LEMMA SweepFacts ==
  ASSUME NEW r \in Row, NEW s, Swept(r, s)
  PROVE  /\ s \in Row /\ s.job_type = r.job_type
         /\ s.host = r.host /\ s.tracker = r.tracker /\ s.end = r.end
         /\ s = r \/ s.status = "abandoned"
         /\ r.status = "absent" <=> s.status = "absent"
         /\ FollowedElsewhere(s, Home) = FollowedElsewhere(r, Home)
  BY DEF Swept, AbandonedRow, UnderWay, Row, Status, TERMINAL_STATUS, FollowedElsewhere, Exists

\* A flag is all that a request to abort writes.
LEMMA AbortFacts ==
  ASSUME NEW r \in Row
  PROVE  /\ RequestAbortRow(r) \in Row /\ RequestAbortRow(r).job_type = r.job_type
         /\ RequestAbortRow(r).host = r.host /\ RequestAbortRow(r).tracker = r.tracker
         /\ RequestAbortRow(r).end = r.end /\ RequestAbortRow(r).status = r.status
         /\ r.abort_requested => RequestAbortRow(r).abort_requested
         /\ r.status = "running" => RequestAbortRow(r).abort_requested
  BY DEF RequestAbortRow, UnderWay, Row

\* So a request to abort keeps what is known of a job.
LEMMA AbortKeeps == \A r \in Row : Kept(r) => Kept(RequestAbortRow(r))
  BY AbortFacts DEF Kept

\* Who is told, of those asked, gets the flag.
LEMMA TellTells ==
  ASSUME NEW asked \in SUBSET Id, Tell(asked)
  PROVE  \E told \in SUBSET Id :
           /\ told \subseteq asked
           /\ child' = [n \in Id |-> IF n \in told THEN RequestAbortRow(child[n]) ELSE child[n]]
           /\ hist' = [hist EXCEPT !.untold = (hist.untold \ asked) \cup (asked \ told)]
           /\ faults' = faults \/ (faults < MaxFaults /\ faults' = faults + 1)
<1>1. PICK missed \in SUBSET asked :
        /\ IF missed = {} THEN UNCHANGED faults ELSE Fault("statement")
        /\ child' = [n \in Id |-> IF n \in asked \ missed THEN RequestAbortRow(child[n]) ELSE child[n]]
        /\ hist' = [hist EXCEPT !.untold = (@ \ asked) \cup missed]
  BY DEF Tell
<1>2. missed = asked \ (asked \ missed)
  OBVIOUS
<1>3. QED
  BY <1>1, <1>2 DEF Fault

-----------------------------------------------------------------------------
(* What a step may do, and keep the invariant                              *)

\* What may become of the row next to a loop: one that may go on could before, and keeps its flag.
GoesTo(r, s) ==
  /\ s \in Row /\ s.job_type = r.job_type
  /\ Live(s) => Live(r) /\ (r.abort_requested => s.abort_requested)
  /\ s.status = "aborted" => r.status = "aborted"

\* A move between the statuses a workflow goes on from keeps its flag.
LEMMA MoveGoes ==
  ASSUME NEW r \in Row, r.job_type = "workflow", NEW end \in BOOLEAN,
         NEW from \in SUBSET {"running", "approve", "rejected"}, NEW to \in {"running", "approve", "rejected"}
  PROVE  GoesTo(r, TransitionStatus(r, from, to, end))
<1>1. to \in Status
  BY DEF Status, TERMINAL_STATUS
<1>2. TransitionStatus(r, from, to, end) \in Row /\ TransitionStatus(r, from, to, end).job_type = r.job_type
  BY <1>1, MoveTyping
<1>3. CASE r.status \in from
  <2> DEFINE flag == r.abort_requested /\ (\/ to \notin TERMINAL_STATUS
                                           \/ to = "rejected" /\ r.job_type = "workflow")
  <2>1. flag = r.abort_requested
    BY DEF TERMINAL_STATUS, Row
  <2>2. TransitionStatus(r, from, to, end) = [r EXCEPT !.status = to, !.end = end, !.abort_requested = flag]
    BY <1>3 DEF TransitionStatus
  <2> HIDE DEF flag
  <2>3. TransitionStatus(r, from, to, end).status = to
    BY <2>2 DEF Row
  <2>4. TransitionStatus(r, from, to, end).abort_requested = r.abort_requested
    BY <2>1, <2>2 DEF Row
  <2>5. QED
    BY <1>2, <1>3, <2>3, <2>4 DEF GoesTo, Live
<1>4. CASE r.status \notin from
  BY <1>2, <1>4 DEF GoesTo, TransitionStatus
<1>5. QED
  BY <1>3, <1>4

\* A row that is given up does not go on.
LEMMA SweptGoes ==
  ASSUME NEW r \in Row, NEW s, Swept(r, s)
  PROVE  GoesTo(r, s)
  BY SweepFacts DEF GoesTo, Live

\* Nor does a row that stays begin anything.
LEMMA StaysGoes == \A r \in Row : GoesTo(r, r)
  BY DEF GoesTo

\* What may become of the nodes next to the loop.
LEMMA NodesMove ==
  ASSUME WorkflowInv, GoesTo(row, row'), loop' = loop,
         child' \in [Id -> Row], run' \in [Id -> RunPc],
         follower' \in [Id -> Node \cup {NoNode}], resumed' \in [Id -> SUBSET Node],
         \A n \in Id : Kept(child'[n])
  PROVE  WorkflowInv'
<1>1. Shape'
  BY DEF WorkflowInv, Shape, GoesTo
<1>2. FlagKept' /\ EndsOnce'
  BY DEF WorkflowInv, FlagKept, EndsOnce, GoesTo
<1>3. QED
  BY <1>1, <1>2 DEF WorkflowInv

\* A step of the loop that leaves the jobs alone.
LEMMA GoesOn ==
  ASSUME WorkflowInv, GoesTo(row, row'), UNCHANGED <<child, follower, resumed>>, run' \in [Id -> RunPc],
         NEW pc \in LoopPc, NEW seen \in {loop.seen, row.status}, NEW waiting, NEW todo,
         loop' = [pc |-> pc, seen |-> seen, waiting |-> waiting, aborted |-> loop.aborted, todo |-> todo],
         loop.pc = "off" => pc = "off"
  PROVE  WorkflowInv'
<1>1. /\ loop'.pc = pc /\ loop'.seen = seen /\ loop'.waiting = waiting
      /\ loop'.aborted = loop.aborted /\ loop'.todo = todo
  OBVIOUS
<1>2. Shape'
  BY <1>1 DEF WorkflowInv, Shape, GoesTo
<1>3. FlagKept' /\ EndsOnce'
  BY <1>1 DEF WorkflowInv, FlagKept, EndsOnce, GoesTo
<1>4. QED
  BY <1>2, <1>3 DEF WorkflowInv

\* The loop stops.
LEMMA Stops ==
  ASSUME WorkflowInv, loop' = Off, row' \in Row, row'.job_type = "workflow",
         UNCHANGED <<child, run, follower, resumed>>
  PROVE  WorkflowInv'
<1>1. /\ loop'.pc = "off" /\ ~loop'.aborted /\ loop'.aborted \in BOOLEAN
      /\ loop' = [pc |-> loop'.pc, seen |-> loop'.seen, waiting |-> loop'.waiting,
                  aborted |-> loop'.aborted, todo |-> loop'.todo]
  BY DEF Off
<1>2. Shape' /\ FlagKept' /\ EndsOnce'
  BY <1>1 DEF WorkflowInv, Shape, FlagKept, EndsOnce, LoopPc
<1>3. QED
  BY <1>2 DEF WorkflowInv

-----------------------------------------------------------------------------
(* The steps of the loop                                                   *)

\* The first step finds the workflow, or ends it.
LEMMA FindKeeps == WorkflowInv /\ Find => WorkflowInv'
<1> SUFFICES ASSUME WorkflowInv, Find PROVE WorkflowInv'
  OBVIOUS
<1>0. Shape /\ GoesTo(row, row) /\ UNCHANGED <<run, child, follower, resumed>>
  BY StaysGoes DEF WorkflowInv, Shape, Find, Nodes, Jobs
<1>1. CASE Goes("read") /\ UNCHANGED row
  <2>1. loop' = [pc |-> "read", seen |-> loop.seen, waiting |-> loop.waiting,
                 aborted |-> loop.aborted, todo |-> loop.todo]
    BY <1>0, <1>1 DEF Goes, Shape
  <2>2. loop.pc = "find" /\ "read" \in LoopPc
    BY DEF Find, At, LoopPc
  <2>3. QED
    BY <1>0, <1>1, <2>1, <2>2, GoesOn DEF Shape
<1>2. CASE loop' = Off /\ row' = EndRow(row, "failed")
  <2>1. row' \in Row /\ row'.job_type = "workflow"
    BY <1>0, <1>2, EndFacts DEF Shape, Outcome
  <2>2. QED
    BY <1>0, <1>2, <2>1, Stops
<1>3. QED
  BY <1>1, <1>2 DEF Find

\* The loop reads the status, or is stopped by it.
LEMMA ReadKeeps == WorkflowInv /\ Read => WorkflowInv'
<1> SUFFICES ASSUME WorkflowInv, Read PROVE WorkflowInv'
  OBVIOUS
<1>0. Shape /\ GoesTo(row, row) /\ UNCHANGED <<row, run, child, follower, resumed>>
  BY StaysGoes DEF WorkflowInv, Shape, Read, Nodes, Jobs
<1>1. CASE loop' = [loop EXCEPT !.seen = row.status, !.pc = "flag"]
  <2>1. loop' = [pc |-> "flag", seen |-> row.status, waiting |-> loop.waiting,
                 aborted |-> loop.aborted, todo |-> loop.todo]
    BY <1>0, <1>1 DEF Shape
  <2>2. loop.pc = "read" /\ "flag" \in LoopPc
    BY DEF Read, At, LoopPc
  <2>3. QED
    BY <1>0, <2>1, <2>2, GoesOn DEF Shape
<1>2. CASE loop' = Off
  BY <1>0, <1>2, Stops DEF Shape
<1>3. QED
  BY <1>1, <1>2 DEF Read

\* The loop acts on an abort only when its row was flagged: the flag is there from here on.
LEMMA FlagKeeps == WorkflowInv /\ Flag => WorkflowInv'
<1> SUFFICES ASSUME WorkflowInv, Flag PROVE WorkflowInv'
  OBVIOUS
<1>0. Shape /\ GoesTo(row, row) /\ UNCHANGED <<row, run, child, follower, resumed>> /\ loop.pc = "flag"
  BY StaysGoes DEF WorkflowInv, Shape, Flag, Nodes, Jobs, At
<1>1. ASSUME NEW pc \in {"end", "read", "ask"}, Goes(pc) PROVE WorkflowInv'
  <2>1. loop' = [pc |-> pc, seen |-> loop.seen, waiting |-> loop.waiting,
                 aborted |-> loop.aborted, todo |-> loop.todo]
    BY <1>0, <1>1 DEF Goes, Shape
  <2>2. pc \in LoopPc
    BY DEF LoopPc
  <2>3. QED
    BY <1>0, <2>1, <2>2, GoesOn DEF Shape
<1>2. CASE ~loop.aborted /\ (loop.seen = "aborted" \/ row.abort_requested)
           /\ loop' = [loop EXCEPT !.pc = "unhold", !.aborted = TRUE]
  <2>1. loop' = [pc |-> "unhold", seen |-> loop.seen, waiting |-> loop.waiting, aborted |-> TRUE, todo |-> loop.todo]
    BY <1>0, <1>2 DEF Shape
  <2>2. /\ loop'.pc = "unhold" /\ loop'.seen = loop.seen /\ loop'.waiting = loop.waiting
        /\ loop'.aborted = TRUE /\ loop'.todo = loop.todo
    BY <2>1
  <2>3. row.abort_requested
    BY <1>0, <1>2 DEF WorkflowInv, EndsOnce
  <2>4. Shape' /\ FlagKept' /\ EndsOnce'
    BY <1>0, <2>1, <2>2, <2>3 DEF WorkflowInv, Shape, FlagKept, EndsOnce, LoopPc
  <2>5. QED
    BY <1>0, <2>4 DEF WorkflowInv
<1>3. QED
  BY <1>1, <1>2 DEF Flag, Rest

\* A workflow that runs again for its abort keeps its flag.
LEMMA UnholdKeeps == WorkflowInv /\ Unhold => WorkflowInv'
<1> SUFFICES ASSUME WorkflowInv, Unhold PROVE WorkflowInv'
  OBVIOUS
<1>0. Shape /\ GoesTo(row, row') /\ UNCHANGED <<run, child, follower, resumed>> /\ loop.pc = "unhold"
  BY MoveGoes DEF WorkflowInv, Shape, Unhold, Nodes, Jobs, At
<1>1. loop' = [pc |-> "cancel", seen |-> loop.seen, waiting |-> loop.waiting,
               aborted |-> loop.aborted, todo |-> loop.todo]
  BY <1>0 DEF Unhold, Goes, Shape
<1>2. QED
  BY <1>0, <1>1, GoesOn DEF Shape, LoopPc

\* The cancel tells jobs of the workflow.
LEMMA CancelKeeps == WorkflowInv /\ Cancel => WorkflowInv'
<1> SUFFICES ASSUME WorkflowInv, Cancel PROVE WorkflowInv'
  OBVIOUS
<1>0. Shape /\ UNCHANGED <<row, follower, resumed>> /\ loop.pc = "cancel"
  BY DEF WorkflowInv, Cancel, At
<1>1. run' = [n \in Id |-> IF n \in {m \in Id : run[m] = "asked"} THEN "off" ELSE run[n]]
  BY DEF Cancel
<1>2. PICK pc \in {"end", "read"} : loop' = [loop EXCEPT !.waiting = None, !.pc = pc]
  BY DEF Cancel
<1>3. loop' = [pc |-> pc, seen |-> loop.seen, waiting |-> None, aborted |-> loop.aborted, todo |-> loop.todo]
  BY <1>0, <1>2 DEF Shape
<1>4. /\ loop'.pc = pc /\ loop'.seen = loop.seen /\ loop'.waiting = None
      /\ loop'.aborted = loop.aborted /\ loop'.todo = loop.todo
  BY <1>3
<1>5. PICK told \in SUBSET Id : child' = [n \in Id |-> IF n \in told THEN RequestAbortRow(child[n]) ELSE child[n]]
  BY TellTells DEF Cancel
<1>6. run' \in [Id -> RunPc] /\ child' \in [Id -> Row]
  BY <1>0, <1>1, <1>5, AbortFacts DEF Shape, RunPc
<1>7. Shape' /\ FlagKept' /\ EndsOnce'
  BY <1>0, <1>3, <1>4, <1>6 DEF WorkflowInv, Shape, FlagKept, EndsOnce, LoopPc
<1>8. \A n \in Id : Kept(child'[n])
  BY <1>0, <1>5, AbortKeeps DEF WorkflowInv, Shape
<1>9. QED
  BY <1>7, <1>8 DEF WorkflowInv

\* The steps of the loop that only move it on, or the status of its row.
LEMMA MovesKeep ==
  ASSUME WorkflowInv, AskApproval \/ NoApproval \/ ReadAnswer \/ NotAnswered
  PROVE  WorkflowInv'
<1>0. Shape /\ UNCHANGED <<run, child, follower, resumed>>
  BY DEF WorkflowInv, Shape, AskApproval, NoApproval, ReadAnswer, NotAnswered, Nodes, Jobs
<1>1. GoesTo(row, row')
  BY <1>0, MoveGoes, StaysGoes DEF Shape, Row, AskApproval, NoApproval, ReadAnswer, NotAnswered
<1>2. CASE AskApproval
  <2>1. PICK waiting : loop' = [loop EXCEPT !.pc = "next", !.waiting = waiting]
    BY <1>2 DEF AskApproval
  <2>2. loop' = [pc |-> "next", seen |-> loop.seen, waiting |-> waiting, aborted |-> loop.aborted, todo |-> loop.todo]
    BY <1>0, <2>1 DEF Shape
  <2>3. loop.pc = "ask"
    BY <1>2 DEF AskApproval, At
  <2>4. QED
    BY <1>0, <1>1, <2>2, <2>3, GoesOn DEF Shape, LoopPc
<1>3. CASE NoApproval \/ NotAnswered
  <2>1. loop' = [pc |-> "next", seen |-> loop.seen, waiting |-> loop.waiting,
                 aborted |-> loop.aborted, todo |-> loop.todo]
    BY <1>0, <1>3 DEF NoApproval, NotAnswered, Goes, Shape
  <2>2. loop.pc \in {"ask", "answer"}
    BY <1>3 DEF NoApproval, NotAnswered, At
  <2>3. QED
    BY <1>0, <1>1, <2>1, <2>2, GoesOn DEF Shape, LoopPc
<1>4. CASE ReadAnswer
  <2>1. loop' = [pc |-> "answer", seen |-> row.status, waiting |-> loop.waiting,
                 aborted |-> loop.aborted, todo |-> loop.todo]
    BY <1>0, <1>4 DEF ReadAnswer, Shape
  <2>2. loop.pc = "ask"
    BY <1>4 DEF ReadAnswer, At
  <2>3. QED
    BY <1>0, <1>1, <2>1, <2>2, GoesOn DEF Shape, LoopPc
<1>5. QED
  BY <1>2, <1>3, <1>4

\* An answer to the approval waited on.
LEMMA AnswersKeep ==
  ASSUME WorkflowInv, Approved \/ Rejected \/ TimedOut
  PROVE  WorkflowInv'
<1>0. PICK status : Answers(status)
  BY DEF Approved, Rejected, TimedOut
<1>1. Shape /\ UNCHANGED <<child, follower, resumed>> /\ loop.pc = "answer"
  BY <1>0 DEF WorkflowInv, Answers, Jobs, Approved, Rejected, TimedOut, At
<1>2. GoesTo(row, row')
  BY <1>1, MoveGoes, StaysGoes DEF Shape, Approved, Rejected, TimedOut
<1>3. run' = [run EXCEPT ![loop.waiting] = "off"]
  BY <1>0 DEF Answers
<1>4. run' \in [Id -> RunPc]
  BY <1>1, <1>3 DEF Shape, RunPc
<1>5. loop' = [pc |-> "next", seen |-> loop.seen, waiting |-> None, aborted |-> loop.aborted, todo |-> loop.todo]
  BY <1>0, <1>1 DEF Answers, Shape
<1>6. QED
  BY <1>1, <1>2, <1>4, <1>5, GoesOn DEF Shape, LoopPc

\* What starts has no job yet.
LEMMA BeginsKeep ==
  ASSUME WorkflowInv, NEW todo, NEW state1, Begins(todo, state1), UNCHANGED <<row, child, follower, resumed>>,
         loop.pc \in {"next", "begin"}
  PROVE  WorkflowInv'
<1>1. Shape /\ GoesTo(row, row')
  BY StaysGoes DEF WorkflowInv, Shape
<1>2. PICK pc \in {"read", "end"} : loop' = [loop EXCEPT !.todo = {}, !.pc = pc]
  BY DEF Begins
<1>3. loop' = [pc |-> pc, seen |-> loop.seen, waiting |-> loop.waiting, aborted |-> loop.aborted, todo |-> {}]
  BY <1>1, <1>2 DEF Shape
<1>4. run' \in [Id -> RunPc]
  BY <1>1 DEF Begins, Shape, RunPc
<1>5. QED
  BY <1>1, <1>3, <1>4, GoesOn DEF Shape, LoopPc

\* The three ways in which nodes start.
LEMMA StartsKeep ==
  ASSUME WorkflowInv, NextStep \/ SlowSave \/ Begin
  PROVE  WorkflowInv'
<1>1. CASE NextStep
  <2>1. UNCHANGED <<row, child, follower, resumed>> /\ loop.pc = "next"
    BY <1>1 DEF NextStep, Jobs, At
  <2>2. PICK todo, state1 : Begins(todo, state1)
    BY <1>1 DEF NextStep
  <2>3. QED
    BY <2>1, <2>2, BeginsKeep
<1>2. CASE Begin
  <2>1. UNCHANGED <<row, child, follower, resumed>> /\ loop.pc = "begin" /\ Begins(loop.todo, state)
    BY <1>2 DEF Begin, Jobs, At
  <2>2. QED
    BY <2>1, BeginsKeep
<1>3. CASE SlowSave
  <2>1. Shape /\ UNCHANGED <<row, run, child, follower, resumed>> /\ loop.pc = "next" /\ GoesTo(row, row')
    BY <1>3, StaysGoes DEF SlowSave, Jobs, At, WorkflowInv, Shape
  <2>2. PICK todo : loop' = [loop EXCEPT !.pc = "begin", !.todo = todo]
    BY <1>3 DEF SlowSave
  <2>3. loop' = [pc |-> "begin", seen |-> loop.seen, waiting |-> loop.waiting, aborted |-> loop.aborted, todo |-> todo]
    BY <2>1, <2>2 DEF Shape
  <2>4. QED
    BY <2>1, <2>3, GoesOn DEF Shape, LoopPc
<1>4. QED
  BY <1>1, <1>2, <1>3

\* The end of the loop, as its last step or by a statement that throws.
LEMMA EndsKeep ==
  ASSUME WorkflowInv, End \/ LoopThrows
  PROVE  WorkflowInv'
<1>1. Shape /\ loop' = Off /\ UNCHANGED <<run, child, follower, resumed>>
  BY DEF WorkflowInv, End, LoopThrows, Nodes, Jobs
<1>2. row' = row \/ \E o \in Outcome : row' = EndRow(row, o)
  BY DEF End, LoopThrows, Outcome
<1>3. row' \in Row /\ row'.job_type = "workflow"
  BY <1>1, <1>2, EndFacts DEF Shape
<1>4. QED
  BY <1>1, <1>3, Stops

\* Every step of the loop.
LEMMA LoopKeeps == ASSUME WorkflowInv, LoopStep PROVE WorkflowInv'
BY FindKeeps, ReadKeeps, FlagKeeps, UnholdKeeps, CancelKeeps, MovesKeep, AnswersKeep, StartsKeep, EndsKeep
   DEF LoopStep

-----------------------------------------------------------------------------
(* The steps next to the loop                                              *)

\* One that leaves the loop and the jobs as they are.
LEMMA NextToIt ==
  ASSUME WorkflowInv, GoesTo(row, row'), UNCHANGED <<loop, child, follower>>,
         run' \in [Id -> RunPc], resumed' \in [Id -> SUBSET Node]
  PROVE  WorkflowInv'
BY NodesMove DEF WorkflowInv, Shape

\* The loop of a new workflow has acted on nothing.
LEMMA LaunchKeeps == ASSUME WorkflowAssumption, WorkflowInv, Launch PROVE WorkflowInv'
<1>1. Shape /\ UNCHANGED <<run, child, follower, resumed>>
  BY DEF WorkflowInv, Launch, Nodes, Jobs
<1>2. row' \in Row /\ row'.job_type = "workflow" /\ row'.status = "running"
  BY <1>1 DEF Shape, Launch, CreateRow, Row, Status, WorkflowAssumption
<1>3. loop' = [pc |-> "find", seen |-> "running", waiting |-> None, aborted |-> FALSE, todo |-> {}]
  BY DEF Launch, Off
<1>4. /\ loop'.pc = "find" /\ loop'.seen = "running" /\ loop'.waiting = None
      /\ loop'.aborted = FALSE /\ loop'.todo = {}
  BY <1>3
<1>5. Shape' /\ FlagKept' /\ EndsOnce'
  BY <1>1, <1>2, <1>3, <1>4 DEF Shape, FlagKept, EndsOnce, LoopPc
<1>6. QED
  BY <1>1, <1>5 DEF WorkflowInv

\* A request to abort the workflow, or an answer to it.
LEMMA AnswerKeeps == ASSUME WorkflowInv, Approve \/ Reject \/ Abort PROVE WorkflowInv'
<1>1. Shape /\ UNCHANGED <<run, child, follower, resumed, loop>>
  BY DEF WorkflowInv, Approve, Reject, Abort, Nodes, Jobs
<1>2. GoesTo(row, row')
  <2>1. CASE Approve \/ Reject
    BY <1>1, <2>1, MoveGoes DEF Approve, Reject, RejectRow, Shape
  <2>2. CASE Abort
    <3>1. row' = RequestAbortRow(row)
      BY <2>2 DEF Abort
    <3>2. QED
      BY <1>1, <3>1, AbortFacts DEF GoesTo, Live, Shape
  <2>3. QED
    BY <2>1, <2>2
<1>3. QED
  BY <1>1, <1>2, NextToIt DEF Shape

\* A request to abort jobs of the workflow.
LEMMA RequestsKeep ==
  ASSUME WorkflowInv, AbortJobs \/ \E m \in Id : AbortNode(m)
  PROVE  WorkflowInv'
<1>1. Shape /\ UNCHANGED <<run, follower, resumed, loop, row>> /\ GoesTo(row, row')
  BY StaysGoes DEF WorkflowInv, Shape, AbortJobs, AbortNode, Nodes
<1>2. CASE AbortJobs
  <2>1. PICK told \in SUBSET Id : child' = [n \in Id |-> IF n \in told THEN RequestAbortRow(child[n]) ELSE child[n]]
    BY <1>2, TellTells DEF AbortJobs
  <2>2. child' \in [Id -> Row] /\ \A n \in Id : Kept(child'[n])
    BY <1>1, <2>1, AbortFacts, AbortKeeps DEF WorkflowInv, Shape
  <2>3. QED
    BY <1>1, <2>2, NodesMove DEF Shape
<1>3. ASSUME NEW m \in Id, AbortNode(m) PROVE WorkflowInv'
  <2>1. child' = [child EXCEPT ![m] = RequestAbortRow(child[m])]
    BY <1>1, <1>3 DEF Shape, AbortNode
  <2>2. child' \in [Id -> Row] /\ \A n \in Id : Kept(child'[n])
    BY <1>1, <2>1, AbortFacts, AbortKeeps DEF WorkflowInv, Shape
  <2>3. QED
    BY <1>1, <2>2, NodesMove DEF Shape
<1>4. QED
  BY <1>2, <1>3

\* What a step does to the job of one node.
LEMMA OneJob ==
  ASSUME WorkflowInv, UNCHANGED <<row, loop>>, NEW n \in Id, NEW r \in Row, Kept(r), child' = [child EXCEPT ![n] = r],
         follower' \in [Id -> Node \cup {NoNode}], run' \in [Id -> RunPc], resumed' \in [Id -> SUBSET Node]
  PROVE  WorkflowInv'
<1>1. Shape /\ GoesTo(row, row')
  BY StaysGoes DEF WorkflowInv, Shape
<1>2. child' \in [Id -> Row] /\ \A m \in Id : Kept(child'[m])
  BY <1>1 DEF WorkflowInv, Shape
<1>3. QED
  BY <1>1, <1>2, NodesMove

\* A node launches its job.
LEMMA LaunchNodeKeeps ==
  ASSUME WorkflowAssumption, NoNodeAssumption, WorkflowInv, NEW n \in Id, LaunchNode(n)
  PROVE  WorkflowInv'
<1>1. Shape /\ UNCHANGED <<row, loop, resumed>> /\ child[n] \in Row /\ Kept(child[n])
  BY DEF WorkflowInv, Shape, LaunchNode
<1> DEFINE r == StoreIdRow(CreateRow(child[n], Home))
<1>2. /\ r \in Row /\ r.status = "running" /\ r.host = child[n].host /\ r.tracker = Home
  BY <1>1 DEF StoreIdRow, CreateRow, Row, Status, WorkflowAssumption
<1>3. child' = [child EXCEPT ![n] = r]
  BY <1>1 DEF LaunchNode, Shape
<1>4. follower' \in [Id -> Node \cup {NoNode}] /\ run' \in [Id -> RunPc]
  BY <1>1 DEF LaunchNode, Shape, WorkflowAssumption, RunPc
<1> HIDE DEF r
<1>5. Kept(r)
  BY <1>1, <1>2 DEF Kept
<1>6. QED
  BY <1>1, <1>2, <1>3, <1>4, <1>5, OneJob DEF Shape

\* ... and looks for the flag.
LEMMA PassAbortKeeps ==
  ASSUME WorkflowInv, NEW n \in Id, PassAbort(n)
  PROVE  WorkflowInv'
<1>1. /\ Shape /\ UNCHANGED <<row, loop, follower, resumed>> /\ child[n] \in Row /\ Kept(child[n])
      /\ run' = [run EXCEPT ![n] = "wait"] /\ "wait" \in RunPc
  BY DEF WorkflowInv, Shape, PassAbort, RunPc
<1>2. PICK r \in {child[n], RequestAbortRow(child[n])} : child' = [child EXCEPT ![n] = r]
  BY <1>1 DEF PassAbort, Shape
<1>3. r \in Row /\ Kept(r)
  BY <1>1, <1>2, AbortFacts, AbortKeeps
<1>4. QED
  BY <1>1, <1>2, <1>3, OneJob DEF Shape

\* Every step of a node's run.
LEMMA NodeStepKeeps ==
  ASSUME WorkflowAssumption, NoNodeAssumption, WorkflowInv, NEW n \in Id, NodeStep(n)
  PROVE  WorkflowInv'
<1>1. CASE SkipNode(n) \/ Refused(n) \/ Pull(n) \/ NodeEnds(n) \/ NodeLeaves(n)
  <2>1. Shape /\ UNCHANGED <<row, loop, child, follower, resumed>> /\ GoesTo(row, row')
    BY <1>1, StaysGoes DEF WorkflowInv, Shape, SkipNode, Refused, Pull, NodeEnds, NodeLeaves, Finishes, Jobs
  <2>2. PICK pc \in {"done", "off"} : run' = [run EXCEPT ![n] = pc]
    BY <1>1 DEF SkipNode, Refused, Pull, NodeEnds, NodeLeaves, Finishes
  <2>3. run' \in [Id -> RunPc]
    BY <2>1, <2>2 DEF Shape, RunPc
  <2>4. QED
    BY <2>1, <2>3, NextToIt DEF Shape
<1>2. QED
  BY <1>1, LaunchNodeKeeps, PassAbortKeeps DEF NodeStep

\* ... and one whose statement throws.
LEMMA NodeThrowsKeeps ==
  ASSUME WorkflowInv, NEW n \in Id, NodeThrows(n)
  PROVE  WorkflowInv'
<1>1. Shape /\ UNCHANGED <<row, loop, child, follower, resumed>> /\ GoesTo(row, row')
  BY StaysGoes DEF WorkflowInv, Shape, NodeThrows, Jobs
<1>2. run' \in [Id -> RunPc]
  BY <1>1 DEF NodeThrows, Shape, RunPc
<1>3. QED
  BY <1>1, <1>2, NextToIt DEF Shape

-----------------------------------------------------------------------------
(* The jobs of the nodes, and the sweeps                                   *)

\* A job that ends is written so.
LEMMA ChildEndsKeeps ==
  ASSUME WorkflowInv, NEW n \in Id, ChildEnds(n)
  PROVE  WorkflowInv'
<1>1. /\ Shape /\ UNCHANGED <<row, loop, run, resumed>> /\ child[n] \in Row /\ Kept(child[n])
      /\ follower' \in [Id -> Node \cup {NoNode}]
  BY DEF WorkflowInv, Shape, ChildEnds, Nodes
<1>2. PICK o \in Outcome : child' = [child EXCEPT ![n] = EndRow(child[n], o)]
  BY DEF ChildEnds, Outcome
<1> DEFINE r == EndRow(child[n], o)
<1>3. /\ r \in Row /\ r.host = child[n].host /\ r.tracker = child[n].tracker
      /\ r = child[n] \/ (r.status = o /\ r.end)
  BY <1>1, EndFacts
<1>4. child' = [child EXCEPT ![n] = r]
  BY <1>2
<1> HIDE DEF r
<1>5. Kept(r)
  BY <1>1, <1>3 DEF Kept, Outcome
<1>6. QED
  BY <1>1, <1>3, <1>4, <1>5, OneJob DEF Shape

\* Or it is not.
LEMMA EndLostKeeps ==
  ASSUME WorkflowInv, NEW n \in Id, EndLost(n)
  PROVE  WorkflowInv'
<1>1. /\ Shape /\ UNCHANGED <<row, loop, run, resumed, child>> /\ GoesTo(row, row')
      /\ follower' \in [Id -> Node \cup {NoNode}]
  BY StaysGoes DEF WorkflowInv, Shape, EndLost, Nodes
<1>2. QED
  BY <1>1, NodesMove DEF WorkflowInv, Shape

\* Another process follows a job, or this one again.
LEMMA TakeOverKeeps ==
  ASSUME WorkflowAssumption, NoNodeAssumption, WorkflowInv,
         NEW n \in Id, NEW m \in {Home, Worker}, TakeOver(n, m)
  PROVE  WorkflowInv'
<1>1. /\ Shape /\ UNCHANGED <<row, loop, run>> /\ child[n] \in Row /\ m \in Node
      /\ Kept(child[n]) /\ Resumable(child[n], FALSE)
      /\ follower' \in [Id -> Node \cup {NoNode}] /\ resumed' \in [Id -> SUBSET Node]
  BY DEF WorkflowInv, Shape, TakeOver, Nodes, WorkflowAssumption
<1> DEFINE r == ClaimRow(child[n], child[n].tracker, m)
<1>2. child' = [child EXCEPT ![n] = r]
  BY <1>1 DEF TakeOver, Shape
<1>3. r \in Row /\ r.host = child[n].host /\ r.tracker = m /\ r.status = "running"
  BY <1>1 DEF ClaimRow, Claimable, Resumable, Row, Status
<1> HIDE DEF r
<1>4. Kept(r)
  BY <1>1, <1>3 DEF Kept
<1>5. QED
  BY <1>1, <1>2, <1>3, <1>4, OneJob DEF Shape

\* Who followed one again ends the workflow, which then goes on no more.
LEMMA EndParentKeeps ==
  ASSUME WorkflowInv, NEW n \in Id, NEW m \in Node, EndParent(n, m)
  PROVE  WorkflowInv'
<1>1. /\ Shape /\ UNCHANGED <<loop, run, child, follower>> /\ resumed' \in [Id -> SUBSET Node]
      /\ row' = EndRow(row, "failed")
  BY DEF WorkflowInv, Shape, EndParent, Nodes
<1>2. /\ row' \in Row /\ row'.job_type = row.job_type
      /\ row' = row \/ row'.status = "failed"
  BY <1>1, EndFacts DEF Shape, Outcome
<1>3. GoesTo(row, row')
  BY <1>2 DEF GoesTo, Live
<1>4. QED
  BY <1>1, <1>3, NextToIt DEF Shape

\* A sweep gives up the rows of this process, of its own or because it is taken for dead.
LEMMA SweepsKeep ==
  ASSUME WorkflowAssumption, NoNodeAssumption, WorkflowInv, Restart \/ SweepDead
  PROVE  WorkflowInv'
<1>1. Shape /\ UNCHANGED <<loop, run, follower, resumed>>
  BY DEF WorkflowInv, Restart, SweepDead, Nodes
<1>2. ASSUME NEW r \in Row,
             NEW s \in {AbandonOwnRow(r, Home, FALSE), AbandonDeadRow(r, Worker, Recent, {})}
      PROVE  /\ Swept(r, s)
             /\ r.host = NoNode /\ r.tracker \in {NoNode, Home, Worker} /\ s # r => r.tracker = Home
  BY DEF AbandonOwnRow, AbandonDeadRow, Swept, Owner, Recent, WorkflowAssumption, NoNodeAssumption
<1>3. GoesTo(row, row')
  BY <1>1, <1>2, SweptGoes DEF Restart, SweepDead, Shape
<1>4. ASSUME NEW n \in Id
      PROVE  child'[n] \in {AbandonOwnRow(child[n], Home, FALSE), AbandonDeadRow(child[n], Worker, Recent, {})}
  BY DEF Restart, SweepDead
<1>5. ASSUME NEW n \in Id PROVE child'[n] \in Row /\ Kept(child'[n])
  <2>1. child[n] \in Row /\ Kept(child[n])
    BY <1>1 DEF WorkflowInv, Shape
  <2>2. Swept(child[n], child'[n]) /\ (child'[n] # child[n] => child[n].tracker = Home)
    BY <1>2, <1>4, <2>1 DEF Kept
  <2>3. /\ child'[n] \in Row /\ child'[n].host = child[n].host
        /\ child'[n].tracker = child[n].tracker /\ child'[n].end = child[n].end
        /\ child'[n] = child[n] \/ child'[n].status = "abandoned"
    BY <2>1, <2>2, SweepFacts
  <2>4. QED
    BY <2>1, <2>2, <2>3 DEF Kept
<1>6. child' \in [Id -> Row]
  <2>1. child' = [n \in Id |-> child'[n]]
    BY DEF Restart, SweepDead
  <2>2. QED
    BY <1>5, <2>1
<1>7. QED
  BY <1>1, <1>3, <1>5, <1>6, NodesMove DEF Shape

\* A crash leaves no loop and no run of a node.
LEMMA CrashKeeps == ASSUME WorkflowInv, Crash PROVE WorkflowInv'
<1>1. /\ Shape /\ UNCHANGED <<row, child>> /\ loop' = Off
      /\ run' = [n \in Id |-> "off"]
      /\ follower' = [n \in Id |-> IF follower[n] = Home THEN NoNode ELSE follower[n]]
      /\ resumed' = [n \in Id |-> resumed[n] \ {Home}]
  BY DEF WorkflowInv, Crash
<1>2. /\ loop'.pc = "off" /\ ~loop'.aborted /\ loop'.aborted \in BOOLEAN
      /\ loop' = [pc |-> loop'.pc, seen |-> loop'.seen, waiting |-> loop'.waiting,
                  aborted |-> loop'.aborted, todo |-> loop'.todo]
  BY <1>1 DEF Off
<1>3. run' \in [Id -> RunPc] /\ follower' \in [Id -> Node \cup {NoNode}] /\ resumed' \in [Id -> SUBSET Node]
  BY <1>1 DEF Shape, RunPc
<1>4. Shape' /\ FlagKept' /\ EndsOnce'
  BY <1>1, <1>2, <1>3 DEF Shape, FlagKept, EndsOnce, LoopPc
<1>5. QED
  BY <1>1, <1>4 DEF WorkflowInv

\* Every step of the processes.
LEMMA ProcessKeeps ==
  ASSUME WorkflowAssumption, NoNodeAssumption, WorkflowInv, Process
  PROVE  WorkflowInv'
<1>1. CASE Lapse \/ Heartbeat
  <2>1. Shape /\ UNCHANGED <<row, loop, run, child, follower, resumed>> /\ GoesTo(row, row')
    BY <1>1, StaysGoes DEF WorkflowInv, Shape, Lapse, Heartbeat, Nodes, Jobs
  <2>2. QED
    BY <2>1, NextToIt DEF Shape
<1>2. CASE SweepQuiet
  <2>1. Shape /\ UNCHANGED <<loop, run, child, follower, resumed>>
    BY <1>2 DEF WorkflowInv, SweepQuiet, Nodes, Jobs
  <2>2. Swept(row, row')
    BY <1>2 DEF SweepQuiet, AbandonQuietRow, Swept, UnderWay
  <2>3. QED
    BY <2>1, <2>2, SweptGoes, NextToIt DEF Shape
<1>3. QED
  BY <1>1, <1>2, CrashKeeps, SweepsKeep, EndsKeep, StartsKeep DEF Process

-----------------------------------------------------------------------------
(* Every step                                                              *)

\* Nothing was launched yet.
LEMMA WorkflowInit == ASSUME WorkflowAssumption, NoNodeAssumption, Init PROVE WorkflowInv
<1>1. \A type \in JobType : /\ AbsentRow(type) \in Row /\ AbsentRow(type).job_type = type
                            /\ AbsentRow(type).status = "absent" /\ AbsentRow(type).host = NoNode
                            /\ AbsentRow(type).tracker = NoNode
  BY DEF AbsentRow, Row, Status
<1>2. "workflow" \in JobType /\ "awx" \in JobType
  BY DEF JobType
<1>3. loop = [pc |-> "off", seen |-> "running", waiting |-> None, aborted |-> FALSE, todo |-> {}]
  BY DEF Init, Off
<1>4. /\ loop.pc = "off" /\ loop.seen = "running" /\ loop.waiting = None
      /\ loop.aborted = FALSE /\ loop.todo = {}
  BY <1>3
<1>5. Shape
  BY <1>1, <1>2, <1>3, <1>4 DEF Init, Shape, RunPc, LoopPc
<1>6. FlagKept /\ EndsOnce
  BY <1>4 DEF FlagKept, EndsOnce
<1>7. \A n \in Id : Kept(child[n])
  BY <1>1, <1>2 DEF Init, Kept
<1>8. QED
  BY <1>5, <1>6, <1>7 DEF WorkflowInv

\* Every step.
LEMMA WorkflowStep ==
  ASSUME WorkflowAssumption, NoNodeAssumption, WorkflowInv, [Next]_vars
  PROVE  WorkflowInv'
<1>1. CASE UNCHANGED vars
  BY <1>1 DEF vars, WorkflowInv, Shape, FlagKept, EndsOnce
<1>2. CASE LoopStep
  BY <1>2, LoopKeeps
<1>3. CASE Request
  BY <1>3, LaunchKeeps, AnswerKeeps, RequestsKeep DEF Request
<1>4. CASE Process
  BY <1>4, ProcessKeeps
<1>5. ASSUME NEW n \in Id,
             \/ NodeStep(n) \/ NodeThrows(n) \/ ChildEnds(n) \/ EndLost(n)
             \/ TakeOver(n, Worker) \/ (up /\ TakeOver(n, Home)) \/ \E m \in Node : EndParent(n, m)
      PROVE  WorkflowInv'
  BY <1>5, NodeStepKeeps, NodeThrowsKeeps, ChildEndsKeeps, EndLostKeeps, TakeOverKeeps, EndParentKeeps
<1>6. QED
  BY <1>1, <1>2, <1>3, <1>4, <1>5 DEF Next

-----------------------------------------------------------------------------
(* The order of the nodes that are asked                                   *)

\* A set of nodes has a last one.
LEMMA Greatest ==
  ASSUME WorkflowAssumption, NEW T, T \subseteq Id, T # {}
  PROVE  \E s \in T : \A t \in T : t <= s
<1> DEFINE Above(s) == {t \in T : t > s}
           Aboves == {Above(s) : s \in T}
<1>0. T \subseteq Nat /\ IsFiniteSet(Id)
  BY DEF WorkflowAssumption
<1>1. Aboves \subseteq FiniteSubsetsOf(Id)
  BY <1>0, FS_FiniteSubsetsOfFinite, ZenonT(30)
<1>2. Aboves # {}
  OBVIOUS
<1>3. PICK A \in Aboves : \A B \in Aboves : <<B, A>> \notin StrictSubsetOrdering(Id)
  <2> HIDE DEF Aboves
  <2> QED
    BY <1>1, <1>2, FS_StrictSubsetOrderingWellFounded, WFMin
<1>4. PICK s \in T : A = Above(s)
  BY <1>3
<1>5. ASSUME NEW t \in T, t > s PROVE FALSE
  <2>1. \A x \in T : x > t => x > s
    BY <1>0, <1>5
  <2>2. ~(t > t)
    BY <1>0
  <2>3. Above(t) \subseteq Above(s) /\ t \in Above(s) /\ t \notin Above(t)
    BY <1>5, <2>1, <2>2
  <2>4. Above(t) \in SUBSET Id /\ Above(s) \in SUBSET Id
    OBVIOUS
  <2>5. Above(t) \in Aboves
    OBVIOUS
  <2> HIDE DEF Above, Aboves
  <2>6. <<Above(t), Above(s)>> \in StrictSubsetOrdering(Id)
    BY <2>3, <2>4 DEF StrictSubsetOrdering
  <2>7. QED
    BY <1>3, <1>4, <2>5, <2>6
<1>6. QED
  BY <1>0, <1>5

\* Of a set of nodes, each place in its order is that of one of them.
LEMMA Placed ==
  ASSUME WorkflowAssumption, NEW s \in SUBSET Id, NEW i \in 1..Cardinality(s)
  PROVE  \E n \in s : Cardinality({m \in s : m < n}) = i - 1
<1> DEFINE Below(n) == {m \in s : m < n}
           Late == {n \in s : Cardinality(Below(n)) >= i - 1}
<1>0. s \subseteq Nat /\ IsFiniteSet(s) /\ Cardinality(s) \in Nat
  BY FS_Subset, FS_CardinalityType DEF WorkflowAssumption
<1>1. /\ s \subseteq Nat /\ IsFiniteSet(s) /\ Cardinality(s) \in Nat /\ i \in Nat /\ i >= 1
      /\ i <= Cardinality(s)
  BY <1>0
<1>2. \A n \in s : IsFiniteSet(Below(n)) /\ Cardinality(Below(n)) \in Nat
  BY <1>1, FS_Subset, FS_CardinalityType
<1>3. ASSUME NEW B \in SUBSET s, NEW p \in B, \A t \in B : t <= p,
             \A t \in s : t < p => t \in B
      PROVE  Cardinality(B) = Cardinality(Below(p)) + 1
  <2>0. B \subseteq Nat /\ p \in s
    BY <1>1, <1>3
  <2>1. B = Below(p) \cup {p}
    <3>1. \A t \in B : t \in Below(p) \/ t = p
      BY <1>3, <2>0
    <3>2. QED
      BY <1>3, <3>1
  <2>2. p \notin Below(p)
    BY <2>0
  <2>3. IsFiniteSet(Below(p))
    BY <1>2, <2>0
  <2> HIDE DEF Below
  <2>4. QED
    BY <2>1, <2>2, <2>3, FS_AddElement
<1>4. Late # {}
  <2>1. s # {}
    BY <1>1, FS_EmptySet
  <2>2. PICK p \in s : \A t \in s : t <= p
    BY <2>1, Greatest
  <2>3. Cardinality(s) = Cardinality(Below(p)) + 1
    BY <1>3, <2>2
  <2>4. QED
    BY <1>1, <1>2, <2>2, <2>3
<1>5. PICK n \in Late : \A m \in Late : ~(m < n)
  <2>1. Late \subseteq Nat
    BY <1>1
  <2> DEFINE R == {p \in Nat \X Nat : p[1] < p[2]}
  <2>2. IsWellFoundedOn(R, Nat)
    BY NatLessThanWellFounded DEF OpToRel
  <2>3. PICK n \in Late : \A m \in Late : <<m, n>> \notin R
    <3> HIDE DEF Late, R
    <3> QED
      BY <1>4, <2>1, <2>2, WFMin
  <2>4. \A m \in Late : ~(m < n)
    BY <2>1, <2>3
  <2>5. QED
    BY <2>4
<1>6. ASSUME Cardinality(Below(n)) # i - 1 PROVE FALSE
  <2>1. Cardinality(Below(n)) >= 1 /\ Below(n) # {}
    BY <1>1, <1>2, <1>6, FS_EmptySet
  <2>2. PICK p \in Below(n) : \A t \in Below(n) : t <= p
    BY <2>1, Greatest
  <2>3. p \in s /\ p < n /\ \A t \in s : t < p => t \in Below(n)
    BY <1>1, <2>2
  <2>4. Cardinality(Below(n)) = Cardinality(Below(p)) + 1
    BY <1>3, <2>2, <2>3
  <2>5. Cardinality(Below(p)) >= i - 1
    <3> HIDE DEF Below
    <3> QED
      BY <1>1, <1>2, <1>5, <1>6, <2>3, <2>4
  <2>6. QED
    BY <1>5, <2>3, <2>5
<1>7. QED
  BY <1>5, <1>6

\* What is asked is asked in turn, each node once.
LEMMA InOrderFacts ==
  ASSUME WorkflowAssumption, NEW s \in SUBSET Id
  PROVE  /\ InOrder(s) \in Seq(Id) /\ Len(InOrder(s)) \in Nat
         /\ \A i \in 1..Len(InOrder(s)) : InOrder(s)[i] \in s
         /\ \A i, j \in 1..Len(InOrder(s)) : InOrder(s)[i] = InOrder(s)[j] => i = j
<1>1. Cardinality(s) \in Nat /\ s \subseteq Nat
  BY FS_Subset, FS_CardinalityType DEF WorkflowAssumption
<1>2. ASSUME NEW i \in 1..Cardinality(s)
      PROVE  InOrder(s)[i] \in s /\ Cardinality({m \in s : m < InOrder(s)[i]}) = i - 1
  <2>1. \E n \in s : Cardinality({m \in s : m < n}) = i - 1
    BY Placed
  <2>2. InOrder(s)[i] = CHOOSE n \in s : Cardinality({m \in s : m < n}) = i - 1
    BY DEF InOrder
  <2>3. QED
    BY <2>1, <2>2
<1>3. InOrder(s) \in [1..Cardinality(s) -> Id]
  <2>1. InOrder(s) = [i \in 1..Cardinality(s) |-> InOrder(s)[i]]
    BY DEF InOrder
  <2>2. QED
    BY <1>2, <2>1
<1>4. InOrder(s) \in Seq(Id) /\ Len(InOrder(s)) = Cardinality(s)
  BY <1>1, <1>3
<1>5. ASSUME NEW i \in 1..Cardinality(s), NEW j \in 1..Cardinality(s), InOrder(s)[i] = InOrder(s)[j]
      PROVE  i = j
  <2>1. i - 1 = j - 1
    BY <1>2, <1>5
  <2>2. QED
    BY <1>1, <2>1
<1>6. QED
  BY <1>1, <1>2, <1>4, <1>5

-----------------------------------------------------------------------------
(* The rules of the graph                                                  *)

\* A state is its two fields.
LEMMA StateFields == \A s, t \in State : s.status = t.status /\ s.doNotRun = t.doNotRun => s = t
  BY DEF State

\* A node whose state is settled: it ended, or never will start.
Settles(s) == s.doNotRun = TRUE \/ s.status \in FINISHED

\* A skipped node has links, and they fail: all of them, or one when they must converge.
Justified(g, st, n) ==
  st[n].doNotRun = TRUE =>
    /\ ParentsOf(g, n) # {}
    /\ n \in g.converge => \E l \in ParentsOf(g, n) : Fails(l[2], st[l[1]])
    /\ n \notin g.converge => \A l \in ParentsOf(g, n) : Fails(l[2], st[l[1]])

\* A link is out of a node.
LEMMA LinkFacts ==
  ASSUME NEW g, NEW n, NEW l \in ParentsOf(g, n)
  PROVE  l[1] \in Id /\ l[2] \in LINK_KINDS
  BY DEF ParentsOf

\* What failed, fails.
LEMMA FailsStays ==
  ASSUME NEW s \in State, NEW t, NEW kind, Fails(kind, s), t = s \/ ~Settles(s)
  PROVE  Fails(kind, t)
  BY DEF Fails, Settles, State

\* A node stays justified when settled nodes stay as they are.
LEMMA JustifiedStays ==
  ASSUME NEW g, NEW st \in [Id -> State], NEW tt, NEW n \in Id,
         \A m \in Id : tt[m] = st[m] \/ ~Settles(st[m]),
         tt[n].doNotRun = TRUE => st[n].doNotRun = TRUE, Justified(g, st, n)
  PROVE  Justified(g, tt, n)
<1>1. \A l \in ParentsOf(g, n) : Fails(l[2], st[l[1]]) => Fails(l[2], tt[l[1]])
  BY LinkFacts, FailsStays
<1>2. QED
  BY <1>1 DEF Justified

\* The nodes that never run are skipped on account of each other.
LEMMA NeverRunFacts ==
  ASSUME NEW g, NEW st \in [Id -> State]
  PROVE  NeverRun(g, st) \in SUBSET Id /\ NeverRun(g, st) \subseteq Skips(g, st, NeverRun(g, st))
<1> DEFINE N == NeverRun(g, st)
<1>1. \A S \in SUBSET Id, T \in SUBSET Id : S \subseteq T => Skips(g, st, S) \subseteq Skips(g, st, T)
  BY DEF Skips
<1>2. \A S \in SUBSET Id : Skips(g, st, S) \in SUBSET Id
  BY DEF Skips
<1>3. N \in SUBSET Id /\ \A S \in SUBSET Id : Skips(g, st, S) \subseteq S => N \subseteq S
  BY DEF NeverRun
<1>4. \A n \in Id : (\A S \in SUBSET Id : Skips(g, st, S) \subseteq S => n \in S) => n \in N
  BY DEF NeverRun
<1> HIDE DEF N
<1>5. ASSUME NEW n \in Skips(g, st, N) PROVE n \in N
  <2>1. ASSUME NEW S \in SUBSET Id, Skips(g, st, S) \subseteq S PROVE n \in S
    BY <1>1, <1>3, <1>5, <2>1
  <2>2. n \in Id
    BY <1>2, <1>3, <1>5
  <2>3. QED
    BY <1>4, <2>1, <2>2
<1>6. Skips(g, st, Skips(g, st, N)) \subseteq Skips(g, st, N)
  BY <1>1, <1>2, <1>3, <1>5
<1>7. N \subseteq Skips(g, st, N)
  BY <1>2, <1>3, <1>6
<1>8. QED
  BY <1>3, <1>7 DEF N

\* They are states.
LEMMA AfterSkipsType ==
  ASSUME NEW g, NEW st \in [Id -> State]
  PROVE  AfterSkips(g, st) \in [Id -> State]
<1>1. \A s \in State, b \in BOOLEAN : [s EXCEPT !.doNotRun = b] \in State
  BY DEF State
<1>2. ASSUME NEW n \in Id PROVE [st[n] EXCEPT !.doNotRun = n \in NeverRun(g, st)] \in State
  <2> DEFINE b == n \in NeverRun(g, st)
  <2>1. b \in BOOLEAN
    OBVIOUS
  <2> HIDE DEF b
  <2>2. [st[n] EXCEPT !.doNotRun = b] \in State
    BY <1>1, <2>1
  <2>3. QED
    BY <2>2 DEF b
<1>3. QED
  BY <1>2 DEF AfterSkips

\* After the skips: the states are those before but that nodes which waited never will run, for
\* links that fail.
LEMMA AfterSkipsFacts ==
  ASSUME NEW g, NEW st \in [Id -> State]
  PROVE  LET tt == AfterSkips(g, st) IN
         /\ tt \in [Id -> State]
         /\ \A n \in Id : /\ tt[n].status = st[n].status
                          /\ tt[n] = st[n] \/ (~Settles(st[n]) /\ st[n].status = "pending")
                          /\ Justified(g, st, n) => Justified(g, tt, n)
<1> DEFINE never == NeverRun(g, st)
           tt == AfterSkips(g, st)
<1>1. never \subseteq Skips(g, st, never) /\ never \in SUBSET Id
  BY NeverRunFacts
<1>2. Skips(g, st, never) \subseteq never
  BY DEF NeverRun, Skips
<1>3. \A n \in Id : tt[n] = [st[n] EXCEPT !.doNotRun = n \in never]
  BY DEF AfterSkips
<1>4. DOMAIN tt = Id /\ tt = [n \in Id |-> tt[n]]
  BY DEF AfterSkips
<1> HIDE DEF tt
<1>5. ASSUME NEW n \in Id
      PROVE  /\ tt[n] \in State /\ tt[n].status = st[n].status
             /\ tt[n].doNotRun = TRUE <=> n \in never
  <2>1. (n \in never) \in BOOLEAN
    OBVIOUS
  <2> DEFINE b == n \in never
  <2>2. tt[n] = [st[n] EXCEPT !.doNotRun = b] /\ b \in BOOLEAN
    BY <1>3
  <2>3. b <=> n \in never
    OBVIOUS
  <2> HIDE DEF b
  <2>4. tt[n] \in State /\ tt[n].status = st[n].status /\ tt[n].doNotRun = b
    BY <2>2 DEF State
  <2>5. QED
    BY <2>2, <2>3, <2>4
<1>6. ASSUME NEW n \in Id
      PROVE  tt[n] = st[n] \/ (~Settles(st[n]) /\ st[n].status = "pending")
  <2>1. st[n] \in State
    OBVIOUS
  <2>2. CASE st[n].doNotRun = TRUE
    <3>1. n \in Skips(g, st, never)
      BY <2>2 DEF Skips
    <3>2. tt[n].doNotRun = TRUE
      BY <1>2, <1>5, <3>1
    <3>3. QED
      BY <1>5, <2>1, <2>2, <3>2, StateFields
  <2>3. CASE st[n].doNotRun = FALSE /\ n \in never
    <3>1. Undecided(st[n])
      BY <1>1, <2>3 DEF Skips
    <3>2. QED
      BY <2>3, <3>1 DEF Undecided, Settles, FINISHED
  <2>4. CASE st[n].doNotRun = FALSE /\ n \notin never
    <3>1. tt[n].doNotRun = FALSE
      BY <1>5, <2>4 DEF State
    <3>2. QED
      BY <1>5, <2>1, <2>4, <3>1, StateFields
  <2>5. QED
    BY <2>1, <2>2, <2>3, <2>4 DEF State
<1>7. ASSUME NEW n \in Id, NEW l \in ParentsOf(g, n), l[1] \in never \/ Fails(l[2], st[l[1]])
      PROVE  Fails(l[2], tt[l[1]])
  <2>1. l[1] \in Id
    BY LinkFacts
  <2>2. CASE l[1] \in never
    BY <1>5, <2>1, <2>2 DEF Fails
  <2>3. CASE Fails(l[2], st[l[1]])
    BY <1>6, <2>1, <2>3, FailsStays
  <2>4. QED
    BY <1>7, <2>2, <2>3
<1>8. ASSUME NEW n \in Id, Justified(g, st, n) PROVE Justified(g, tt, n)
  <2>1. CASE tt[n].doNotRun = TRUE /\ st[n].doNotRun = TRUE
    BY <1>6, <1>8, <2>1, JustifiedStays
  <2>2. CASE tt[n].doNotRun = TRUE /\ st[n].doNotRun # TRUE
    <3>1. n \in Skips(g, st, never)
      BY <1>1, <1>5, <2>2
    <3>2. st[n].doNotRun = FALSE
      BY <2>2 DEF State
    <3>3. /\ ParentsOf(g, n) # {}
          /\ IF n \in g.converge THEN \E l \in ParentsOf(g, n) : l[1] \in never \/ Fails(l[2], st[l[1]])
             ELSE \A l \in ParentsOf(g, n) : l[1] \in never \/ Fails(l[2], st[l[1]])
      BY <3>1, <3>2 DEF Skips
    <3>4. QED
      BY <1>7, <3>3 DEF Justified
  <2>3. QED
    BY <2>1, <2>2 DEF Justified
<1>9. tt \in [Id -> State]
  BY <1>4, <1>5
<1>10. QED
  BY <1>5, <1>6, <1>8, <1>9 DEF tt

\* Nothing starts and nothing runs: then nothing would have run.
LEMMA NothingLeft ==
  ASSUME NEW g, NEW st \in [Id -> State], Starts(g, st) = {},
         \A n \in Id : /\ st[n].status # "running" /\ Justified(g, st, n)
                       /\ st[n].doNotRun = TRUE => st[n].status = "pending"
  PROVE  MayRun(g, st) = {}
<1>1. ASSUME NEW n \in Id, n \in MayStart(g, st, {}) PROVE FALSE
  <2> DEFINE links == ParentsOf(g, n)
  <2>1. st[n].status = "pending" /\ st[n] \in State
    BY <1>1 DEF MayStart
  <2>2. /\ \/ links = {}
           \/ n \notin g.converge /\ \E l \in links : st[l[1]].status \in FINISHED /\ FiresOn(l[2], st[l[1]].status)
           \/ \A l \in links : st[l[1]].status \in FINISHED /\ FiresOn(l[2], st[l[1]].status)
    <3>1. \A l \in links : st[l[1]].status # "running"
      BY LinkFacts
    <3>2. QED
      BY <1>1, <3>1 DEF MayStart
  <2>3. ASSUME NEW l \in links, st[l[1]].status \in FINISHED, FiresOn(l[2], st[l[1]].status)
        PROVE  Fires(l[2], st[l[1]]) /\ ~Fails(l[2], st[l[1]])
    <3>1. l[1] \in Id
      BY LinkFacts
    <3>2. st[l[1]].doNotRun = FALSE
      BY <2>3, <3>1 DEF State, FINISHED
    <3>3. QED
      BY <2>3, <3>2 DEF Fires, Fails
  <2>4. CASE st[n].doNotRun = TRUE
    BY <2>2, <2>3, <2>4 DEF Justified
  <2>5. CASE st[n].doNotRun = FALSE
    <3>1. Undecided(st[n])
      BY <2>1, <2>5 DEF Undecided
    <3>2. n \in Starts(g, st)
      BY <2>2, <2>3, <3>1 DEF Starts
    <3>3. QED
      BY <3>2
  <2>6. QED
    BY <2>1, <2>4, <2>5 DEF State
<1>2. MayStart(g, st, {}) = {}
  BY <1>1 DEF MayStart
<1>3. QED
  BY <1>2 DEF MayRun

-----------------------------------------------------------------------------
(* The types                                                               *)

\* What is kept for the properties.
Hist == [threw : BOOLEAN, overtaken : BOOLEAN, overruled : BOOLEAN,
         amended : SUBSET Id, untold : SUBSET Id, unwatched : SUBSET Id]

\* A fault happened, or none.
FaultsGo == faults' = faults \/ (faults < MaxFaults /\ faults' = faults + 1)

\* What was amended or overtaken is as it was.
HistStays == hist' \in Hist /\ hist'.overtaken = hist.overtaken /\ hist'.amended = hist.amended

\* The types that WorkflowInv does not give.
Typed ==
  /\ graph \in Graph /\ state \in [Id -> State] /\ approvals \in Seq(Id)
  /\ loop.seen \in Status /\ loop.waiting \in Id \cup {None} /\ loop.todo \in SUBSET Id
  /\ aborting \in BOOLEAN /\ up \in BOOLEAN /\ fresh \in BOOLEAN /\ faults \in 0..MaxFaults
  /\ hist \in Hist

\* The state is well-typed, and an approval that is waited on is one of those asked.
TypeInv ==
  /\ Shape /\ Typed
  /\ loop.waiting # None => approvals # <<>>
  /\ loop.pc = "answer" => loop.waiting # None

\* The two make the type invariant of WorkflowRun.
LEMMA TypesJoin == Shape /\ Typed => TypeOK
<1> SUFFICES ASSUME Shape, Typed PROVE TypeOK
  OBVIOUS
<1>1. loop \in Loop
  BY DEF Shape, Typed, Loop
<1>2. QED
  BY <1>1 DEF TypeOK, Shape, Typed, Hist

\* A fault is counted up to the bound.
LEMMA FaultsType == ASSUME WorkflowAssumption, Typed, FaultsGo PROVE faults' \in 0..MaxFaults
  BY DEF WorkflowAssumption, Typed, FaultsGo

\* Telling the jobs of an abort leaves the rest of what is kept.
LEMMA TellHist ==
  ASSUME Typed, NEW asked \in SUBSET Id, Tell(asked)
  PROVE  FaultsGo /\ HistStays /\ hist'.unwatched = hist.unwatched
<1>1. PICK told \in SUBSET Id :
        /\ told \subseteq asked
        /\ hist' = [hist EXCEPT !.untold = (hist.untold \ asked) \cup (asked \ told)]
        /\ faults' = faults \/ (faults < MaxFaults /\ faults' = faults + 1)
  BY TellTells
<1>2. PICK untold \in SUBSET Id : hist' = [hist EXCEPT !.untold = untold]
  BY <1>1 DEF Typed, Hist
<1>3. QED
  BY <1>1, <1>2 DEF Typed, Hist, FaultsGo, HistStays

\* The fields of the loop after a step.
LoopIs(pc, seen, waiting, aborted, todo) ==
  /\ loop'.pc = pc /\ loop'.seen = seen /\ loop'.waiting = waiting
  /\ loop'.aborted = aborted /\ loop'.todo = todo

\* A loop that stops.
LEMMA OffFacts == loop' = Off => LoopIs("off", "running", None, FALSE, {})
  BY DEF Off, LoopIs

\* A step of the loop that only moves it on.
LoopOnly == UNCHANGED <<graph, state, run, approvals, child, aborting, up, fresh, faults, hist>>

Moves == Find \/ Read \/ Flag \/ Unhold \/ AskApproval \/ NoApproval \/ ReadAnswer \/ NotAnswered

\* It changes neither the nodes nor their jobs.
LEMMA MovesOnly == Moves => LoopOnly
  BY DEF Moves, LoopOnly, Find, Read, Flag, Unhold, AskApproval, NoApproval, ReadAnswer, NotAnswered, Around, Nodes, Jobs

\* Where it goes: it stops, or ends when an aborted workflow has no node left that runs.
MovesTo ==
  /\ loop'.pc \in {"read", "flag", "unhold", "cancel", "ask", "answer", "next", "end"}
  /\ loop'.seen \in {loop.seen, row.status} /\ loop'.todo = loop.todo
  /\ loop'.waiting \in {None, loop.waiting} \/ (approvals # <<>> /\ loop'.waiting = Head(approvals))
  /\ loop'.pc = "answer" => loop'.waiting # None
  /\ loop'.pc \in {"unhold", "cancel"} => loop'.aborted = TRUE \/ (loop.pc = "unhold" /\ loop'.aborted = loop.aborted)
  /\ loop'.pc = "end" => Running = {} /\ loop'.aborted = TRUE

\* Each such step goes there, or stops.
LEMMA MovesFacts ==
  ASSUME TypeInv, Moves
  PROVE  /\ loop.pc \in {"find", "read", "flag", "unhold", "ask", "answer"}
         /\ LoopIs("off", "running", None, FALSE, {}) \/ MovesTo
<1>0. Shape
  BY DEF TypeInv
<1>1. ASSUME NEW pc, Goes(pc) PROVE LoopIs(pc, loop.seen, loop.waiting, loop.aborted, loop.todo)
  BY <1>0, <1>1 DEF Goes, Shape, LoopIs
<1>2. CASE Find
  BY <1>1, <1>2, OffFacts DEF Find, At, LoopIs, MovesTo
<1>3. CASE Read
  <2>1. CASE loop' = [loop EXCEPT !.seen = row.status, !.pc = "flag"]
    <3>1. LoopIs("flag", row.status, loop.waiting, loop.aborted, loop.todo)
      BY <1>0, <2>1 DEF Shape, LoopIs
    <3>2. QED
      BY <1>3, <3>1 DEF Read, At, LoopIs, MovesTo
  <2>2. QED
    BY <1>3, <2>1, OffFacts DEF Read, At
<1>4. CASE Flag
  <2>1. CASE loop.aborted /\ Goes(Rest)
    <3>1. LoopIs(Rest, loop.seen, loop.waiting, loop.aborted, loop.todo)
      BY <1>1, <2>1
    <3>2. Rest \in {"read", "end"} /\ (Rest = "end" => Running = {})
      BY DEF Rest
    <3>3. loop.aborted = TRUE
      BY <1>0, <2>1 DEF Shape
    <3>4. QED
      BY <1>4, <3>1, <3>2, <3>3 DEF Flag, At, LoopIs, MovesTo
  <2>2. CASE loop' = [loop EXCEPT !.pc = "unhold", !.aborted = TRUE]
    <3>1. LoopIs("unhold", loop.seen, loop.waiting, TRUE, loop.todo)
      BY <1>0, <2>2 DEF Shape, LoopIs
    <3>2. QED
      BY <1>4, <3>1 DEF Flag, At, LoopIs, MovesTo
  <2>3. CASE Goes("ask")
    BY <1>1, <1>4, <2>3 DEF Flag, At, LoopIs, MovesTo
  <2>4. QED
    BY <1>4, <2>1, <2>2, <2>3 DEF Flag
<1>5. CASE Unhold
  BY <1>1, <1>5 DEF Unhold, At, LoopIs, MovesTo
<1>6. CASE AskApproval
  <2>1. PICK waiting \in {Head(approvals), None} : loop' = [loop EXCEPT !.pc = "next", !.waiting = waiting]
    BY <1>6 DEF AskApproval
  <2>2. LoopIs("next", loop.seen, waiting, loop.aborted, loop.todo)
    BY <1>0, <2>1 DEF Shape, LoopIs
  <2>3. QED
    BY <1>6, <2>2 DEF AskApproval, At, LoopIs, MovesTo
<1>7. CASE NoApproval \/ NotAnswered
  BY <1>1, <1>7 DEF NoApproval, NotAnswered, At, LoopIs, MovesTo
<1>8. CASE ReadAnswer
  <2>1. LoopIs("answer", row.status, loop.waiting, loop.aborted, loop.todo)
    BY <1>0, <1>8 DEF ReadAnswer, Shape, LoopIs
  <2>2. QED
    BY <1>8, <2>1 DEF ReadAnswer, At, LoopIs, MovesTo
<1>9. QED
  BY <1>2, <1>3, <1>4, <1>5, <1>6, <1>7, <1>8 DEF Moves

\* These keep the types.
LEMMA MovesType == ASSUME TypeInv, Shape', Moves PROVE TypeInv'
<1>1. LoopOnly /\ Shape /\ Typed /\ row.status \in Status
  BY MovesOnly DEF TypeInv, Shape, Row
<1>2. CASE LoopIs("off", "running", None, FALSE, {})
  BY <1>1, <1>2 DEF TypeInv, Typed, LoopOnly, LoopIs, Status
<1>3. CASE MovesTo
  <2>1. loop'.waiting \in Id \cup {None} /\ (loop'.waiting # None => approvals # <<>>)
    BY <1>1, <1>3 DEF TypeInv, Typed, MovesTo
  <2>2. QED
    BY <1>1, <1>3, <2>1 DEF TypeInv, Typed, LoopOnly, MovesTo
<1>4. QED
  BY <1>2, <1>3, MovesFacts

\* The loop cancels its approvals and tells its jobs.
LEMMA CancelFacts ==
  ASSUME TypeInv, Cancel
  PROVE  /\ loop.pc = "cancel" /\ UNCHANGED <<graph, row, aborting, up, fresh>> /\ FaultsGo /\ HistStays
         /\ approvals' = <<>> /\ child' \in [Id -> Row]
         /\ state' \in [Id -> State] /\ run' \in [Id -> RunPc]
         /\ \A n \in Id :
              /\ child'[n].status = child[n].status
              /\ run[n] = "asked" => run'[n] = "off" /\ state'[n] = [state[n] EXCEPT !.status = "canceled"]
              /\ run[n] # "asked" => run'[n] = run[n] /\ state'[n] = state[n]
         /\ \E pc \in {"read", "end"} : /\ LoopIs(pc, loop.seen, None, loop.aborted, loop.todo)
                                        /\ pc = "end" => \A n \in Id : run'[n] = "off"
<1>0. Shape /\ Typed
  BY DEF TypeInv
<1> DEFINE asked == {n \in Id : run[n] = "asked"}
           run1 == [n \in Id |-> IF n \in asked THEN "off" ELSE run[n]]
<1>1. /\ run' = run1 /\ loop.pc = "cancel" /\ approvals' = <<>>
      /\ UNCHANGED <<graph, row, aborting, up, fresh>>
      /\ state' = [n \in Id |-> IF n \in asked THEN [state[n] EXCEPT !.status = "canceled"] ELSE state[n]]
      /\ loop' = [loop EXCEPT !.waiting = None, !.pc = IF \A n \in Id : run1[n] = "off" THEN "end" ELSE "read"]
  BY DEF Cancel, Around, At
<1>2. PICK told \in SUBSET Id : child' = [n \in Id |-> IF n \in told THEN RequestAbortRow(child[n]) ELSE child[n]]
  BY TellTells DEF Cancel
<1>10. \A n \in Id : RequestAbortRow(child[n]) \in Row /\ RequestAbortRow(child[n]).status = child[n].status
  BY <1>0, AbortFacts DEF Shape
<1>11. FaultsGo /\ HistStays
  BY <1>0, TellHist DEF Cancel
<1>3. \A s \in State : [s EXCEPT !.status = "canceled"] \in State
  BY DEF State, FINISHED
<1>4. run' \in [Id -> RunPc]
  BY <1>0, <1>1 DEF Shape, RunPc
<1>5. child' \in [Id -> Row] /\ state' \in [Id -> State]
  BY <1>0, <1>1, <1>2, <1>3, <1>10 DEF Shape, Typed
<1>6. ASSUME NEW n \in Id
      PROVE  /\ child'[n].status = child[n].status
             /\ run[n] = "asked" => run'[n] = "off" /\ state'[n] = [state[n] EXCEPT !.status = "canceled"]
             /\ run[n] # "asked" => run'[n] = run[n] /\ state'[n] = state[n]
  BY <1>1, <1>2, <1>10
<1>7. PICK pc \in {"read", "end"} : /\ loop' = [loop EXCEPT !.waiting = None, !.pc = pc]
                                    /\ pc = "end" => \A n \in Id : run1[n] = "off"
  BY <1>1
<1>8. LoopIs(pc, loop.seen, None, loop.aborted, loop.todo)
  BY <1>0, <1>7 DEF Shape, LoopIs
<1> HIDE DEF run1, asked
<1>9. QED
  BY <1>1, <1>4, <1>5, <1>6, <1>7, <1>8, <1>11

\* It keeps the types.
LEMMA CancelTypes == ASSUME WorkflowAssumption, TypeInv, Shape', Cancel PROVE TypeInv'
<1>1. PICK pc \in {"read", "end"} : LoopIs(pc, loop.seen, None, loop.aborted, loop.todo)
  BY CancelFacts
<1>2. /\ UNCHANGED <<graph, aborting, up, fresh>> /\ approvals' = <<>> /\ state' \in [Id -> State] /\ hist' \in Hist
  BY CancelFacts DEF HistStays
<1>3. faults' \in 0..MaxFaults
  BY CancelFacts, FaultsType DEF TypeInv
<1>4. QED
  BY <1>1, <1>2, <1>3 DEF TypeInv, Typed, LoopIs

\* The approval waited on is answered.
LEMMA AnswersFacts ==
  ASSUME TypeInv, Approved \/ Rejected \/ TimedOut
  PROVE  \E status \in {"successful", "failed"} :
         /\ loop.pc = "answer" /\ UNCHANGED <<graph, child, aborting, up, fresh, faults, hist>>
         /\ loop.waiting \in Id /\ approvals # <<>> /\ approvals' = Tail(approvals)
         /\ state' = [state EXCEPT ![loop.waiting].status = status]
         /\ run' = [run EXCEPT ![loop.waiting] = "off"]
         /\ LoopIs("next", loop.seen, None, loop.aborted, loop.todo)
<1>1. PICK status \in {"successful", "failed"} : Answers(status)
  BY DEF Approved, Rejected, TimedOut
<1>2. loop.pc = "answer"
  BY DEF Approved, Rejected, TimedOut, At
<1>3. LoopIs("next", loop.seen, None, loop.aborted, loop.todo)
  BY <1>1 DEF Answers, TypeInv, Shape, LoopIs
<1>4. QED
  BY <1>1, <1>2, <1>3 DEF Answers, Around, Jobs, TypeInv, Typed

\* The three answers keep the types.
LEMMA AnswersType == ASSUME TypeInv, Shape', Approved \/ Rejected \/ TimedOut PROVE TypeInv'
<1>1. PICK status \in {"successful", "failed"} :
         /\ UNCHANGED <<graph, aborting, up, fresh, faults, hist>>
         /\ loop.waiting \in Id /\ approvals # <<>> /\ approvals' = Tail(approvals)
         /\ state' = [state EXCEPT ![loop.waiting].status = status]
         /\ LoopIs("next", loop.seen, None, loop.aborted, loop.todo)
  BY AnswersFacts
<1>2. approvals \in Seq(Id) /\ approvals' \in Seq(Id)
  BY <1>1 DEF TypeInv, Typed
<1>3. [state[loop.waiting] EXCEPT !.status = status] \in State
  BY <1>1, SMTT(30) DEF TypeInv, Typed, State, FINISHED
<1>4. state' \in [Id -> State]
  BY <1>1, <1>3 DEF TypeInv, Typed
<1>5. QED
  BY <1>1, <1>2, <1>4 DEF TypeInv, Typed, LoopIs

\* The approvals among the nodes that start.
AskedOf(todo) == {n \in todo : graph.type[n] = "approval"}

\* What starts: the nodes of todo are running, its approvals asked after those before.
LEMMA BeginsFacts ==
  ASSUME WorkflowAssumption, TypeInv, NEW todo \in SUBSET Id, NEW state1 \in [Id -> State], Begins(todo, state1)
  PROVE  /\ state' \in [Id -> State]
         /\ \A n \in Id :
              /\ n \in todo => /\ state'[n] = [state1[n] EXCEPT !.status = "running"]
                               /\ run'[n] = IF n \in AskedOf(todo) THEN "asked" ELSE "launch"
              /\ n \notin todo => state'[n] = state1[n] /\ run'[n] = run[n]
         /\ AskedOf(todo) \in SUBSET Id /\ approvals' = approvals \o InOrder(AskedOf(todo))
         /\ loop'.pc \in {"read", "end"} /\ LoopIs(loop'.pc, loop.seen, loop.waiting, loop.aborted, {})
         /\ loop'.pc = "end" => \A n \in Id : run'[n] = "off"
<1> DEFINE asked == AskedOf(todo)
           run1 == [n \in Id |-> IF n \notin todo THEN run[n] ELSE IF n \in asked THEN "asked" ELSE "launch"]
<1>0. Shape /\ Typed /\ asked \in SUBSET Id
  BY DEF TypeInv, AskedOf
<1>1. /\ state' = [n \in Id |-> IF n \in todo THEN [state1[n] EXCEPT !.status = "running"] ELSE state1[n]]
      /\ run' = run1 /\ approvals' = approvals \o InOrder(asked)
      /\ loop' = [loop EXCEPT !.todo = {}, !.pc = IF Busy(run1) THEN "read" ELSE "end"]
  BY DEF Begins, AskedOf
<1>2. \A s \in State : [s EXCEPT !.status = "running"] \in State
  BY DEF State
<1>3. state' \in [Id -> State]
  BY <1>1, <1>2
<1>4. ASSUME NEW n \in Id
      PROVE  /\ n \in todo => /\ state'[n] = [state1[n] EXCEPT !.status = "running"]
                              /\ run'[n] = IF n \in asked THEN "asked" ELSE "launch"
             /\ n \notin todo => state'[n] = state1[n] /\ run'[n] = run[n]
  BY <1>1
<1>6. PICK pc \in {"read", "end"} : /\ loop' = [loop EXCEPT !.todo = {}, !.pc = pc]
                                    /\ pc = "end" => \A n \in Id : run1[n] = "off"
  BY <1>1 DEF Busy
<1>7. LoopIs(pc, loop.seen, loop.waiting, loop.aborted, {})
  BY <1>0, <1>6 DEF Shape, LoopIs
<1>8. loop'.pc \in {"read", "end"} /\ LoopIs(loop'.pc, loop.seen, loop.waiting, loop.aborted, {})
  BY <1>7 DEF LoopIs
<1>9. loop'.pc = "end" => \A n \in Id : run'[n] = "off"
  BY <1>1, <1>6, <1>7 DEF LoopIs
<1> HIDE DEF run1
<1>10. QED
  BY <1>0, <1>1, <1>3, <1>4, <1>8, <1>9

\* The nodes that start keep the types.
LEMMA BeginsType ==
  ASSUME WorkflowAssumption, TypeInv, Shape', Around, UNCHANGED <<faults, hist>>,
         NEW todo \in SUBSET Id, NEW state1 \in [Id -> State], Begins(todo, state1)
  PROVE  TypeInv'
<1> DEFINE q == InOrder(AskedOf(todo))
<1>1. /\ state' \in [Id -> State] /\ approvals' = approvals \o q /\ AskedOf(todo) \in SUBSET Id
      /\ loop'.pc \in {"read", "end"} /\ LoopIs(loop'.pc, loop.seen, loop.waiting, loop.aborted, {})
  BY BeginsFacts
<1>2. q \in Seq(Id)
  BY <1>1, InOrderFacts
<1> HIDE DEF q
<1>3. approvals \in Seq(Id) /\ approvals' \in Seq(Id) /\ (approvals # <<>> => approvals' # <<>>)
  BY <1>1, <1>2 DEF TypeInv, Typed
<1>4. QED
  BY <1>1, <1>3 DEF TypeInv, Typed, LoopIs, Around

\* The graph is saved, the nodes that start wait for that.
LEMMA SlowSaveFacts ==
  ASSUME TypeInv, SlowSave
  PROVE  /\ loop.pc = "next" /\ UNCHANGED <<graph, row, run, child, approvals, aborting, up, fresh, hist>>
         /\ state' = AfterSkips(graph, state) /\ state' \in [Id -> State]
         /\ LoopIs("begin", loop.seen, loop.waiting, loop.aborted, Starts(graph, state'))
         /\ faults < MaxFaults /\ faults' = faults + 1
<1>1. /\ loop.pc = "next" /\ UNCHANGED <<graph, row, run, child, approvals, aborting, up, fresh, hist>>
      /\ state' = AfterSkips(graph, state) /\ faults < MaxFaults /\ faults' = faults + 1
      /\ loop' = [loop EXCEPT !.pc = "begin", !.todo = Starts(graph, state')]
  BY DEF SlowSave, Around, Jobs, At, Fault
<1>2. LoopIs("begin", loop.seen, loop.waiting, loop.aborted, Starts(graph, state'))
  BY <1>1 DEF TypeInv, Shape, LoopIs
<1>3. state' \in [Id -> State]
  BY <1>1, AfterSkipsType DEF TypeInv, Typed
<1>4. QED
  BY <1>1, <1>2, <1>3


\* A slow save keeps the types.
LEMMA SlowSaveType == ASSUME WorkflowAssumption, TypeInv, Shape', SlowSave PROVE TypeInv'
<1>1. Starts(graph, state') \in SUBSET Id
  BY DEF Starts
<1>2. faults' \in 0..MaxFaults
  BY SlowSaveFacts DEF TypeInv, Typed, WorkflowAssumption
<1>3. QED
  BY <1>1, <1>2, SlowSaveFacts DEF TypeInv, Typed, LoopIs

\* The loop is at its end, or a statement of it throws.
LEMMA StopsFacts ==
  ASSUME TypeInv, End \/ LoopThrows
  PROVE  /\ LoopIs("off", "running", None, FALSE, {}) /\ state' \in [Id -> State]
         /\ UNCHANGED <<graph, run, approvals, child, aborting, up, fresh>>
         /\ HistStays
<1>1. LoopIs("off", "running", None, FALSE, {})
  BY OffFacts DEF End, LoopThrows
<1>2. UNCHANGED <<graph, run, approvals, child, aborting, up, fresh>>
  BY DEF End, LoopThrows, Around, Nodes, Jobs
<1>3. HistStays
  BY DEF End, LoopThrows, TypeInv, Typed, Hist, HistStays
<1>4. state' \in [Id -> State]
  <2>1. \A s \in State, b \in BOOLEAN : [s EXCEPT !.doNotRun = b] \in State
    BY DEF State
  <2>2. ASSUME NEW n \in Id
        PROVE  [state[n] EXCEPT !.doNotRun = state[n].doNotRun \/ state[n].status = "pending"] \in State
    <3> DEFINE b == state[n].doNotRun \/ state[n].status = "pending"
    <3>1. b \in BOOLEAN /\ state[n] \in State
      BY DEF TypeInv, Typed
    <3> HIDE DEF b
    <3>2. [state[n] EXCEPT !.doNotRun = b] \in State
      BY <2>1, <3>1
    <3>3. QED
      BY <3>2 DEF b
  <2>3. state' = state
         \/ state' = [n \in Id |-> [state[n] EXCEPT !.doNotRun = state[n].doNotRun \/ state[n].status = "pending"]]
    BY DEF End, LoopThrows, Nodes
  <2>4. QED
    BY <2>2, <2>3 DEF TypeInv, Typed
<1>5. QED
  BY <1>1, <1>2, <1>3, <1>4

\* The end of the loop keeps the types.
LEMMA StopsType == ASSUME WorkflowAssumption, TypeInv, Shape', End \/ LoopThrows PROVE TypeInv'
<1>1. faults' \in 0..MaxFaults
  BY DEF End, LoopThrows, Fault, TypeInv, Typed, WorkflowAssumption
<1>2. QED
  BY <1>1, StopsFacts DEF TypeInv, Typed, LoopIs, Status, HistStays

\* Every step of the loop keeps the types.
LEMMA LoopType == ASSUME WorkflowAssumption, TypeInv, Shape', LoopStep PROVE TypeInv'
<1>1. CASE NextStep
  <2>1. AfterSkips(graph, state) \in [Id -> State]
    BY AfterSkipsType DEF TypeInv, Typed
  <2>2. Starts(graph, AfterSkips(graph, state)) \in SUBSET Id
    BY DEF Starts
  <2>3. /\ Begins(Starts(graph, AfterSkips(graph, state)), AfterSkips(graph, state))
        /\ Around /\ UNCHANGED <<faults, hist>>
    BY <1>1 DEF NextStep
  <2>4. QED
    BY <2>1, <2>2, <2>3, BeginsType
<1>2. CASE Begin
  <2>1. loop.todo \in SUBSET Id /\ state \in [Id -> State]
    BY DEF TypeInv, Typed
  <2>2. Begins(loop.todo, state) /\ Around /\ UNCHANGED <<faults, hist>>
    BY <1>2 DEF Begin
  <2>3. QED
    BY <2>1, <2>2, BeginsType
<1>3. QED
  BY <1>1, <1>2, MovesType, CancelTypes, AnswersType, StopsType DEF LoopStep, Moves

-----------------------------------------------------------------------------
(* The types, next to the loop                                             *)

\* A step of one node's run that gives its status.
LEMMA FinishesFacts ==
  ASSUME TypeInv, NEW n \in Id, NEW status \in FINISHED, Finishes(n, status)
  PROVE  /\ UNCHANGED <<graph, row, child, loop, approvals, aborting, up, fresh, faults>>
         /\ state' = [state EXCEPT ![n].status = status] /\ state' \in [Id -> State]
         /\ run' = [run EXCEPT ![n] = "done"]
         /\ hist' \in Hist /\ hist'.amended = hist.amended
         /\ hist'.untold = hist.untold /\ hist'.unwatched = hist.unwatched
         /\ hist'.overtaken = FALSE => hist.overtaken = FALSE /\ loop.pc # "begin"
<1> DEFINE b == hist.overtaken \/ At("begin")
<1>1. b \in BOOLEAN /\ hist' = [hist EXCEPT !.overtaken = b]
  BY DEF Finishes
<1>2. b = FALSE => hist.overtaken = FALSE /\ loop.pc # "begin"
  BY DEF At, TypeInv, Typed
<1> HIDE DEF b
<1>3. /\ hist' \in Hist /\ hist'.overtaken = b /\ hist'.amended = hist.amended
      /\ hist'.untold = hist.untold /\ hist'.unwatched = hist.unwatched
  BY <1>1 DEF TypeInv, Typed, Hist
<1>4. [state[n] EXCEPT !.status = status] \in State
  BY DEF TypeInv, Typed, State
<1>5. state' = [state EXCEPT ![n].status = status] /\ state' \in [Id -> State]
  BY <1>4 DEF Finishes, TypeInv, Typed
<1>6. QED
  BY <1>2, <1>3, <1>5 DEF Finishes, Around, Jobs

\* The four ways to end, with what the job says.
Ends(n) == SkipNode(n) \/ Refused(n) \/ Pull(n) \/ NodeEnds(n)

\* Each ends the node, with the status of its job when it waited for one.
LEMMA EndsFinish ==
  ASSUME NEW n \in Id, Ends(n)
  PROVE  \E status \in FINISHED :
           /\ Finishes(n, status)
           /\ run[n] = "launch" \/ (run[n] = "wait" /\ status = StatusOfJob(child[n]))
  BY DEF Ends, SkipNode, Refused, Pull, NodeEnds, FINISHED, StatusOfJob

\* The steps of a node's run keep the types.
LEMMA NodeType == ASSUME TypeInv, Shape', NEW n \in Id, NodeStep(n) PROVE TypeInv'
<1>1. CASE Ends(n)
  <2>1. PICK status \in FINISHED : Finishes(n, status)
    BY <1>1, EndsFinish
  <2>2. QED
    BY <2>1, FinishesFacts DEF TypeInv, Typed
<1>2. CASE LaunchNode(n) \/ PassAbort(n) \/ NodeLeaves(n)
  BY <1>2 DEF LaunchNode, PassAbort, NodeLeaves, Around, TypeInv, Typed
<1>3. QED
  BY <1>1, <1>2 DEF NodeStep, Ends

\* The node whose statement throws has failed.
LEMMA ThrowsFacts ==
  ASSUME TypeInv, NEW n \in Id, NodeThrows(n)
  PROVE  /\ UNCHANGED <<graph, row, child, follower, resumed, loop, approvals, aborting, up, fresh>> /\ FaultsGo
         /\ run[n] \in {"pass", "wait", "done"}
         /\ state' = [state EXCEPT ![n].status = "failed"] /\ state' \in [Id -> State]
         /\ run' = [run EXCEPT ![n] = "done"]
         /\ hist' \in Hist
         /\ hist'.overtaken = FALSE => hist.overtaken = FALSE /\ loop.pc # "begin"
         /\ hist'.amended = IF run[n] = "done" THEN hist.amended \cup {n} ELSE hist.amended
         /\ hist'.untold = IF run[n] = "pass" /\ row.abort_requested THEN hist.untold \cup {n} ELSE hist.untold
         /\ hist'.unwatched = hist.unwatched
<1>1. hist \in Hist /\ state \in [Id -> State]
  BY DEF TypeInv, Typed
<1> DEFINE b == hist.overtaken \/ At("begin")
           a == IF run[n] = "done" THEN hist.amended \cup {n} ELSE hist.amended
           u == IF run[n] = "pass" /\ row.abort_requested THEN hist.untold \cup {n} ELSE hist.untold
<1>2. b \in BOOLEAN /\ a \in SUBSET Id /\ u \in SUBSET Id
  BY <1>1 DEF Hist
<1>3. b = FALSE => hist.overtaken = FALSE /\ loop.pc # "begin"
  BY <1>1 DEF At, Hist
<1>4. hist' = [hist EXCEPT !.overtaken = b, !.amended = a, !.untold = u]
  BY DEF NodeThrows
<1> HIDE DEF b, a, u
<1>5. hist' \in Hist /\ hist'.overtaken = b /\ hist'.amended = a /\ hist'.untold = u /\ hist'.unwatched = hist.unwatched
  BY <1>1, <1>2, <1>4 DEF Hist
<1>6. [state[n] EXCEPT !.status = "failed"] \in State
  BY <1>1 DEF State, FINISHED
<1>7. state' = [state EXCEPT ![n].status = "failed"] /\ state' \in [Id -> State]
  BY <1>1, <1>6 DEF NodeThrows
<1>8. /\ UNCHANGED <<graph, row, child, follower, resumed, loop, approvals, aborting, up, fresh>> /\ FaultsGo
      /\ run[n] \in {"pass", "wait", "done"} /\ run' = [run EXCEPT ![n] = "done"]
  BY DEF NodeThrows, Around, Jobs, Fault, FaultsGo
<1>9. QED
  BY <1>3, <1>5, <1>7, <1>8 DEF a, u

\* It keeps the types.
LEMMA ThrowsType == ASSUME WorkflowAssumption, TypeInv, Shape', NEW n \in Id, NodeThrows(n) PROVE TypeInv'
<1>1. faults' \in 0..MaxFaults
  BY ThrowsFacts, FaultsType DEF TypeInv
<1>2. QED
  BY <1>1, ThrowsFacts DEF TypeInv, Typed

\* What changes neither the graph, nor the states, the approvals and the loop.
Outside == UNCHANGED <<graph, state, run, approvals, loop>> /\ HistStays

\* The requests, the jobs on their runners, the sweeps and the heartbeat.
Outer ==
  \/ Approve \/ Reject \/ Abort \/ AbortJobs \/ (\E n \in Id : AbortNode(n))
  \/ Restart \/ Lapse \/ Heartbeat \/ SweepDead \/ SweepQuiet
  \/ \E n \in Id : \/ ChildEnds(n) \/ EndLost(n) \/ TakeOver(n, Worker) \/ TakeOver(n, Home)
                   \/ \E m \in Node : EndParent(n, m)

\* They change none of it.
LEMMA OuterOutside == ASSUME TypeInv, Outer PROVE Outside
<1>1. UNCHANGED <<graph, state, run, approvals, loop>>
  BY DEF Outer, Approve, Reject, Abort, AbortJobs, AbortNode, Restart, Lapse, Heartbeat, SweepDead,
         SweepQuiet, ChildEnds, EndLost, TakeOver, EndParent, Around, Nodes, Jobs
<1>2. hist \in Hist
  BY DEF TypeInv, Typed
<1>3. CASE AbortJobs
  BY <1>1, <1>3, TellHist DEF AbortJobs, Outside, TypeInv
<1>4. CASE UNCHANGED hist
  BY <1>1, <1>2, <1>4 DEF Outside, HistStays
<1>5. CASE \E n \in Id : EndLost(n) \/ \E m \in Node : EndParent(n, m)
  <2>1. CASE \E n \in Id : EndLost(n)
    BY <1>1, <1>2, <2>1 DEF EndLost, Outside, HistStays, Hist
  <2>2. CASE \E n \in Id, m \in Node : EndParent(n, m)
    <3>1. PICK b : b = (hist.overruled \/ row.status \in ENDS_FROM)
      OBVIOUS
    <3>2. hist' = [hist EXCEPT !.overruled = b] /\ b \in BOOLEAN
      BY <2>2, <3>1 DEF EndParent
    <3>3. QED
      BY <1>1, <1>2, <3>2 DEF Outside, HistStays, Hist
  <2>3. QED
    BY <1>5, <2>1, <2>2
<1>6. QED
  BY <1>3, <1>4, <1>5 DEF Outer, Approve, Reject, Abort, AbortNode, Restart, Lapse, Heartbeat, SweepDead,
         SweepQuiet, ChildEnds, TakeOver, Around

\* The other steps keep the types.
LEMMA OuterType == ASSUME WorkflowAssumption, TypeInv, Shape', Outer PROVE TypeInv'
<1>1. Outside
  BY OuterOutside
<1>2. aborting' \in BOOLEAN /\ up' \in BOOLEAN /\ fresh' \in BOOLEAN
  BY DEF Outer, Approve, Reject, Abort, AbortJobs, AbortNode, Restart, Lapse, Heartbeat, SweepDead,
         SweepQuiet, ChildEnds, EndLost, TakeOver, EndParent, Around, TypeInv, Typed
<1>3. faults' \in 0..MaxFaults
  <2>1. CASE AbortJobs
    BY <2>1, TellHist, FaultsType DEF AbortJobs, TypeInv
  <2>2. CASE ~AbortJobs
    <3>1. FaultsGo
      BY <2>2 DEF Outer, Approve, Reject, Abort, AbortNode, Restart, Lapse, Heartbeat, SweepDead,
             SweepQuiet, ChildEnds, EndLost, TakeOver, EndParent, Fault, FaultsGo
    <3>2. QED
      BY <3>1, FaultsType DEF TypeInv
  <2>3. QED
    BY <2>1, <2>2
<1>4. QED
  BY <1>1, <1>2, <1>3 DEF TypeInv, Typed, Outside, HistStays

\* The workflow is launched.
LEMMA LaunchFacts ==
  ASSUME Launch
  PROVE  /\ row.status = "absent" /\ LoopIs("find", "running", None, FALSE, {})
         /\ UNCHANGED <<graph, state, run, approvals, child, aborting, up, fresh, faults, hist>>
<1>1. loop' = [pc |-> "find", seen |-> "running", waiting |-> None, aborted |-> FALSE, todo |-> {}]
  BY DEF Launch, Off
<1>2. QED
  BY <1>1 DEF Launch, LoopIs, Around, Nodes, Jobs

\* The process stops.
LEMMA CrashFacts ==
  ASSUME Crash
  PROVE  /\ LoopIs("off", "running", None, FALSE, {}) /\ approvals' = <<>> /\ run' = [n \in Id |-> "off"]
         /\ UNCHANGED <<graph, row, state, child, aborting, fresh, hist>>
         /\ up' = FALSE /\ faults < MaxFaults /\ faults' = faults + 1
  BY OffFacts DEF Crash, Fault

\* The next-state relation, by what the steps change.
LEMMA Kinds ==
  ASSUME Next
  PROVE  \/ LoopStep \/ SlowSave \/ LoopThrows \/ (\E n \in Id : NodeStep(n) \/ NodeThrows(n))
         \/ Launch \/ Crash \/ Outer
  BY DEF Next, Request, Process, Outer

\* Every step keeps the types.
LEMMA TypeNext == ASSUME WorkflowAssumption, TypeInv, Shape', [Next]_vars PROVE TypeInv'
<1>1. CASE UNCHANGED vars
  BY <1>1 DEF vars, TypeInv, Typed, Shape
<1>2. CASE Launch
  BY <1>2, LaunchFacts DEF TypeInv, Typed, LoopIs, Status
<1>3. CASE Crash
  BY <1>3, CrashFacts DEF TypeInv, Typed, LoopIs, Status, WorkflowAssumption
<1>4. QED
  BY <1>1, <1>2, <1>3, Kinds, LoopType, SlowSaveType, StopsType, NodeType, ThrowsType, OuterType

\* The types hold at first.
LEMMA TypeInit == ASSUME WorkflowAssumption, NoNodeAssumption, Init PROVE TypeInv
<1>1. Shape
  BY WorkflowInit DEF WorkflowInv
<1>2. /\ loop.pc = "off" /\ loop.seen = "running" /\ loop.waiting = None /\ loop.todo = {}
  BY DEF Init, Off
<1>3. state \in [Id -> State] /\ approvals \in Seq(Id)
  BY DEF Init, State
<1>4. loop.seen \in Status /\ loop.waiting \in Id \cup {None} /\ loop.todo \in SUBSET Id
  BY <1>2 DEF Status
<1>5. hist \in Hist /\ faults \in 0..MaxFaults
  BY DEF Init, WorkflowAssumption, Hist
<1>6. Typed
  BY <1>3, <1>4, <1>5 DEF Init, Typed
<1>7. QED
  BY <1>1, <1>2, <1>6 DEF TypeInv

\* Every variable of a workflow, its loop and its jobs holds what the code may put there, for any
\* workflow.
THEOREM WorkflowTypeCorrect == Spec => []TypeOK
<1>1. Init => WorkflowInv /\ TypeInv
  BY WorkflowInit, TypeInit, WorkflowAssumption, NoNodeAssumption
<1>2. WorkflowInv /\ TypeInv /\ [Next]_vars => WorkflowInv' /\ TypeInv'
  BY WorkflowStep, TypeNext, WorkflowAssumption, NoNodeAssumption DEF WorkflowInv
<1>3. WorkflowInv /\ TypeInv => TypeOK
  BY TypesJoin DEF TypeInv
<1>4. QED
  BY <1>1, <1>2, <1>3, PTL DEF Spec

-----------------------------------------------------------------------------
(* The end of a workflow is true                                           *)

\* The statuses of a node's job, which nobody approves.
ChildStatus == {"absent", "running", "abandoned", "success", "failed", "aborted"}

\* The job of a node did well, or the node failed.
Fine(n) == child[n].status \in {"absent", "success", "aborted"} \/ state[n].status = "failed"

\* Where the run of a node is while its status reads running.
Begun == {"launch", "pass", "wait", "asked"}

\* What the loop knows of a node, in the state map st.
NodeTruth(st, n) ==
  /\ run[n] \in Begun <=> st[n].status = "running"
  /\ run[n] = "done" => st[n].status \in FINISHED
  /\ st[n].doNotRun = TRUE => st[n].status = "pending"
  /\ run[n] \notin {"pass", "wait"} => child[n].status \in {"absent", "success", "aborted"} \/ st[n].status = "failed"
  /\ hist.amended = {} => Justified(graph, st, n)

\* The approvals are asked, each once, and the first one is waited on.
Asked ==
  /\ \A i \in 1..Len(approvals) : run[approvals[i]] = "asked"
  /\ \A i, j \in 1..Len(approvals) : approvals[i] = approvals[j] => i = j
  /\ loop.waiting # None => loop.waiting = Head(approvals)

\* Only an abort cancels; what starts after the save is what was to start before it, and nothing
\* that may start is left at the end, unless a node ended during the save.
LoopTruth ==
  /\ loop.pc \in {"unhold", "cancel"} => loop.aborted = TRUE
  /\ loop.pc = "begin" => /\ \A n \in loop.todo : run[n] = "off" /\ Undecided(state[n])
                          /\ hist.overtaken = FALSE => loop.todo = Starts(graph, state)
  /\ loop.pc = "end" => /\ \A n \in Id : run[n] = "off"
                        /\ loop.aborted = FALSE /\ hist.overtaken = FALSE => Starts(graph, state) = {}

\* What a loop that is not over knows.
OnTruth == (\A n \in Id : NodeTruth(state, n)) /\ Asked /\ LoopTruth

\* Before the launch nothing ran.
Unstarted ==
  /\ approvals = <<>>
  /\ \A n \in Id : /\ run[n] = "off" /\ child[n].status = "absent"
                   /\ state[n].status = "pending" /\ state[n].doNotRun = FALSE

\* A workflow that reads success has ended with every failure handled.
Succeeded == \A n \in Id : run[n] = "off" /\ Fine(n) /\ (state[n].status = "failed" => Handled(graph, n))

\* The whole of it, by the status of the workflow.
TruthInv ==
  /\ \A n \in Id : child[n].status \in ChildStatus
  /\ row.status \in {"absent", "success"} => loop.pc = "off"
  /\ row.status = "absent" => Unstarted
  /\ row.status = "success" => Succeeded
  /\ loop.pc # "off" => OnTruth

\* What a move between statuses makes of that of the row.
LEMMA MoveStatus ==
  ASSUME NEW r \in Row, NEW from, NEW to \in Status, NEW end \in BOOLEAN
  PROVE  TransitionStatus(r, from, to, end).status \in {r.status, to}
<1> DEFINE flag == r.abort_requested /\ (\/ to \notin TERMINAL_STATUS
                                         \/ to = "rejected" /\ r.job_type = "workflow")
<1>1. flag \in BOOLEAN
  OBVIOUS
<1>2. TransitionStatus(r, from, to, end) \in {r, [r EXCEPT !.status = to, !.end = end, !.abort_requested = flag]}
  BY DEF TransitionStatus
<1> HIDE DEF flag
<1>3. [r EXCEPT !.status = to, !.end = end, !.abort_requested = flag].status = to
  BY DEF Row
<1>4. QED
  BY <1>2, <1>3

\* The row neither comes to be unlaunched nor a success.
RowStays == row'.status \in {"absent", "success"} => row'.status = row.status

\* A move to another status leaves it so.
LEMMA MoveStays ==
  ASSUME Shape, NEW from, NEW to \in {"running", "approve", "rejected", "failed", "aborted"}, NEW end \in BOOLEAN,
         row' = TransitionStatus(row, from, to, end)
  PROVE  RowStays
<1>1. to \in Status
  BY DEF Status, TERMINAL_STATUS
<1>2. row'.status \in {row.status, to}
  BY <1>1, MoveStatus DEF Shape
<1>3. QED
  BY <1>2 DEF RowStays

\* So does a step of the loop that only moves it on.
LEMMA MovesRow == ASSUME Shape, Moves PROVE RowStays
<1>1. row.end \in BOOLEAN
  BY DEF Shape, Row
<1>2. QED
  BY <1>1, MoveStays DEF Moves, Find, Read, Flag, Unhold, AskApproval, NoApproval, ReadAnswer, NotAnswered, EndRow, RowStays

\* A step of the loop that only moves it on.
LEMMA MovesTrue ==
  ASSUME TypeInv, TruthInv, Moves
  PROVE  TruthInv'
<1>1. LoopOnly /\ RowStays /\ loop.pc # "off" /\ row.status \notin {"absent", "success"}
  BY MovesOnly, MovesRow, MovesFacts DEF TypeInv, TruthInv
<1>2. row'.status \notin {"absent", "success"}
  BY <1>1 DEF RowStays
<1>3. \A n \in Id : child'[n].status \in ChildStatus
  BY <1>1 DEF TruthInv, LoopOnly
<1>4. CASE LoopIs("off", "running", None, FALSE, {})
  BY <1>2, <1>3, <1>4 DEF TruthInv, LoopIs
<1>5. CASE MovesTo
  <2>1. OnTruth
    BY <1>1 DEF TruthInv
  <2>2. \A n \in Id : NodeTruth(state, n)'
    BY <1>1, <2>1 DEF OnTruth, NodeTruth, LoopOnly
  <2>3. Asked'
    BY <1>1, <1>5, <2>1 DEF OnTruth, Asked, LoopOnly, MovesTo
  <2>4. LoopTruth'
    <3>1. loop'.pc \in {"unhold", "cancel"} => loop'.aborted = TRUE
      BY <1>5, <2>1 DEF OnTruth, LoopTruth, MovesTo
    <3>2. loop'.pc = "end" => (\A n \in Id : run'[n] = "off") /\ loop'.aborted = TRUE
      BY <1>1, <1>5 DEF MovesTo, Running, LoopOnly
    <3>3. loop'.pc # "begin"
      BY <1>5 DEF MovesTo
    <3>4. QED
      BY <3>1, <3>2, <3>3 DEF LoopTruth
  <2>5. QED
    BY <1>2, <1>3, <2>2, <2>3, <2>4 DEF TruthInv, OnTruth
<1>6. QED
  BY <1>4, <1>5, MovesFacts

\* A cancel of the approvals.
LEMMA CancelTrue ==
  ASSUME TypeInv, TruthInv, Cancel
  PROVE  TruthInv'
<1>1. OnTruth /\ loop.pc = "cancel" /\ row.status \notin {"absent", "success"}
  BY CancelFacts DEF TruthInv
<1>2. /\ UNCHANGED <<graph, row>> /\ approvals' = <<>> /\ hist'.amended = hist.amended
      /\ state' \in [Id -> State] /\ state \in [Id -> State]
  BY CancelFacts DEF TypeInv, Typed, HistStays
<1>3. ASSUME NEW n \in Id
      PROVE  /\ child'[n].status = child[n].status
             /\ run[n] = "asked" => run'[n] = "off" /\ state'[n] = [state[n] EXCEPT !.status = "canceled"]
             /\ run[n] # "asked" => run'[n] = run[n] /\ state'[n] = state[n]
  BY CancelFacts
<1>4. PICK pc \in {"read", "end"} : /\ LoopIs(pc, loop.seen, None, loop.aborted, loop.todo)
                                    /\ pc = "end" => \A n \in Id : run'[n] = "off"
  BY CancelFacts
<1>5. \A n \in Id : state'[n] = state[n] \/ ~Settles(state[n])
  BY <1>1, <1>2, <1>3 DEF OnTruth, NodeTruth, Settles, Begun, FINISHED
<1>6. ASSUME NEW n \in Id PROVE NodeTruth(state, n)'
  <2>1. NodeTruth(state, n)
    BY <1>1 DEF OnTruth
  <2>2. run[n] = "asked" => state'[n].status = "canceled" /\ state'[n].doNotRun = state[n].doNotRun
    <3>1. state[n] \in State
      BY <1>2
    <3>2. LET t == [state[n] EXCEPT !.status = "canceled"] IN t.status = "canceled" /\ t.doNotRun = state[n].doNotRun
      BY <3>1 DEF State
    <3>3. QED
      BY <1>3, <3>2
  <2>3. hist.amended = {} => Justified(graph, state', n)
    BY <1>2, <1>3, <1>5, <2>1, <2>2, JustifiedStays DEF NodeTruth
  <2>4. QED
    BY <1>2, <1>3, <2>1, <2>2, <2>3 DEF NodeTruth, Begun, FINISHED
<1>7. Asked'
  BY <1>2, <1>4 DEF Asked, LoopIs
<1>8. LoopTruth'
  BY <1>1, <1>4 DEF OnTruth, LoopTruth, LoopIs
<1>9. QED
  BY <1>1, <1>2, <1>3, <1>6, <1>7, <1>8 DEF TruthInv, OnTruth

\* An answer takes the first approval off the queue.
LEMMA AnswersTrue ==
  ASSUME TypeInv, TruthInv, Approved \/ Rejected \/ TimedOut
  PROVE  TruthInv'
<1>0. PICK status \in {"successful", "failed"} :
         /\ loop.pc = "answer" /\ UNCHANGED <<graph, child, hist>>
         /\ loop.waiting \in Id /\ approvals # <<>> /\ approvals' = Tail(approvals)
         /\ state' = [state EXCEPT ![loop.waiting].status = status]
         /\ run' = [run EXCEPT ![loop.waiting] = "off"]
         /\ LoopIs("next", loop.seen, None, loop.aborted, loop.todo)
  BY AnswersFacts
<1>1. PICK w \in Id : w = loop.waiting
  BY <1>0
<1>2. /\ OnTruth /\ row.status \notin {"absent", "success"} /\ state \in [Id -> State] /\ run \in [Id -> RunPc]
      /\ approvals \in Seq(Id)
  BY <1>0 DEF TruthInv, TypeInv, Typed, Shape
<1>3. w = Head(approvals) /\ run[w] = "asked" /\ 1 \in 1..Len(approvals)
  <2>1. w # None
    BY <1>0, <1>1 DEF TypeInv
  <2>2. w = Head(approvals)
    BY <1>1, <1>2, <2>1 DEF OnTruth, Asked
  <2>3. 1 \in 1..Len(approvals) /\ Head(approvals) = approvals[1]
    BY <1>0, <1>2
  <2>4. QED
    BY <1>2, <2>2, <2>3 DEF OnTruth, Asked
<1>4. RowStays
  BY MoveStays DEF Approved, Rejected, TimedOut, RowStays, TypeInv
<1>5. /\ state'[w] = [state[w] EXCEPT !.status = status] /\ run'[w] = "off"
      /\ \A n \in Id \ {w} : state'[n] = state[n] /\ run'[n] = run[n]
  BY <1>0, <1>1, <1>2
<1>6. \A n \in Id : state'[n] = state[n] \/ ~Settles(state[n])
  BY <1>2, <1>3, <1>5 DEF OnTruth, NodeTruth, Settles, Begun, FINISHED
<1>7. ASSUME NEW n \in Id PROVE NodeTruth(state, n)'
  <2>1. NodeTruth(state, n)
    BY <1>2 DEF OnTruth
  <2>2. n = w => state'[n].status = status /\ state'[n].doNotRun = state[n].doNotRun
    <3>1. state[n] \in State
      BY <1>2
    <3>2. LET t == [state[n] EXCEPT !.status = status] IN t.status = status /\ t.doNotRun = state[n].doNotRun
      BY <3>1 DEF State
    <3>3. QED
      BY <1>5, <3>2
  <2>3. hist.amended = {} => Justified(graph, state', n)
    BY <1>2, <1>5, <1>6, <2>1, <2>2, JustifiedStays DEF NodeTruth
  <2>4. QED
    BY <1>0, <1>3, <1>5, <2>1, <2>2, <2>3 DEF NodeTruth, Begun, FINISHED
<1>8. Asked'
  <2>1. /\ Len(Tail(approvals)) = Len(approvals) - 1
        /\ \A i \in 1..(Len(approvals) - 1) : Tail(approvals)[i] = approvals[i + 1] /\ i + 1 \in 1..Len(approvals)
    BY <1>0, <1>2
  <2>2. Len(approvals) \in Nat
    BY <1>2
  <2>3. ASSUME NEW i \in 1..Len(approvals') PROVE run'[approvals'[i]] = "asked"
    <3>1. approvals'[i] = approvals[i + 1] /\ i + 1 \in 1..Len(approvals) /\ i + 1 # 1
      BY <1>0, <2>1, <2>2
    <3>2. approvals[i + 1] \in Id /\ approvals[i + 1] # w /\ run[approvals[i + 1]] = "asked"
      BY <1>2, <1>3, <3>1 DEF OnTruth, Asked
    <3>3. QED
      BY <1>5, <3>1, <3>2
  <2>4. ASSUME NEW i \in 1..Len(approvals'), NEW j \in 1..Len(approvals'), approvals'[i] = approvals'[j] PROVE i = j
    <3>1. /\ approvals'[i] = approvals[i + 1] /\ i + 1 \in 1..Len(approvals)
          /\ approvals'[j] = approvals[j + 1] /\ j + 1 \in 1..Len(approvals)
      BY <1>0, <2>1
    <3>2. i + 1 = j + 1
      BY <1>2, <2>4, <3>1 DEF OnTruth, Asked
    <3>3. i \in Int /\ j \in Int
      BY <1>0, <2>1, <2>2
    <3>4. QED
      BY <3>2, <3>3
  <2>5. loop'.waiting = None
    BY <1>0 DEF LoopIs
  <2>6. QED
    BY <2>3, <2>4, <2>5 DEF Asked
<1>9. LoopTruth'
  BY <1>0 DEF LoopTruth, LoopIs
<1>10. \A n \in Id : child'[n].status \in ChildStatus
  BY <1>0 DEF TruthInv
<1>11. QED
  BY <1>2, <1>4, <1>7, <1>8, <1>9, <1>10 DEF TruthInv, OnTruth, RowStays

\* Nodes that were to start, start.
LEMMA BeginsTrue ==
  ASSUME WorkflowAssumption, TypeInv, TruthInv, loop.pc # "off", Around, UNCHANGED <<row, child, hist>>,
         NEW todo \in SUBSET Id, NEW state1 \in [Id -> State], Begins(todo, state1),
         \A n \in Id : NodeTruth(state1, n),
         \A n \in todo : run[n] = "off" /\ Undecided(state1[n]),
         hist.overtaken = FALSE => todo = Starts(graph, state1)
  PROVE  TruthInv'
<1> DEFINE q == InOrder(AskedOf(todo))
<1>1. /\ OnTruth /\ row.status \notin {"absent", "success"} /\ run \in [Id -> RunPc] /\ approvals \in Seq(Id)
      /\ graph' = graph
  BY DEF TruthInv, TypeInv, Typed, Shape, Around
<1>2. /\ state' \in [Id -> State] /\ approvals' = approvals \o q
      /\ loop'.pc \in {"read", "end"} /\ LoopIs(loop'.pc, loop.seen, loop.waiting, loop.aborted, {})
      /\ loop'.pc = "end" => \A n \in Id : run'[n] = "off"
  BY BeginsFacts
<1>3. ASSUME NEW n \in Id
      PROVE  /\ n \in todo => /\ state'[n] = [state1[n] EXCEPT !.status = "running"]
                              /\ run'[n] = IF n \in AskedOf(todo) THEN "asked" ELSE "launch"
             /\ n \notin todo => state'[n] = state1[n] /\ run'[n] = run[n]
  BY BeginsFacts
<1>4. /\ q \in Seq(Id) /\ Len(q) \in Nat
      /\ \A i \in 1..Len(q) : q[i] \in AskedOf(todo)
      /\ \A i, j \in 1..Len(q) : q[i] = q[j] => i = j
  <2>1. AskedOf(todo) \in SUBSET Id
    BY BeginsFacts
  <2>2. QED
    BY <2>1, InOrderFacts
<1> HIDE DEF q
<1>5. \A n \in Id : state'[n] = state1[n] \/ ~Settles(state1[n])
  BY <1>3 DEF Undecided, Settles, FINISHED, State
<1>6. ASSUME NEW n \in Id PROVE NodeTruth(state, n)'
  <2>1. NodeTruth(state1, n)
    OBVIOUS
  <2>2. n \in todo => /\ state'[n].status = "running" /\ state'[n].doNotRun = state1[n].doNotRun
                      /\ state1[n].status = "pending" /\ state1[n].doNotRun = FALSE
    <3>1. state1[n] \in State
      OBVIOUS
    <3>2. n \in todo => state1[n].status = "pending" /\ state1[n].doNotRun = FALSE
      BY <3>1 DEF Undecided, State
    <3>3. LET t == [state1[n] EXCEPT !.status = "running"] IN t.status = "running" /\ t.doNotRun = state1[n].doNotRun
      BY <3>1 DEF State
    <3>4. QED
      BY <1>3, <3>2, <3>3
  <2>3. hist.amended = {} => Justified(graph, state', n)
    BY <1>3, <1>5, <2>1, <2>2, JustifiedStays DEF NodeTruth
  <2>4. QED
    BY <1>1, <1>3, <2>1, <2>2, <2>3 DEF NodeTruth, Begun, FINISHED
<1>7. Asked'
  <2>1. /\ Len(approvals) \in Nat /\ Len(approvals') = Len(approvals) + Len(q)
        /\ \A i \in 1..Len(approvals') :
             \/ i \in 1..Len(approvals) /\ approvals'[i] = approvals[i]
             \/ i > Len(approvals) /\ i - Len(approvals) \in 1..Len(q) /\ approvals'[i] = q[i - Len(approvals)]
    BY <1>1, <1>2, <1>4
  <2>2. \A i \in 1..Len(approvals) : approvals[i] \in Id /\ run[approvals[i]] = "asked" /\ approvals[i] \notin todo
    <3>1. \A i \in 1..Len(approvals) : approvals[i] \in Id /\ run[approvals[i]] = "asked"
      BY <1>1 DEF OnTruth, Asked
    <3>2. \A n \in todo : run[n] # "asked"
      OBVIOUS
    <3>3. QED
      BY <3>1, <3>2
  <2>3. \A i \in 1..Len(q) : q[i] \in todo /\ run'[q[i]] = "asked"
    BY <1>3, <1>4 DEF AskedOf
  <2>4. ASSUME NEW i \in 1..Len(approvals') PROVE run'[approvals'[i]] = "asked"
    <3>1. CASE i \in 1..Len(approvals) /\ approvals'[i] = approvals[i]
      BY <1>3, <2>2, <3>1
    <3>2. CASE i - Len(approvals) \in 1..Len(q) /\ approvals'[i] = q[i - Len(approvals)]
      BY <2>3, <3>2
    <3>3. QED
      BY <2>1, <3>1, <3>2
  <2>5. ASSUME NEW i \in 1..Len(approvals'), NEW j \in 1..Len(approvals'), approvals'[i] = approvals'[j] PROVE i = j
    <3>1. CASE i \in 1..Len(approvals) /\ j \in 1..Len(approvals)
      BY <1>1, <2>1, <2>5, <3>1 DEF OnTruth, Asked
    <3>2. CASE i > Len(approvals) /\ j > Len(approvals)
      <4>1. i - Len(approvals) \in 1..Len(q) /\ approvals'[i] = q[i - Len(approvals)]
        BY <2>1, <3>2
      <4>2. j - Len(approvals) \in 1..Len(q) /\ approvals'[j] = q[j - Len(approvals)]
        BY <2>1, <3>2
      <4>3. PICK k \in 1..Len(q), m \in 1..Len(q) : k = i - Len(approvals) /\ m = j - Len(approvals)
        BY <4>1, <4>2
      <4>4. q[k] = q[m]
        BY <2>5, <4>1, <4>2, <4>3
      <4>5. k = m
        BY <1>4, <4>4
      <4>6. QED
        BY <2>1, <4>3, <4>5
    <3>3. QED
      BY <2>1, <2>2, <2>3, <2>5, <3>1, <3>2
  <2>6. loop'.waiting # None => loop'.waiting = Head(approvals')
    <3>1. CASE loop.waiting # None
      <4>1. approvals # <<>> /\ loop.waiting = Head(approvals)
        BY <1>1, <3>1 DEF OnTruth, Asked, TypeInv
      <4>2. Head(approvals') = Head(approvals)
        BY <1>1, <1>2, <1>4, <4>1
      <4>3. QED
        BY <1>2, <4>1, <4>2 DEF LoopIs
    <3>2. QED
      BY <1>2, <3>1 DEF LoopIs
  <2>7. QED
    BY <2>4, <2>5, <2>6 DEF Asked
<1>8. LoopTruth'
  <2>1. CASE loop'.pc = "end"
    <3>1. \A n \in Id : n \notin todo
      BY <1>2, <1>3, <2>1
    <3>2. state' = state1
      BY <1>2, <1>3, <3>1
    <3>3. hist'.overtaken = FALSE => Starts(graph', state') = {}
      BY <1>1, <3>1, <3>2
    <3>4. QED
      BY <1>2, <2>1, <3>3 DEF LoopTruth
  <2>2. QED
    BY <1>2, <2>1 DEF LoopTruth
<1>9. QED
  BY <1>1, <1>2, <1>6, <1>7, <1>8 DEF TruthInv, OnTruth

\* What the skips leave of the truth of a node, and what starts after them.
LEMMA SkipsTrue ==
  ASSUME TypeInv, OnTruth
  PROVE  /\ AfterSkips(graph, state) \in [Id -> State]
         /\ \A n \in Id : /\ NodeTruth(AfterSkips(graph, state), n)
                          /\ AfterSkips(graph, state)[n].status = state[n].status
         /\ Starts(graph, AfterSkips(graph, state)) \in SUBSET Id
         /\ \A n \in Starts(graph, AfterSkips(graph, state)) : run[n] = "off" /\ Undecided(AfterSkips(graph, state)[n])
<1>1. state \in [Id -> State] /\ run \in [Id -> RunPc] /\ \A n \in Id : NodeTruth(state, n)
  BY DEF TypeInv, Typed, Shape, OnTruth
<1>2. PICK g : g = graph
  OBVIOUS
<1>3. PICK st : st = state
  OBVIOUS
<1>4. PICK tt : tt = AfterSkips(g, st)
  OBVIOUS
<1>5. /\ tt \in [Id -> State]
      /\ \A n \in Id : /\ tt[n].status = st[n].status
                       /\ tt[n] = st[n] \/ (~Settles(st[n]) /\ st[n].status = "pending")
                       /\ hist.amended = {} => Justified(g, tt, n)
  BY <1>1, <1>2, <1>3, <1>4, AfterSkipsFacts DEF NodeTruth
<1>6. ASSUME NEW n \in Id PROVE NodeTruth(tt, n)
  <2>1. NodeTruth(st, n)
    BY <1>1, <1>3
  <2>2. QED
    BY <1>2, <1>5, <2>1 DEF NodeTruth
<1>7. ASSUME NEW n \in Starts(g, tt) PROVE n \in Id /\ run[n] = "off" /\ Undecided(tt[n])
  <2>1. n \in Id /\ Undecided(tt[n])
    BY DEF Starts
  <2>2. tt[n].status = "pending" /\ NodeTruth(tt, n)
    BY <1>6, <2>1 DEF Undecided
  <2>3. run[n] = "off"
    BY <1>1, <2>1, <2>2 DEF NodeTruth, RunPc, Begun, FINISHED
  <2>4. QED
    BY <2>1, <2>3
<1>8. QED
  BY <1>2, <1>3, <1>4, <1>5, <1>6, <1>7

\* The three ways in which nodes start.
LEMMA StartsTrue ==
  ASSUME WorkflowAssumption, TypeInv, TruthInv, NextStep \/ SlowSave \/ Begin
  PROVE  TruthInv'
<1>1. loop.pc \in {"next", "begin"} /\ OnTruth /\ row.status \notin {"absent", "success"}
  BY DEF NextStep, SlowSave, Begin, At, TruthInv
<1>2. CASE NextStep
  <2>1. PICK st : st = AfterSkips(graph, state)
    OBVIOUS
  <2>2. PICK todo : todo = Starts(graph, st)
    OBVIOUS
  <2>3. /\ st \in [Id -> State] /\ todo \in SUBSET Id
        /\ \A n \in Id : NodeTruth(st, n)
        /\ \A n \in todo : run[n] = "off" /\ Undecided(st[n])
    BY <1>1, <2>1, <2>2, SkipsTrue
  <2>4. Begins(todo, st) /\ Around /\ UNCHANGED <<row, child, hist>>
    BY <1>2, <2>1, <2>2 DEF NextStep, Jobs
  <2>5. QED
    BY <1>1, <2>2, <2>3, <2>4, BeginsTrue
<1>3. CASE Begin
  <2>1. PICK st : st = state
    OBVIOUS
  <2>2. PICK todo : todo = loop.todo
    OBVIOUS
  <2>3. /\ st \in [Id -> State] /\ todo \in SUBSET Id
        /\ \A n \in Id : NodeTruth(st, n)
    BY <1>1, <2>1, <2>2 DEF TypeInv, Typed, OnTruth
  <2>4. Begins(todo, st) /\ Around /\ UNCHANGED <<row, child, hist>> /\ loop.pc = "begin"
    BY <1>3, <2>1, <2>2 DEF Begin, Jobs, At
  <2>5. /\ \A n \in todo : run[n] = "off" /\ Undecided(st[n])
        /\ hist.overtaken = FALSE => todo = Starts(graph, st)
    BY <1>1, <2>1, <2>2, <2>4 DEF OnTruth, LoopTruth
  <2>6. QED
    BY <1>1, <2>3, <2>4, <2>5, BeginsTrue
<1>4. CASE SlowSave
  <2>1. PICK st : st = AfterSkips(graph, state)
    OBVIOUS
  <2>2. /\ \A n \in Id : NodeTruth(st, n)
        /\ \A n \in Starts(graph, st) : run[n] = "off" /\ Undecided(st[n])
    BY <1>1, <2>1, SkipsTrue
  <2>3. /\ UNCHANGED <<graph, row, run, child, approvals, hist>> /\ state' = st
        /\ LoopIs("begin", loop.seen, loop.waiting, loop.aborted, Starts(graph, state'))
    BY <1>4, <2>1, SlowSaveFacts
  <2>4. \A n \in Id : NodeTruth(state, n)'
    BY <2>2, <2>3 DEF NodeTruth
  <2>5. Asked'
    BY <1>1, <2>3 DEF OnTruth, Asked, LoopIs
  <2>6. LoopTruth'
    BY <2>2, <2>3 DEF LoopTruth, LoopIs
  <2>7. QED
    BY <1>1, <2>3, <2>4, <2>5, <2>6 DEF TruthInv, OnTruth
<1>5. QED
  BY <1>2, <1>3, <1>4

\* The end is a success when nothing runs, and what failed was handled.
LEMMA StopsTrue ==
  ASSUME TypeInv, TruthInv, End \/ LoopThrows
  PROVE  TruthInv'
<1>1. /\ LoopIs("off", "running", None, FALSE, {}) /\ UNCHANGED <<graph, run, child>>
  BY StopsFacts
<1>2. OnTruth /\ row.status \notin {"absent", "success"} /\ row \in Row
  BY DEF TruthInv, TypeInv, Shape, End, LoopThrows, At
<1>3. row' = row \/ \E o \in Outcome : row' = EndRow(row, o)
  BY DEF End, LoopThrows, Outcome
<1>4. row'.status # "absent"
  BY <1>2, <1>3, EndFacts DEF Outcome
<1>5. row'.status = "success" => Succeeded'
  <2>1. SUFFICES ASSUME row'.status = "success" PROVE Succeeded'
    OBVIOUS
  <2>2. End /\ ~loop.aborted /\ ~WorkflowFailed(graph, state)
    <3>1. CASE LoopThrows
      <4>1. row' = row \/ row' = EndRow(row, "failed")
        BY <3>1 DEF LoopThrows
      <4>2. QED
        BY <1>2, <2>1, <4>1, EndFacts DEF Outcome
    <3>2. CASE End
      <4>1. PICK o \in {"aborted", "failed", "success"} :
              /\ row' = EndRow(row, o)
              /\ o = "success" => ~loop.aborted /\ ~WorkflowFailed(graph, state)
        BY <3>2 DEF End
      <4>2. o = "success"
        BY <1>2, <2>1, <4>1, EndFacts DEF Outcome
      <4>3. QED
        BY <3>2, <4>1, <4>2
    <3>3. QED
      BY <3>1, <3>2
  <2>3. state' = state /\ loop.pc = "end"
    BY <2>2 DEF End, At
  <2>4. \A n \in Id : run[n] = "off" /\ NodeTruth(state, n)
    BY <1>2, <2>3 DEF OnTruth, LoopTruth
  <2>5. \A n \in Id : state[n].status = "failed" => Handled(graph, n)
    BY <2>2 DEF WorkflowFailed
  <2>6. QED
    BY <1>1, <2>3, <2>4, <2>5 DEF Succeeded, Fine, NodeTruth
<1>6. QED
  BY <1>1, <1>4, <1>5 DEF TruthInv, LoopIs

\* A node that ends: by what its job says, or as failed by a statement that throws.
LEMMA OverTrue ==
  ASSUME TypeInv, TruthInv, NEW n \in Id, NEW status \in FINISHED,
         UNCHANGED <<graph, row, child, loop, approvals>>,
         state' = [state EXCEPT ![n].status = status], run' = [run EXCEPT ![n] = "done"],
         hist'.overtaken = FALSE => hist.overtaken = FALSE /\ loop.pc # "begin",
         hist'.amended = {} => hist.amended = {} /\ run[n] # "done",
         run[n] \in {"launch", "pass", "wait", "done"},
         \/ run[n] = "launch" \/ (run[n] = "wait" /\ status = StatusOfJob(child[n]))
         \/ status = "failed"
  PROVE  TruthInv'
<1>3. row.status \notin {"absent", "success"} /\ child[n].status \in ChildStatus
  BY DEF TruthInv, Unstarted, Succeeded
<1>4. state \in [Id -> State] /\ run \in [Id -> RunPc] /\ approvals \in Seq(Id)
  BY DEF TypeInv, Typed, Shape
<1>5. CASE loop.pc = "off"
  BY <1>3, <1>5 DEF TruthInv
<1>6. CASE loop.pc # "off"
  <2>1. OnTruth
    BY <1>6 DEF TruthInv
  <2>2. /\ state'[n] = [state[n] EXCEPT !.status = status] /\ run'[n] = "done"
        /\ \A m \in Id \ {n} : state'[m] = state[m] /\ run'[m] = run[m]
    BY <1>4
  <2>3. state[n].status # "pending" /\ (run[n] # "done" => state[n].status = "running") /\ NodeTruth(state, n)
    BY <2>1 DEF OnTruth, NodeTruth, Begun, FINISHED
  <2>4. run[n] # "done" => \A m \in Id : state'[m] = state[m] \/ ~Settles(state[m])
    BY <2>2, <2>3 DEF NodeTruth, Settles, FINISHED
  <2>5. child[n].status \in {"absent", "success", "aborted"} \/ status = "failed"
    <3>1. CASE run[n] = "launch"
      BY <2>3, <3>1 DEF NodeTruth
    <3>2. CASE run[n] = "wait"
      BY <1>3, <3>2 DEF StatusOfJob, ChildStatus
    <3>3. QED
      BY <3>1, <3>2
  <2>6. ASSUME NEW m \in Id PROVE NodeTruth(state, m)'
    <3>1. NodeTruth(state, m)
      BY <2>1 DEF OnTruth
    <3>2. m = n => state'[m].status = status /\ state'[m].doNotRun = state[m].doNotRun
      <4>1. state[n] \in State
        BY <1>4
      <4>2. LET t == [state[n] EXCEPT !.status = status] IN t.status = status /\ t.doNotRun = state[n].doNotRun
        BY <4>1 DEF State
      <4>3. QED
        BY <2>2, <4>2
    <3>3. hist'.amended = {} => Justified(graph, state', m)
      BY <1>4, <2>2, <2>4, <3>1, <3>2, JustifiedStays DEF NodeTruth
    <3>4. CASE m = n
      <4>1. state'[n].status = status /\ state'[n].doNotRun = state[n].doNotRun
        BY <3>2, <3>4
      <4>2. state[n].doNotRun # TRUE
        BY <2>3 DEF NodeTruth
      <4>3. status # "running"
        BY DEF FINISHED
      <4>4. QED
        BY <2>2, <2>5, <3>3, <3>4, <4>1, <4>2, <4>3 DEF NodeTruth, Begun
    <3>5. CASE m # n
      BY <2>2, <3>1, <3>3, <3>5 DEF NodeTruth
    <3>6. QED
      BY <3>4, <3>5
  <2>7. Asked'
    <3>1. \A i \in 1..Len(approvals) : approvals[i] \in Id /\ run[approvals[i]] = "asked" /\ approvals[i] # n
      BY <1>4, <2>1 DEF OnTruth, Asked
    <3>2. QED
      BY <2>1, <2>2, <3>1 DEF OnTruth, Asked
  <2>8. LoopTruth'
    <3>1. loop.pc # "end"
      BY <2>1 DEF OnTruth, LoopTruth
    <3>2. CASE loop.pc = "begin"
      <4>1. loop.todo \in SUBSET Id
        BY DEF TypeInv, Typed
      <4>2. \A m \in loop.todo : m # n /\ run'[m] = "off" /\ Undecided(state'[m])
        BY <2>1, <2>2, <3>2, <4>1 DEF OnTruth, LoopTruth
      <4>3. QED
        BY <3>2, <4>2 DEF LoopTruth
    <3>3. QED
      BY <2>1, <3>1, <3>2 DEF OnTruth, LoopTruth
  <2>9. QED
    BY <1>3, <2>6, <2>7, <2>8 DEF TruthInv, OnTruth
<1>7. QED
  BY <1>5, <1>6

\* One that ends by what its job says.
LEMMA EndsTrue ==
  ASSUME TypeInv, TruthInv, NEW n \in Id, Ends(n)
  PROVE  TruthInv'
<1>1. PICK status \in FINISHED :
        /\ Finishes(n, status)
        /\ run[n] = "launch" \/ (run[n] = "wait" /\ status = StatusOfJob(child[n]))
  BY EndsFinish
<1>2. /\ UNCHANGED <<graph, row, child, loop, approvals>>
      /\ state' = [state EXCEPT ![n].status = status]
      /\ run' = [run EXCEPT ![n] = "done"]
      /\ hist'.overtaken = FALSE => hist.overtaken = FALSE /\ loop.pc # "begin"
      /\ hist'.amended = hist.amended
  BY <1>1, FinishesFacts
<1>3. /\ hist'.amended = {} => hist.amended = {} /\ run[n] # "done"
      /\ run[n] \in {"launch", "pass", "wait", "done"}
      /\ run[n] = "launch" \/ (run[n] = "wait" /\ status = StatusOfJob(child[n])) \/ status = "failed"
  BY <1>1, <1>2
<1>4. QED
  BY <1>2, <1>3, OverTrue

\* One whose statement throws.
LEMMA ThrowsTrue ==
  ASSUME TypeInv, TruthInv, NEW n \in Id, NodeThrows(n)
  PROVE  TruthInv'
<1>1. "failed" \in FINISHED
  BY DEF FINISHED
<1>2. PICK status \in FINISHED : status = "failed"
  BY <1>1
<1>3. /\ UNCHANGED <<graph, row, child, loop, approvals>>
      /\ state' = [state EXCEPT ![n].status = status] /\ run' = [run EXCEPT ![n] = "done"]
      /\ hist'.overtaken = FALSE => hist.overtaken = FALSE /\ loop.pc # "begin"
      /\ run[n] \in {"launch", "pass", "wait", "done"}
  BY <1>2, ThrowsFacts
<1>4. hist'.amended = {} => hist.amended = {} /\ run[n] # "done"
  BY ThrowsFacts
<1>5. QED
  BY <1>2, <1>3, <1>4, OverTrue

\* A node launches its job, looks for the abort, or leaves.
LEMMA NodeTrue ==
  ASSUME TypeInv, TruthInv, NEW n \in Id, LaunchNode(n) \/ PassAbort(n) \/ NodeLeaves(n)
  PROVE  TruthInv'
<1>1. PICK pc \in {"pass", "wait", "off"} :
        /\ UNCHANGED <<graph, row, state, loop, approvals, hist>> /\ run' = [run EXCEPT ![n] = pc]
        /\ <<run[n], pc>> \in {<<"launch", "pass">>, <<"pass", "wait">>, <<"done", "off">>}
        /\ pc = "off" => UNCHANGED child
  BY DEF LaunchNode, PassAbort, NodeLeaves, Around, Jobs
<1>2. /\ \A m \in Id \ {n} : child'[m] = child[m]
      /\ child'[n].status \in ChildStatus
  <2>1. child \in [Id -> Row] /\ child[n].status \in ChildStatus
    BY DEF TypeInv, Shape, TruthInv
  <2>2. StoreIdRow(CreateRow(child[n], Home)).status = "running" /\ RequestAbortRow(child[n]).status = child[n].status
    BY <2>1, AbortFacts DEF StoreIdRow, CreateRow, Row
  <2>3. QED
    BY <2>1, <2>2 DEF LaunchNode, PassAbort, NodeLeaves, Jobs, ChildStatus
<1>3. row.status \notin {"absent", "success"} /\ \A m \in Id : child'[m].status \in ChildStatus
  BY <1>1, <1>2 DEF TruthInv, Unstarted, Succeeded
<1>4. run \in [Id -> RunPc] /\ approvals \in Seq(Id) /\ loop.todo \in SUBSET Id
  BY DEF TypeInv, Typed, Shape
<1>5. CASE loop.pc = "off"
  BY <1>1, <1>3, <1>5 DEF TruthInv
<1>6. CASE loop.pc # "off"
  <2>1. OnTruth
    BY <1>6 DEF TruthInv
  <2>2. run'[n] = pc /\ \A m \in Id \ {n} : run'[m] = run[m]
    BY <1>1, <1>4
  <2>3. ASSUME NEW m \in Id PROVE NodeTruth(state, m)'
    <3>1. NodeTruth(state, m)
      BY <2>1 DEF OnTruth
    <3>2. CASE m = n
      BY <1>1, <2>2, <3>1, <3>2 DEF NodeTruth, Begun, FINISHED
    <3>3. CASE m # n
      BY <1>1, <1>2, <2>2, <3>1, <3>3 DEF NodeTruth
    <3>4. QED
      BY <3>2, <3>3
  <2>4. Asked'
    <3>1. \A i \in 1..Len(approvals) : approvals[i] \in Id /\ run[approvals[i]] = "asked" /\ approvals[i] # n
      BY <1>1, <1>4, <2>1 DEF OnTruth, Asked
    <3>2. QED
      BY <1>1, <2>1, <2>2, <3>1 DEF OnTruth, Asked
  <2>5. LoopTruth'
    <3>1. loop.pc # "end"
      BY <1>1, <2>1 DEF OnTruth, LoopTruth
    <3>2. loop.pc = "begin" => \A m \in loop.todo : run'[m] = "off"
      BY <1>1, <1>4, <2>1, <2>2 DEF OnTruth, LoopTruth
    <3>3. QED
      BY <1>1, <2>1, <3>1, <3>2 DEF OnTruth, LoopTruth
  <2>6. QED
    BY <1>1, <1>3, <2>3, <2>4, <2>5 DEF TruthInv, OnTruth
<1>7. QED
  BY <1>5, <1>6

\* What may become of a job next to the loop: one that runs or is adrift ends, is given up or is
\* followed again.
ChildMoves(r, s) ==
  s.status = r.status \/ (r.status \in {"running", "abandoned"} /\ s.status \in ChildStatus \ {"absent"})

\* The statements on a job.
LEMMA ChildStatements ==
  ASSUME NEW r \in Row, r.status \in ChildStatus
  PROVE  /\ ChildMoves(r, RequestAbortRow(r))
         /\ \A o \in {"success", "failed", "aborted"} : ChildMoves(r, EndRow(r, o))
         /\ \A s : Swept(r, s) => ChildMoves(r, s)
         /\ \A m \in Node : ChildMoves(r, ClaimRow(r, r.tracker, m))
<1>1. ChildMoves(r, RequestAbortRow(r))
  BY AbortFacts DEF ChildMoves
<1>2. ASSUME NEW o \in {"success", "failed", "aborted"} PROVE ChildMoves(r, EndRow(r, o))
  <2>1. CASE r.status \in {"running", "abandoned"}
    BY <2>1, EndFacts DEF ChildMoves, ChildStatus, Outcome
  <2>2. CASE r.status \notin {"running", "abandoned"}
    BY <2>2 DEF ChildMoves, EndRow, TransitionStatus, ENDS_FROM
  <2>3. QED
    BY <2>1, <2>2
<1>3. ASSUME NEW s, Swept(r, s) PROVE ChildMoves(r, s)
  <2>1. CASE s = r
    BY <2>1 DEF ChildMoves
  <2>2. CASE UnderWay(r) /\ s = AbandonedRow(r)
    BY <2>2 DEF ChildMoves, ChildStatus, UnderWay, AbandonedRow, Row
  <2>3. QED
    BY <1>3, <2>1, <2>2 DEF Swept
<1>4. ASSUME NEW m \in Node PROVE ChildMoves(r, ClaimRow(r, r.tracker, m))
  BY DEF ChildMoves, ChildStatus, ClaimRow, Claimable, Row
<1>5. QED
  BY <1>1, <1>2, <1>3, <1>4

\* The sweeps of dead nodes and of a start.
LEMMA SweepIsSwept ==
  ASSUME NEW r \in Row
  PROVE  /\ Swept(r, AbandonOwnRow(r, Home, FALSE))
         /\ Swept(r, AbandonDeadRow(r, Worker, Recent, {}))
  BY DEF Swept, AbandonOwnRow, AbandonDeadRow

\* Each job next to the loop moves so.
LEMMA OuterChildren ==
  ASSUME WorkflowAssumption, TypeInv, TruthInv, Outer, NEW n \in Id
  PROVE  ChildMoves(child[n], child'[n])
<1>1. child \in [Id -> Row] /\ child[n] \in Row /\ child[n].status \in ChildStatus
  BY DEF TypeInv, Shape, TruthInv
<1>2. CASE Approve \/ Reject \/ Abort \/ Lapse \/ Heartbeat \/ SweepQuiet \/ \E m \in Id : EndLost(m) \/ \E w \in Node : EndParent(m, w)
  BY <1>2 DEF Approve, Reject, Abort, Lapse, Heartbeat, SweepQuiet, EndLost, EndParent, Jobs, ChildMoves
<1>3. CASE AbortJobs \/ \E m \in Id : AbortNode(m)
  <2>1. child'[n] \in {child[n], RequestAbortRow(child[n])}
    BY <1>1, <1>3, TellTells DEF AbortJobs, AbortNode
  <2>2. QED
    BY <1>1, <2>1, ChildStatements DEF ChildMoves
<1>4. CASE Restart \/ SweepDead
  <2>1. child'[n] \in {AbandonOwnRow(child[n], Home, FALSE), AbandonDeadRow(child[n], Worker, Recent, {})}
    BY <1>4 DEF Restart, SweepDead
  <2>2. Swept(child[n], child'[n])
    BY <1>1, <2>1, SweepIsSwept
  <2>3. QED
    BY <1>1, <2>2, ChildStatements
<1>5. ASSUME NEW m \in Id, ChildEnds(m) PROVE ChildMoves(child[n], child'[n])
  <2>1. PICK o \in {"success", "failed", "aborted"} : child' = [child EXCEPT ![m] = EndRow(child[m], o)]
    BY <1>5 DEF ChildEnds
  <2>2. child'[n] \in {child[n], EndRow(child[n], o)}
    BY <1>1, <2>1
  <2>3. QED
    BY <1>1, <2>2, ChildStatements DEF ChildMoves
<1>6. ASSUME NEW m \in Id, NEW w \in {Worker, Home}, TakeOver(m, w) PROVE ChildMoves(child[n], child'[n])
  <2>1. child'[n] \in {child[n], ClaimRow(child[n], child[n].tracker, w)} /\ w \in Node
    BY <1>1, <1>6 DEF TakeOver, WorkflowAssumption
  <2>2. QED
    BY <1>1, <2>1, ChildStatements DEF ChildMoves
<1>7. QED
  BY <1>2, <1>3, <1>4, <1>5, <1>6 DEF Outer

\* No request and no sweep makes a success of the row.
LEMMA OuterRow == ASSUME WorkflowAssumption, TypeInv, Outer PROVE RowStays
<1>1. Shape /\ row \in Row
  BY DEF TypeInv, Shape
<1>2. CASE Approve \/ Reject
  BY <1>1, <1>2, MoveStays DEF Approve, Reject, RejectRow
<1>3. CASE Abort
  BY <1>1, <1>3, AbortFacts DEF Abort, RowStays
<1>4. CASE Restart \/ SweepDead \/ SweepQuiet
  <2>1. Swept(row, row')
    <3>1. Swept(row, AbandonQuietRow(row))
      BY DEF AbandonQuietRow, Swept, UnderWay
    <3>2. QED
      BY <1>1, <1>4, <3>1, SweepIsSwept DEF Restart, SweepDead, SweepQuiet
  <2>2. row' = row \/ row'.status = "abandoned"
    BY <1>1, <2>1, SweepFacts
  <2>3. QED
    BY <2>2 DEF RowStays
<1>5. CASE AbortJobs \/ (\E n \in Id : AbortNode(n)) \/ Lapse \/ Heartbeat
           \/ \E n \in Id : ChildEnds(n) \/ EndLost(n) \/ TakeOver(n, Worker) \/ TakeOver(n, Home)
  BY <1>5 DEF AbortJobs, AbortNode, Lapse, Heartbeat, ChildEnds, EndLost, TakeOver, RowStays
<1>6. CASE \E n \in Id, m \in Node : EndParent(n, m)
  BY <1>1, <1>6, EndFacts DEF EndParent, Outcome, RowStays
<1>7. QED
  BY <1>2, <1>3, <1>4, <1>5, <1>6 DEF Outer

\* The steps next to the loop leave it true: a job that did well stays so.
LEMMA OuterTrue ==
  ASSUME WorkflowAssumption, TypeInv, TruthInv, Outer
  PROVE  TruthInv'
<1>1. Outside /\ RowStays /\ \A n \in Id : ChildMoves(child[n], child'[n])
  BY OuterOutside, OuterRow, OuterChildren
<1>2. \A n \in Id : /\ child'[n].status \in ChildStatus
                    /\ child[n].status \in {"absent", "success", "aborted"} => child'[n].status = child[n].status
  BY <1>1 DEF ChildMoves, TruthInv, ChildStatus
<1>3. row'.status = "absent" => Unstarted'
  BY <1>1, <1>2 DEF RowStays, TruthInv, Unstarted, Outside
<1>4. row'.status = "success" => Succeeded'
  BY <1>1, <1>2 DEF RowStays, TruthInv, Succeeded, Fine, Outside
<1>5. loop'.pc # "off" => OnTruth'
  <2>1. SUFFICES ASSUME loop.pc # "off" PROVE OnTruth'
    BY <1>1 DEF Outside
  <2>2. OnTruth
    BY <2>1 DEF TruthInv
  <2>3. \A n \in Id : NodeTruth(state, n)'
    BY <1>1, <1>2, <2>2 DEF OnTruth, NodeTruth, Outside, HistStays
  <2>4. Asked' /\ LoopTruth'
    BY <1>1, <2>2 DEF OnTruth, Asked, LoopTruth, Outside, HistStays
  <2>5. QED
    BY <2>3, <2>4 DEF OnTruth
<1>6. QED
  BY <1>1, <1>2, <1>3, <1>4, <1>5 DEF TruthInv, RowStays, Outside

\* A workflow begins with nothing that ran.
LEMMA LaunchTrue == ASSUME TypeInv, TruthInv, Launch PROVE TruthInv'
<1>1. /\ Unstarted /\ LoopIs("find", "running", None, FALSE, {})
      /\ UNCHANGED <<graph, state, run, approvals, child, hist>>
  BY LaunchFacts DEF TruthInv
<1>2. row'.status = "running"
  BY DEF Launch, CreateRow, TypeInv, Shape, Row
<1>3. \A n \in Id : NodeTruth(state, n)'
  BY <1>1 DEF Unstarted, NodeTruth, Begun, Justified
<1>4. Asked' /\ LoopTruth'
  BY <1>1 DEF Unstarted, Asked, LoopTruth, LoopIs
<1>5. QED
  BY <1>1, <1>2, <1>3, <1>4 DEF TruthInv, OnTruth

\* A process that stops leaves the rows as they are.
LEMMA CrashTrue == ASSUME TruthInv, Crash PROVE TruthInv'
<1>1. /\ LoopIs("off", "running", None, FALSE, {}) /\ approvals' = <<>> /\ \A n \in Id : run'[n] = "off"
      /\ UNCHANGED <<graph, row, state, child>>
  BY CrashFacts
<1>2. QED
  BY <1>1 DEF TruthInv, LoopIs, Unstarted, Succeeded, Fine

\* Every step.
LEMMA TruthNext == ASSUME WorkflowAssumption, TypeInv, TruthInv, [Next]_vars PROVE TruthInv'
<1>1. CASE UNCHANGED vars
  BY <1>1 DEF vars, TruthInv, OnTruth, NodeTruth, Asked, LoopTruth, Unstarted, Succeeded, Fine
<1>2. CASE LoopStep
  BY <1>2, MovesTrue, CancelTrue, AnswersTrue, StartsTrue, StopsTrue DEF LoopStep, Moves
<1>3. ASSUME NEW n \in Id, NodeStep(n) \/ NodeThrows(n) PROVE TruthInv'
  BY <1>3, EndsTrue, NodeTrue, ThrowsTrue DEF NodeStep, Ends
<1>4. QED
  BY <1>1, <1>2, <1>3, Kinds, StartsTrue, StopsTrue, LaunchTrue, CrashTrue, OuterTrue

\* Nothing ran at first.
LEMMA TruthInit == ASSUME Init PROVE TruthInv
<1>1. loop.pc = "off"
  BY DEF Init, Off
<1>2. row.status = "absent" /\ \A n \in Id : child[n].status = "absent"
  BY DEF Init, AbsentRow
<1>3. QED
  BY <1>1, <1>2 DEF Init, TruthInv, Unstarted, ChildStatus

\* A workflow that ends by itself forgot nothing: no node runs, and the ones that never ran could not
\* have, in any future of the graph, unless a node ended during a slow save or its end became a failure;
\* and it reads success only when each of its jobs did well or what came of it was handled. For any workflow, any number of nodes,
\* answers, aborts, sweeps and faults.
THEOREM TruthfulWorkflowHolds == Spec => []TruthfulWorkflow
<1>1. Init => WorkflowInv /\ TypeInv /\ TruthInv
  BY WorkflowInit, TypeInit, TruthInit, WorkflowAssumption, NoNodeAssumption
<1>2. WorkflowInv /\ TypeInv /\ TruthInv /\ [Next]_vars => WorkflowInv' /\ TypeInv' /\ TruthInv'
  BY WorkflowStep, TypeNext, TruthNext, WorkflowAssumption, NoNodeAssumption DEF WorkflowInv
<1>3. TypeInv /\ TruthInv => TruthfulWorkflow
  <2>1. SUFFICES ASSUME TypeInv, TruthInv PROVE TruthfulWorkflow
    OBVIOUS
  <2>2. ASSUME At("end"), ~loop.aborted, ~hist.overtaken, hist.amended = {} PROVE Running = {} /\ MayRun(graph, state) = {}
    <3>1. OnTruth /\ loop.pc = "end"
      BY <2>1, <2>2 DEF TruthInv, At
    <3>2. loop.aborted = FALSE /\ hist.overtaken = FALSE /\ state \in [Id -> State]
      BY <2>1, <2>2 DEF TypeInv, Shape, Typed, Hist
    <3>3. (\A n \in Id : run[n] = "off") /\ Starts(graph, state) = {}
      BY <3>1, <3>2 DEF OnTruth, LoopTruth
    <3>4. \A n \in Id : /\ state[n].status # "running" /\ Justified(graph, state, n)
                        /\ state[n].doNotRun = TRUE => state[n].status = "pending"
      BY <2>2, <3>1, <3>3 DEF OnTruth, NodeTruth, Begun
    <3>5. MayRun(graph, state) = {}
      BY <3>2, <3>3, <3>4, NothingLeft
    <3>6. QED
      BY <3>3, <3>5 DEF Running
  <2>3. row.status = "success" =>
          \A n \in Id : Handled(graph, n) \/ child[n].status \in {"absent", "success", "aborted"}
    BY <2>1 DEF TruthInv, Succeeded, Fine
  <2>4. QED
    BY <2>2, <2>3 DEF TruthfulWorkflow
<1>4. QED
  BY <1>1, <1>2, <1>3, PTL DEF Spec

-----------------------------------------------------------------------------
(* A node is launched once                                                 *)

\* A node whose run goes on reads running, or an end that is being written; one that is to launch its job
\* has none yet, and one that has not started neither.
OnceAt(n) ==
  /\ run[n] \in {"launch", "pass", "wait"} => state[n].status = "running"
  /\ run[n] = "launch" => state[n].doNotRun = FALSE /\ child[n].status = "absent"
  /\ run[n] = "done" => state[n].status \in FINISHED
  /\ state[n].status = "pending" => run[n] = "off" /\ child[n].status = "absent"

\* A job, once there, is not created again, and a node that was skipped gets none: one row per node is
\* all a workflow has (runChild).
NodeOnce == [][\A n \in Id : LaunchNode(n) => child[n].status = "absent" /\ state[n].doNotRun = FALSE]_vars

\* The nodes that start.
LEMMA StartsOnce ==
  ASSUME WorkflowAssumption, TypeInv, NEW todo \in SUBSET Id, NEW state1 \in [Id -> State], Begins(todo, state1),
         UNCHANGED child, NEW n \in Id, OnceAt(n), n \in todo => Undecided(state1[n]),
         state1[n] = state[n] \/ (state[n].status = "pending" /\ state1[n].status = "pending")
  PROVE  OnceAt(n)'
<1>1. /\ n \in todo => state'[n] = [state1[n] EXCEPT !.status = "running"] /\ run'[n] \in {"asked", "launch"}
      /\ n \notin todo => state'[n] = state1[n] /\ run'[n] = run[n]
  BY BeginsFacts
<1>2. state1[n] \in State
  OBVIOUS
<1>3. CASE n \in todo
  <2>1. state1[n].status = "pending" /\ state1[n].doNotRun = FALSE
    BY <1>2, <1>3 DEF Undecided, State
  <2>2. state'[n].status = "running" /\ state'[n].doNotRun = FALSE
    BY <1>1, <1>2, <1>3, <2>1 DEF State
  <2>3. child'[n].status = "absent"
    BY <2>1 DEF OnceAt
  <2>4. QED
    BY <1>1, <1>3, <2>2, <2>3 DEF OnceAt
<1>4. CASE n \notin todo
  BY <1>1, <1>4 DEF OnceAt
<1>5. QED
  BY <1>3, <1>4

\* A step of the loop.
LEMMA LoopOnce ==
  ASSUME WorkflowAssumption, TypeInv, TruthInv, NEW n \in Id, OnceAt(n), LoopStep \/ SlowSave \/ LoopThrows
  PROVE  OnceAt(n)'
<1>1. CASE Moves
  BY <1>1, MovesOnly DEF LoopOnly, OnceAt
<1>2. CASE Cancel
  <2>1. /\ child'[n].status = child[n].status /\ state[n] \in State
        /\ run[n] = "asked" => run'[n] = "off" /\ state'[n] = [state[n] EXCEPT !.status = "canceled"]
        /\ run[n] # "asked" => run'[n] = run[n] /\ state'[n] = state[n]
    BY <1>2, CancelFacts DEF TypeInv, Typed
  <2>2. [state[n] EXCEPT !.status = "canceled"].status = "canceled"
    BY <2>1 DEF State
  <2>3. QED
    BY <2>1, <2>2 DEF OnceAt
<1>3. CASE Approved \/ Rejected \/ TimedOut
  <2>1. PICK status \in {"successful", "failed"} :
          /\ UNCHANGED child /\ loop.waiting \in Id
          /\ state' = [state EXCEPT ![loop.waiting].status = status]
          /\ run' = [run EXCEPT ![loop.waiting] = "off"]
    BY <1>3, AnswersFacts
  <2>2. PICK w \in Id : w = loop.waiting
    BY <2>1
  <2>3. state \in [Id -> State] /\ run \in [Id -> RunPc]
    BY DEF TypeInv, Typed, Shape
  <2>4. [state[w] EXCEPT !.status = status].status = status
    BY <2>3 DEF State
  <2>5. /\ n = w => state'[n] = [state[w] EXCEPT !.status = status] /\ run'[n] = "off"
        /\ n # w => state'[n] = state[n] /\ run'[n] = run[n]
    BY <2>1, <2>2, <2>3
  <2>6. QED
    BY <2>1, <2>4, <2>5 DEF OnceAt
<1>4. CASE NextStep \/ SlowSave
  <2>1. PICK st : st = AfterSkips(graph, state)
    OBVIOUS
  <2>2. state \in [Id -> State] /\ OnTruth
    BY <1>4 DEF TypeInv, Typed, TruthInv, NextStep, SlowSave, At
  <2>3. /\ st \in [Id -> State]
        /\ st[n].status = state[n].status /\ (st[n] = state[n] \/ state[n].status = "pending")
    BY <2>1, <2>2, AfterSkipsFacts
  <2>4. CASE SlowSave
    BY <2>1, <2>3, <2>4, SlowSaveFacts DEF OnceAt
  <2>5. CASE NextStep
    <3>1. PICK todo : todo = Starts(graph, st)
      OBVIOUS
    <3>2. Begins(todo, st) /\ UNCHANGED child
      BY <2>1, <2>5, <3>1 DEF NextStep, Jobs
    <3>3. todo \in SUBSET Id /\ (n \in todo => Undecided(st[n]))
      BY <3>1 DEF Starts
    <3>4. QED
      BY <2>3, <3>2, <3>3, StartsOnce
  <2>6. QED
    BY <1>4, <2>4, <2>5
<1>5. CASE Begin
  <2>1. PICK st : st = state
    OBVIOUS
  <2>2. PICK todo : todo = loop.todo
    OBVIOUS
  <2>3. st \in [Id -> State] /\ todo \in SUBSET Id /\ Begins(todo, st) /\ UNCHANGED child /\ loop.pc = "begin"
    BY <1>5, <2>1, <2>2 DEF TypeInv, Typed, Begin, Jobs, At
  <2>4. n \in todo => Undecided(st[n])
    BY <2>1, <2>2, <2>3 DEF TruthInv, OnTruth, LoopTruth
  <2>5. QED
    BY <2>1, <2>3, <2>4, StartsOnce
<1>6. CASE End \/ LoopThrows
  <2>1. UNCHANGED <<run, child>> /\ state[n] \in State
    BY <1>6, StopsFacts DEF TypeInv, Typed
  <2>2. PICK b : b = (state[n].doNotRun \/ state[n].status = "pending")
    OBVIOUS
  <2>3. state'[n] \in {state[n], [state[n] EXCEPT !.doNotRun = b]}
    BY <1>6, <2>2 DEF End, LoopThrows, Nodes
  <2>4. LET s == [state[n] EXCEPT !.doNotRun = b] IN s.status = state[n].status /\ s.doNotRun = b
    BY <2>1 DEF State
  <2>5. state'[n].status = state[n].status
    BY <2>3, <2>4
  <2>6. state[n].status = "running" /\ state[n].doNotRun = FALSE => state'[n].doNotRun = FALSE
    BY <2>2, <2>3, <2>4
  <2>7. QED
    BY <2>1, <2>5, <2>6 DEF OnceAt
<1>7. QED
  BY <1>1, <1>2, <1>3, <1>4, <1>5, <1>6 DEF LoopStep, Moves

\* A node that ends.
LEMMA EndedOnce ==
  ASSUME state \in [Id -> State], run \in [Id -> RunPc], UNCHANGED child,
         NEW m \in Id, NEW status \in FINISHED,
         state' = [state EXCEPT ![m].status = status], run' = [run EXCEPT ![m] = "done"],
         NEW n \in Id, OnceAt(n)
  PROVE  OnceAt(n)'
<1>1. [state[m] EXCEPT !.status = status].status = status /\ status # "pending"
  BY DEF State, FINISHED
<1>2. /\ n = m => state'[n] = [state[m] EXCEPT !.status = status] /\ run'[n] = "done"
      /\ n # m => state'[n] = state[n] /\ run'[n] = run[n]
  OBVIOUS
<1>3. QED
  BY <1>1, <1>2 DEF OnceAt

\* A step of the run of one node.
LEMMA RunOnce ==
  ASSUME TypeInv, NEW m \in Id, NodeStep(m), NEW n \in Id, OnceAt(n)
  PROVE  OnceAt(n)'
<1>1. state \in [Id -> State] /\ run \in [Id -> RunPc] /\ child \in [Id -> Row]
  BY DEF TypeInv, Typed, Shape
<1>2. CASE Ends(m)
  <2>1. PICK status \in FINISHED : Finishes(m, status)
    BY <1>2, EndsFinish
  <2>2. /\ UNCHANGED child /\ state' = [state EXCEPT ![m].status = status]
        /\ run' = [run EXCEPT ![m] = "done"]
    BY <2>1, FinishesFacts
  <2>3. QED
    BY <1>1, <2>2, EndedOnce
<1>3. CASE LaunchNode(m) \/ PassAbort(m) \/ NodeLeaves(m)
  <2>1. PICK pc \in {"pass", "wait", "off"} :
          /\ run' = [run EXCEPT ![m] = pc] /\ UNCHANGED state /\ run[m] # "off"
          /\ pc # "off" => run[m] \in {"launch", "pass"}
    BY <1>3 DEF LaunchNode, PassAbort, NodeLeaves
  <2>2. n # m => child'[n] = child[n]
    BY <1>1, <1>3 DEF LaunchNode, PassAbort, NodeLeaves, Jobs
  <2>3. /\ n = m => run'[n] = pc
        /\ n # m => run'[n] = run[n]
    BY <1>1, <2>1
  <2>4. QED
    BY <2>1, <2>2, <2>3 DEF OnceAt
<1>4. QED
  BY <1>2, <1>3 DEF NodeStep, Ends

\* Every step.
LEMMA OnceNext ==
  ASSUME WorkflowAssumption, TypeInv, TruthInv, NEW n \in Id, OnceAt(n), [Next]_vars
  PROVE  OnceAt(n)'
<1>1. CASE Launch
  BY <1>1, LaunchFacts DEF OnceAt
<1>2. CASE Crash
  BY <1>2, CrashFacts DEF OnceAt
<1>3. CASE Outer
  BY <1>3, OuterOutside, OuterChildren DEF Outside, ChildMoves, OnceAt
<1>4. ASSUME NEW m \in Id, NodeThrows(m) PROVE OnceAt(n)'
  <2>1. "failed" \in FINISHED /\ state \in [Id -> State] /\ run \in [Id -> RunPc]
    BY DEF FINISHED, TypeInv, Typed, Shape
  <2>2. /\ UNCHANGED child /\ state' = [state EXCEPT ![m].status = "failed"]
        /\ run' = [run EXCEPT ![m] = "done"]
    BY <1>4, ThrowsFacts
  <2>3. QED
    BY <2>1, <2>2, EndedOnce
<1>5. CASE UNCHANGED vars
  BY <1>5 DEF vars, OnceAt
<1>6. QED
  BY <1>1, <1>2, <1>3, <1>4, <1>5, Kinds, LoopOnce, RunOnce

\* A node gets one job at most, whatever is aborted, given up or throws, and whichever process goes on with
\* it; a node that was skipped gets none. For any workflow and any number of faults.
THEOREM NodeOnceHolds == Spec => NodeOnce
<1> DEFINE Once == \A n \in Id : OnceAt(n)
<1>1. Init => WorkflowInv /\ TypeInv /\ TruthInv /\ Once
  <2>1. Init => Once
    BY DEF Init, OnceAt, AbsentRow
  <2>2. QED
    BY <2>1, WorkflowInit, TypeInit, TruthInit, WorkflowAssumption, NoNodeAssumption
<1>2. WorkflowInv /\ TypeInv /\ TruthInv /\ Once /\ [Next]_vars => WorkflowInv' /\ TypeInv' /\ TruthInv' /\ Once'
  BY OnceNext, WorkflowStep, TypeNext, TruthNext, WorkflowAssumption, NoNodeAssumption DEF WorkflowInv
<1>3. Once => \A n \in Id : LaunchNode(n) => child[n].status = "absent" /\ state[n].doNotRun = FALSE
  BY DEF OnceAt, LaunchNode
<1> HIDE DEF Once
<1>4. QED
  BY <1>1, <1>2, <1>3, PTL DEF Spec, NodeOnce

-----------------------------------------------------------------------------
(* An abort reaches every job                                              *)

\* While there is a loop, a job is followed by its process, or settled, or the writing of its end failed.
Watched(n) ==
  loop.pc # "off" /\ child[n].status # "absent" =>
    \/ follower[n] = Home \/ child[n].end \/ FollowedElsewhere(child[n], Home)
    \/ n \in hist.unwatched

\* A job that runs was told of the abort, but for the statements that failed.
Told(n) ==
  child[n].status = "running" /\ ~Settled(n) /\ n \notin hist.untold \cup hist.unwatched => child[n].abort_requested

\* The loop has acted on an abort of a workflow that may go on.
Acted == loop.aborted /\ loop.pc \notin {"off", "unhold", "cancel"} /\ Live(row)

\* Such a workflow is flagged, and who flagged it has looked for its jobs.
Flagged == loop.pc # "off" /\ Live(row) /\ row.abort_requested /\ ~aborting

\* The loop told the jobs that had a run, the request those that had none any more: a run that goes on
\* looks for the flag itself.
Heard ==
  /\ Acted => \A n \in Id : run[n] \in {"wait", "done"} => Told(n)
  /\ Flagged => \A n \in Id : run[n] \notin {"launch", "pass"} => Told(n)

\* What is asked of a step, of one node: only a run that looks for the flag begins to wait, one that has
\* looked has told its job, and the others stay told.
Tells(n) ==
  /\ run'[n] \in {"wait", "done"} => run[n] \in {"launch", "pass", "wait", "done"}
  /\ run[n] \in {"launch", "pass"} /\ run'[n] \notin {"launch", "pass"} /\ row'.abort_requested => Told(n)'
  /\ run[n] \notin {"launch", "pass"} /\ Told(n) => Told(n)'

\* Then the abort is heard, by a loop or a request that had acted on it before.
LEMMA HeardStays ==
  ASSUME FlagKept', Heard, loop'.pc # "off" => \A n \in Id : Tells(n), Acted' => Acted, Flagged' => Flagged
  PROVE  Heard'
<1>1. ASSUME Acted', NEW n \in Id, run'[n] \in {"wait", "done"} PROVE Told(n)'
  <2>1. Acted /\ row'.abort_requested /\ Tells(n)
    BY <1>1 DEF Acted, FlagKept
  <2>2. QED
    BY <1>1, <2>1 DEF Heard, Tells
<1>2. ASSUME Flagged', NEW n \in Id, run'[n] \notin {"launch", "pass"} PROVE Told(n)'
  <2>1. Flagged /\ row'.abort_requested /\ Tells(n)
    BY <1>2 DEF Flagged
  <2>2. QED
    BY <1>2, <2>1 DEF Heard, Tells
<1>3. QED
  BY <1>1, <1>2 DEF Heard

\* A row that may go on could before, and no flag came up.
Unasked == Live(row') => Live(row) /\ (row'.abort_requested => row.abort_requested)

\* The loop goes on as it was: one that acts on an abort has yet to tell.
Drives ==
  \/ loop'.pc \in {"off", "unhold", "cancel"} /\ (loop'.pc # "off" => loop.pc # "off")
  \/ loop'.aborted = loop.aborted /\ loop.pc \notin {"off", "unhold", "cancel"}

\* Then neither the loop nor the request comes to have acted.
LEMMA DrivesFacts ==
  ASSUME Drives, Unasked \/ loop'.pc = "off", UNCHANGED aborting
  PROVE  /\ Acted' => Acted
         /\ Flagged' => Flagged
  BY DEF Drives, Unasked, Acted, Flagged

\* A job nothing happens to stays told and watched.
LEMMA SameJob ==
  ASSUME NEW n \in Id, child'[n] = child[n], follower'[n] = follower[n],
         hist.untold \subseteq hist'.untold, hist.unwatched \subseteq hist'.unwatched,
         loop'.pc # "off" => loop.pc # "off"
  PROVE  /\ Told(n) => Told(n)'
         /\ Watched(n) => Watched(n)'
  BY DEF Told, Watched, Settled

\* A loop that is over acts on nothing.
Rested == loop.pc = "off" => loop.aborted = FALSE

\* The whole of it.
AbortInv == Heard /\ \A n \in Id : Watched(n)

\* A step of the loop that leaves the jobs alone.
LEMMA DrivesOn ==
  ASSUME FlagKept', AbortInv, UNCHANGED <<child, follower, aborting>>,
         loop'.pc # "off" => UNCHANGED <<hist.untold, hist.unwatched>>,
         Drives, Unasked \/ loop'.pc = "off",
         loop'.pc # "off" =>
           \A n \in Id : \/ run'[n] = run[n]
                         \/ run[n] \in {"off", "asked"} /\ run'[n] \in {"off", "asked", "launch"}
  PROVE  AbortInv'
<1>1. Acted' => Acted
  BY DrivesFacts
<1>2. Flagged' => Flagged
  BY DrivesFacts
<1>3. ASSUME loop'.pc # "off", NEW n \in Id PROVE Tells(n) /\ Watched(n)'
  <2>1. Told(n) => Told(n)'
    BY <1>3 DEF Told, Settled
  <2>2. Watched(n)'
    BY <1>3 DEF AbortInv, Watched, Drives
  <2>3. QED
    BY <1>3, <2>1, <2>2 DEF Tells
<1>4. Heard'
  BY <1>1, <1>2, <1>3, HeardStays DEF AbortInv
<1>5. QED
  BY <1>3, <1>4 DEF AbortInv, Watched

\* No move raises the flag.
LEMMA MoveUnasked ==
  ASSUME NEW r \in Row, NEW from, NEW to, NEW end
  PROVE  TransitionStatus(r, from, to, end).abort_requested => r.abort_requested
<1> DEFINE flag == r.abort_requested /\ (\/ to \notin TERMINAL_STATUS
                                         \/ to = "rejected" /\ r.job_type = "workflow")
<1>1. TransitionStatus(r, from, to, end) \in {r, [r EXCEPT !.status = to, !.end = end, !.abort_requested = flag]}
  BY DEF TransitionStatus
<1>2. flag => r.abort_requested
  OBVIOUS
<1> HIDE DEF flag
<1>3. [r EXCEPT !.status = to, !.end = end, !.abort_requested = flag].abort_requested = flag
  BY DEF Row
<1>4. QED
  BY <1>1, <1>2, <1>3

\* The steps of the loop leave the row so, or end it with the loop.
LEMMA LoopUnasked ==
  ASSUME Shape, LoopStep \/ SlowSave \/ LoopThrows
  PROVE  Unasked \/ loop'.pc = "off"
<1>1. row \in Row /\ row.end \in BOOLEAN /\ row.job_type = "workflow"
  BY DEF Shape, Row
<1>2. CASE UNCHANGED row
  BY <1>2 DEF Unasked
<1>3. CASE Unhold \/ AskApproval \/ Rejected \/ TimedOut
  <2>1. PICK from \in SUBSET {"running", "approve", "rejected"}, to \in {"running", "approve"}, end \in BOOLEAN :
          row' = TransitionStatus(row, from, to, end)
    BY <1>1, <1>3 DEF Unhold, AskApproval, Rejected, TimedOut
  <2>2. GoesTo(row, row') /\ (row'.abort_requested => row.abort_requested)
    BY <1>1, <2>1, MoveGoes, MoveUnasked
  <2>3. QED
    BY <2>2 DEF GoesTo, Unasked
<1>4. CASE Find \/ End \/ LoopThrows
  <2>1. loop' = Off => loop'.pc = "off"
    BY DEF Off
  <2>2. QED
    BY <1>4, <2>1 DEF Find, End, LoopThrows, Unasked
<1>5. QED
  BY <1>2, <1>3, <1>4
     DEF LoopStep, Read, Flag, Cancel, NoApproval, ReadAnswer, Approved, NotAnswered, NextStep, SlowSave, Begin

\* Where a move leaves the loop.
LEMMA MovesDrive == ASSUME TypeInv, Moves PROVE Drives
<1>1. /\ loop = [pc |-> loop.pc, seen |-> loop.seen, waiting |-> loop.waiting,
                 aborted |-> loop.aborted, todo |-> loop.todo]
      /\ Off.pc = "off"
  BY DEF TypeInv, Shape, Off
<1>2. CASE loop' = Off
  BY <1>1, <1>2 DEF Drives
<1>3. CASE loop' # Off
  <2>1. loop.pc \in {"find", "read", "flag", "unhold", "ask", "answer"}
    BY MovesFacts
  <2>2. CASE Find \/ Flag \/ Unhold \/ NoApproval \/ NotAnswered
    BY <1>1, <1>3, <2>1, <2>2 DEF Find, Flag, Unhold, NoApproval, NotAnswered, Goes, At, Drives
  <2>3. CASE Read
    BY <1>1, <1>3, <2>1, <2>3 DEF Read, At, Drives
  <2>4. CASE AskApproval
    <3>1. PICK waiting : loop' = [loop EXCEPT !.pc = "next", !.waiting = waiting]
      BY <2>4 DEF AskApproval
    <3>2. QED
      BY <1>1, <2>4, <3>1 DEF AskApproval, At, Drives
  <2>5. CASE ReadAnswer
    BY <1>1, <2>5 DEF ReadAnswer, At, Drives
  <2>6. QED
    BY <2>2, <2>3, <2>4, <2>5 DEF Moves
<1>4. QED
  BY <1>2, <1>3

\* Who is told, or missed, is told or excepted; the others are as they were.
LEMMA TellFacts ==
  ASSUME TypeInv, NEW asked \in SUBSET Id, \A n \in asked : child[n].status = "running", Tell(asked),
         UNCHANGED follower, loop'.pc # "off" => loop.pc # "off", NEW n \in Id
  PROVE  /\ n \in asked => Told(n)'
         /\ Told(n) => Told(n)'
         /\ child'[n].status = child[n].status
         /\ Watched(n) => Watched(n)'
<1>1. PICK told \in SUBSET Id :
        /\ told \subseteq asked
        /\ child' = [m \in Id |-> IF m \in told THEN RequestAbortRow(child[m]) ELSE child[m]]
        /\ hist' = [hist EXCEPT !.untold = (hist.untold \ asked) \cup (asked \ told)]
  BY TellTells
<1>2. hist'.untold = (hist.untold \ asked) \cup (asked \ told) /\ hist'.unwatched = hist.unwatched
  BY <1>1 DEF TypeInv, Typed, Hist
<1>3. child[n] \in Row
  BY DEF TypeInv, Shape
<1>4. /\ child'[n].host = child[n].host /\ child'[n].tracker = child[n].tracker
      /\ child'[n].end = child[n].end /\ child'[n].status = child[n].status
      /\ n \in told => child'[n].abort_requested
      /\ n \notin told => child'[n] = child[n]
  BY <1>1, <1>3, AbortFacts
<1>5. FollowedElsewhere(child'[n], Home) = FollowedElsewhere(child[n], Home)
  BY <1>4 DEF FollowedElsewhere, Exists
<1>6. Settled(n)' <=> Settled(n)
  BY <1>4, <1>5 DEF Settled
<1>7. n \in asked => Told(n)'
  BY <1>1, <1>2, <1>4 DEF Told
<1>8. Told(n) => Told(n)'
  BY <1>1, <1>2, <1>4, <1>6, <1>7 DEF Told
<1>9. Watched(n) => Watched(n)'
  BY <1>2, <1>4, <1>5 DEF Watched
<1>10. QED
  BY <1>4, <1>7, <1>8, <1>9

\* The loop tells the jobs that have a run and go on; the others do not run.
LEMMA CancelHeard ==
  ASSUME TypeInv, FlagKept', AbortInv, Cancel
  PROVE  AbortInv'
<1> DEFINE asked == {n \in Id : run[n] \in {"pass", "wait", "done"} /\ child[n].status = "running"}
<1>1. Tell(asked) /\ UNCHANGED <<follower, aborting, row>> /\ loop.pc = "cancel"
  BY DEF Cancel, Around, At
<1>2. asked \in SUBSET Id /\ \A n \in asked : child[n].status = "running"
  OBVIOUS
<1>3. \A n \in Id : run[n] \in {"wait", "done"} /\ child[n].status = "running" => n \in asked
  OBVIOUS
<1> HIDE DEF asked
<1>4. ASSUME NEW n \in Id
      PROVE  /\ n \in asked => Told(n)'
             /\ Told(n) => Told(n)'
             /\ child'[n].status = child[n].status
             /\ Watched(n) => Watched(n)'
  BY <1>1, <1>2, TellFacts
<1>5. \A n \in Id : run'[n] = run[n] \/ (run[n] = "asked" /\ run'[n] = "off")
  BY CancelFacts
<1>6. ASSUME NEW n \in Id, run'[n] \in {"wait", "done"} PROVE Told(n)'
  <2>1. run[n] \in {"wait", "done"}
    BY <1>5, <1>6
  <2>2. CASE child[n].status = "running"
    BY <1>3, <1>4, <2>1, <2>2
  <2>3. CASE child[n].status # "running"
    BY <1>4, <2>3 DEF Told
  <2>4. QED
    BY <2>2, <2>3
<1>7. ASSUME Flagged', NEW n \in Id, run'[n] \notin {"launch", "pass"} PROVE Told(n)'
  <2>1. Flagged /\ run[n] \notin {"launch", "pass"}
    BY <1>1, <1>5, <1>7 DEF Flagged
  <2>2. QED
    BY <1>4, <2>1 DEF AbortInv, Heard
<1>8. QED
  BY <1>4, <1>6, <1>7 DEF AbortInv, Heard

\* Every step of the loop.
LEMMA LoopHeard ==
  ASSUME WorkflowAssumption, TypeInv, FlagKept', TruthInv, AbortInv, \A n \in Id : OnceAt(n),
         LoopStep \/ SlowSave \/ LoopThrows
  PROVE  AbortInv'
<1>1. Unasked \/ loop'.pc = "off"
  BY LoopUnasked DEF TypeInv
<1>2. CASE Moves
  <2>1. UNCHANGED <<run, child, follower, aborting, hist>>
    BY <1>2 DEF Moves, Find, Read, Flag, Unhold, AskApproval, NoApproval, ReadAnswer, NotAnswered, Around, Nodes, Jobs
  <2>2. QED
    BY <1>1, <1>2, <2>1, MovesDrive, DrivesOn
<1>3. CASE Approved \/ Rejected \/ TimedOut
  <2>1. PICK status \in {"successful", "failed"} :
          /\ loop.pc = "answer" /\ UNCHANGED <<child, aborting, hist>>
          /\ loop.waiting \in Id /\ approvals # <<>>
          /\ run' = [run EXCEPT ![loop.waiting] = "off"]
          /\ LoopIs("next", loop.seen, None, loop.aborted, loop.todo)
    BY <1>3, AnswersFacts
  <2>2. UNCHANGED follower
    BY <1>3 DEF Approved, Rejected, TimedOut, Answers, Jobs
  <2>3. run[loop.waiting] = "asked"
    <3>1. approvals \in Seq(Id) /\ loop.waiting = Head(approvals) /\ OnTruth
      BY <2>1 DEF TruthInv, OnTruth, Asked, TypeInv, Typed, WorkflowAssumption
    <3>2. 1 \in 1..Len(approvals) /\ approvals[1] = loop.waiting
      BY <2>1, <3>1
    <3>3. QED
      BY <3>1, <3>2 DEF OnTruth, Asked
  <2>4. \A n \in Id : run'[n] = run[n] \/ (run[n] = "asked" /\ run'[n] = "off")
    BY <2>1, <2>3 DEF TypeInv, Shape
  <2>5. Drives
    BY <2>1 DEF LoopIs, Drives
  <2>6. QED
    BY <1>1, <2>1, <2>2, <2>4, <2>5, DrivesOn
<1>4. CASE SlowSave
  <2>1. UNCHANGED <<run, child, follower, aborting, hist>> /\ Drives
    BY <1>4, SlowSaveFacts DEF SlowSave, Jobs, LoopIs, Drives
  <2>2. QED
    BY <1>1, <2>1, DrivesOn
<1>5. CASE NextStep \/ Begin
  <2>1. PICK todo \in SUBSET Id, st \in [Id -> State] :
          /\ Begins(todo, st)
          /\ \A n \in todo : run[n] = "off"
    <3>1. CASE Begin
      <4>1. loop.todo \in SUBSET Id /\ state \in [Id -> State] /\ Begins(loop.todo, state)
        BY <3>1 DEF Begin, TypeInv, Typed
      <4>2. \A n \in loop.todo : run[n] = "off"
        BY <3>1 DEF Begin, At, TruthInv, OnTruth, LoopTruth
      <4>3. QED
        BY <4>1, <4>2
    <3>2. CASE NextStep
      <4>1. PICK st : st = AfterSkips(graph, state) /\ Begins(Starts(graph, st), st)
        BY <3>2 DEF NextStep
      <4>2. state \in [Id -> State]
        BY DEF TypeInv, Typed
      <4>3. st \in [Id -> State] /\ \A n \in Id : st[n].status = state[n].status
        BY <4>1, <4>2, AfterSkipsFacts
      <4>4. Starts(graph, st) \in SUBSET Id /\ \A n \in Starts(graph, st) : st[n].status = "pending"
        BY DEF Starts, Undecided
      <4>5. \A n \in Starts(graph, st) : run[n] = "off"
        BY <4>3, <4>4 DEF OnceAt
      <4>6. QED
        BY <4>1, <4>3, <4>4, <4>5
    <3>3. QED
      BY <1>5, <3>1, <3>2
  <2>2. /\ \A n \in Id : /\ n \in todo => run'[n] \in {"asked", "launch"}
                         /\ n \notin todo => run'[n] = run[n]
        /\ loop'.aborted = loop.aborted
    BY <2>1, BeginsFacts DEF LoopIs
  <2>3. \A n \in Id : \/ run'[n] = run[n]
                      \/ run[n] \in {"off", "asked"} /\ run'[n] \in {"off", "asked", "launch"}
    BY <2>1, <2>2
  <2>4. UNCHANGED <<child, follower, aborting, hist>> /\ loop.pc \in {"next", "begin"}
    BY <1>5 DEF NextStep, Begin, Jobs, Around, At
  <2>5. Drives
    BY <2>2, <2>4 DEF Drives
  <2>6. QED
    BY <1>1, <2>3, <2>4, <2>5, DrivesOn
<1>6. CASE End \/ LoopThrows
  <2>1. loop'.pc = "off"
    BY <1>6, StopsFacts DEF LoopIs
  <2>2. QED
    BY <2>1 DEF AbortInv, Heard, Watched, Acted, Flagged
<1>7. QED
  BY <1>2, <1>3, <1>4, <1>5, <1>6, CancelHeard DEF LoopStep, Moves

\* A step next to the loop, which leaves it as it is.
LEMMA BesideHeard ==
  ASSUME FlagKept', AbortInv, UNCHANGED <<loop, aborting>>, Unasked,
         loop.pc # "off" => \A n \in Id : Tells(n) /\ (Watched(n) => Watched(n)')
  PROVE  AbortInv'
<1>1. Acted' => Acted
  BY DEF Unasked, Acted
<1>2. Flagged' => Flagged
  BY DEF Unasked, Flagged
<1>3. Heard'
  BY <1>1, <1>2, HeardStays DEF AbortInv
<1>4. QED
  BY <1>3 DEF AbortInv, Watched

\* A node's run: one that waits has looked for the flag, one that ends has no job or one that is told.
LEMMA RunHeard ==
  ASSUME WorkflowAssumption, TypeInv, FlagKept', AbortInv, NEW m \in Id, OnceAt(m), NodeStep(m) \/ NodeThrows(m)
  PROVE  AbortInv'
<1>1. /\ child \in [Id -> Row] /\ run \in [Id -> RunPc] /\ follower \in [Id -> Node \cup {NoNode}]
      /\ UNCHANGED <<loop, aborting, row>> /\ Unasked
  BY DEF TypeInv, Shape, NodeStep, NodeThrows, SkipNode, Refused, Pull, LaunchNode, PassAbort, NodeEnds, NodeLeaves,
         Finishes, Around, Unasked
<1>2. CASE NodeThrows(m) \/ Ends(m) \/ NodeLeaves(m)
  <2>1. UNCHANGED <<child, follower>>
    BY <1>2 DEF NodeThrows, Ends, SkipNode, Refused, Pull, NodeEnds, NodeLeaves, Finishes, Jobs
  <2>2. /\ hist'.unwatched = hist.unwatched /\ hist.untold \subseteq hist'.untold
        /\ run[m] = "pass" /\ row'.abort_requested => m \in hist'.untold
        /\ <<run[m], run'[m]>> \in {<<"launch", "done">>, <<"pass", "done">>, <<"wait", "done">>, <<"done", "done">>,
                                    <<"done", "off">>}
        /\ \A n \in Id : n # m => run'[n] = run[n]
    <3>1. CASE NodeThrows(m)
      BY <1>1, <3>1, ThrowsFacts
    <3>2. CASE Ends(m)
      <4>1. PICK status \in FINISHED : Finishes(m, status) /\ run[m] \in {"launch", "wait"}
        BY <3>2, EndsFinish
      <4>2. QED
        BY <1>1, <4>1, FinishesFacts
    <3>3. CASE NodeLeaves(m)
      BY <1>1, <3>3 DEF NodeLeaves
    <3>4. QED
      BY <1>2, <3>1, <3>2, <3>3
  <2>3. run[m] = "launch" => child'[m].status = "absent"
    BY <2>1 DEF OnceAt
  <2>4. ASSUME NEW n \in Id PROVE Tells(n) /\ (Watched(n) => Watched(n)')
    <3>1. /\ Told(n) => Told(n)'
          /\ Watched(n) => Watched(n)'
      BY <1>1, <2>1, <2>2, SameJob
    <3>2. CASE n = m
      BY <2>2, <2>3, <3>1, <3>2 DEF Tells, Told
    <3>3. CASE n # m
      BY <2>2, <3>1, <3>3 DEF Tells
    <3>4. QED
      BY <3>1, <3>2, <3>3
  <2>5. QED
    BY <1>1, <2>4, BesideHeard
<1>3. CASE LaunchNode(m) \/ PassAbort(m)
  <2>1. /\ UNCHANGED hist /\ run[m] \in {"launch", "pass"} /\ run'[m] \in {"pass", "wait"}
        /\ \A n \in Id : n # m => run'[n] = run[n] /\ child'[n] = child[n] /\ follower'[n] = follower[n]
    BY <1>1, <1>3 DEF LaunchNode, PassAbort
  <2>2. run'[m] = "wait" /\ row'.abort_requested => Told(m)'
    <3>1. SUFFICES ASSUME run'[m] = "wait", row'.abort_requested PROVE Told(m)'
      OBVIOUS
    <3>2. child'[m] = RequestAbortRow(child[m])
      BY <1>1, <1>3, <3>1 DEF LaunchNode, PassAbort
    <3>3. child[m] \in Row
      BY <1>1
    <3>4. child'[m].status = "running" => child'[m].abort_requested
      BY <3>2, <3>3, AbortFacts
    <3>5. QED
      BY <3>4 DEF Told
  <2>3. Watched(m) => Watched(m)'
    <3>1. CASE LaunchNode(m)
      BY <1>1, <3>1 DEF LaunchNode, Watched
    <3>2. CASE PassAbort(m)
      <4>1. child'[m] \in {child[m], RequestAbortRow(child[m])} /\ UNCHANGED <<follower, hist>>
        BY <1>1, <3>2 DEF PassAbort
      <4>2. /\ child'[m].host = child[m].host /\ child'[m].tracker = child[m].tracker
            /\ child'[m].end = child[m].end /\ child'[m].status = child[m].status
        BY <1>1, <4>1, AbortFacts
      <4>3. QED
        BY <1>1, <4>1, <4>2 DEF Watched, FollowedElsewhere, Exists
    <3>3. QED
      BY <1>3, <3>1, <3>2
  <2>4. ASSUME NEW n \in Id PROVE Tells(n) /\ (Watched(n) => Watched(n)')
    <3>1. CASE n = m
      BY <2>1, <2>2, <2>3, <3>1 DEF Tells
    <3>2. CASE n # m
      BY <1>1, <2>1, <3>2, SameJob DEF Tells
    <3>3. QED
      BY <3>1, <3>2
  <2>5. QED
    BY <1>1, <2>4, BesideHeard
<1>4. QED
  BY <1>2, <1>3 DEF NodeStep, Ends

\* What becomes of a job on its runner or by a sweep: it runs no more, or is another process's, or what was known of
\* it is so still.
LEMMA JobHeard ==
  ASSUME WorkflowAssumption, NoNodeAssumption, TypeInv, loop.pc # "off", UNCHANGED loop, NEW n \in Id,
         Kept(child[n]), child[n].status \in ChildStatus, Watched(n), UNCHANGED hist,
         \/ follower'[n] = NoNode /\ follower[n] # NoNode /\ \E o \in Outcome : child'[n] = EndRow(child[n], o)
         \/ \E m \in {Home, Worker} : /\ Resumable(child[n], FALSE) /\ follower[n] # m /\ follower'[n] = m
                                      /\ child'[n] = ClaimRow(child[n], child[n].tracker, m)
         \/ follower'[n] = follower[n] /\ Swept(child[n], child'[n])
         \/ follower'[n] = follower[n] /\ child'[n] = RequestAbortRow(child[n])
  PROVE  (Told(n) => Told(n)') /\ Watched(n)'
<1>1. child[n] \in Row
  BY DEF TypeInv, Shape
<1>2. CASE follower'[n] = NoNode /\ follower[n] # NoNode /\ \E o \in Outcome : child'[n] = EndRow(child[n], o)
  <2>1. PICK o \in Outcome : child'[n] = EndRow(child[n], o)
    BY <1>2
  <2>2. Told(n)'
    BY <1>2 DEF Told, Settled
  <2>3. child'[n].status = "absent" \/ child'[n].end
    <3>1. CASE child[n].status \in {"running", "abandoned"}
      BY <1>1, <2>1, <3>1, EndFacts
    <3>2. CASE child[n].status \notin {"running", "abandoned"}
      BY <2>1, <3>2 DEF EndRow, TransitionStatus, ENDS_FROM, Kept
    <3>3. QED
      BY <3>1, <3>2
  <2>4. QED
    BY <2>2, <2>3 DEF Watched
<1>3. ASSUME NEW m \in {Home, Worker}, Resumable(child[n], FALSE), follower[n] # m, follower'[n] = m,
             child'[n] = ClaimRow(child[n], child[n].tracker, m)
      PROVE  Told(n)' /\ Watched(n)'
  <2>1. child[n].status = "abandoned" /\ ~child[n].end /\ child[n].tracker = Home /\ child[n].host = NoNode
    BY <1>3 DEF Resumable, Kept
  <2>2. child'[n].status = "running" /\ child'[n].tracker = m /\ child'[n].host = NoNode
    BY <1>1, <1>3, <2>1 DEF ClaimRow, Claimable, Row
  <2>3. CASE m = Home
    <3>1. ~FollowedElsewhere(child[n], Home)
      BY <2>1 DEF FollowedElsewhere
    <3>2. n \in hist.unwatched
      BY <1>3, <2>1, <2>3, <3>1 DEF Watched
    <3>3. QED
      BY <3>2 DEF Told, Watched
  <2>4. CASE m = Worker
    <3>1. FollowedElsewhere(child'[n], Home)
      BY <2>2, <2>4 DEF FollowedElsewhere, Exists, WorkflowAssumption, NoNodeAssumption
    <3>2. QED
      BY <3>1 DEF Told, Watched, Settled
  <2>5. QED
    BY <1>3, <2>3, <2>4
<1>4. CASE follower'[n] = follower[n] /\ Swept(child[n], child'[n])
  <2>1. /\ child'[n].end = child[n].end
        /\ child'[n] = child[n] \/ child'[n].status = "abandoned"
        /\ child[n].status = "absent" <=> child'[n].status = "absent"
        /\ FollowedElsewhere(child'[n], Home) = FollowedElsewhere(child[n], Home)
    BY <1>1, <1>4, SweepFacts
  <2>2. QED
    BY <1>4, <2>1 DEF Told, Watched, Settled
<1>5. CASE follower'[n] = follower[n] /\ child'[n] = RequestAbortRow(child[n])
  <2>1. /\ child'[n].host = child[n].host /\ child'[n].tracker = child[n].tracker
        /\ child'[n].end = child[n].end /\ child'[n].status = child[n].status
        /\ child'[n].status = "running" => child'[n].abort_requested
    BY <1>1, <1>5, AbortFacts
  <2>2. QED
    BY <1>5, <2>1 DEF Told, Watched, FollowedElsewhere, Exists
<1>6. QED
  BY <1>2, <1>3, <1>4, <1>5

\* The rest: who aborts looks for the jobs that run.
LEMMA OuterHeard ==
  ASSUME WorkflowAssumption, NoNodeAssumption, WorkflowInv, TypeInv, TruthInv, FlagKept', AbortInv, Outer
  PROVE  AbortInv'
<1>1. UNCHANGED <<run, loop>> /\ row \in Row /\ row.job_type = "workflow" /\ child \in [Id -> Row]
  BY OuterOutside DEF Outside, TypeInv, Shape
<1>2. follower \in [Id -> Node \cup {NoNode}] /\ \A n \in Id : Kept(child[n]) /\ child[n].status \in ChildStatus
  BY DEF TypeInv, Shape, WorkflowInv, TruthInv
<1>3. CASE Abort
  <2>1. Live(row') => Live(row)
    BY <1>1, <1>3, AbortFacts DEF Abort, Live
  <2>2. Acted' => Acted
    BY <1>1, <2>1 DEF Acted
  <2>3. ~Flagged'
    BY <1>3 DEF Abort, Flagged
  <2>4. UNCHANGED <<child, follower, hist>>
    BY <1>3 DEF Abort, Jobs
  <2>5. \A n \in Id : Tells(n) /\ Watched(n)'
    BY <1>1, <2>4 DEF AbortInv, Tells, Told, Settled, Watched
  <2>6. QED
    BY <2>2, <2>3, <2>5, HeardStays DEF AbortInv
<1>4. CASE AbortJobs
  <2> DEFINE asked == {n \in Id : child[n].status = "running"}
  <2>1. asked \in SUBSET Id /\ (\A n \in asked : child[n].status = "running") /\ Tell(asked) /\ UNCHANGED follower
    BY <1>4 DEF AbortJobs
  <2>2. \A n \in Id : n \in asked <=> child[n].status = "running"
    OBVIOUS
  <2> HIDE DEF asked
  <2>3. ASSUME NEW n \in Id PROVE Told(n)' /\ Watched(n)'
    <3>1. /\ n \in asked => Told(n)'
          /\ child'[n].status = child[n].status
          /\ Watched(n) => Watched(n)'
      BY <1>1, <2>1, TellFacts
    <3>2. n \notin asked => Told(n)'
      BY <2>2, <3>1 DEF Told
    <3>3. QED
      BY <3>1, <3>2 DEF AbortInv
  <2>4. QED
    BY <2>3 DEF AbortInv, Heard
<1>5. CASE ~(Abort \/ AbortJobs)
  <2>1. UNCHANGED aborting
    BY <1>5 DEF Outer, Approve, Reject, AbortNode, Restart, Lapse, Heartbeat, SweepDead, SweepQuiet, ChildEnds,
           EndLost, TakeOver, EndParent, Around
  <2>2. Unasked
    <3>1. CASE Approve \/ Reject
      <4>1. PICK to \in {"running", "rejected"}, end \in BOOLEAN : row' = TransitionStatus(row, {"approve"}, to, end)
        BY <3>1 DEF Approve, Reject, RejectRow
      <4>2. GoesTo(row, row') /\ (row'.abort_requested => row.abort_requested)
        BY <1>1, <4>1, MoveGoes, MoveUnasked
      <4>3. QED
        BY <4>2 DEF GoesTo, Unasked
    <3>2. CASE Restart \/ SweepDead \/ SweepQuiet
      <4>1. Swept(row, row')
        <5>1. Swept(row, AbandonQuietRow(row))
          BY DEF AbandonQuietRow, Swept, UnderWay
        <5>2. QED
          BY <1>1, <3>2, <5>1, SweepIsSwept DEF Restart, SweepDead, SweepQuiet
      <4>2. QED
        BY <1>1, <4>1, SweepFacts DEF Unasked, Live
    <3>3. CASE \E n \in Id, m \in Node : EndParent(n, m)
      <4>1. row' = EndRow(row, "failed") /\ "failed" \in Outcome
        BY <3>3 DEF EndParent, Outcome
      <4>2. row' = row \/ row'.status = "failed"
        BY <1>1, <4>1, EndFacts
      <4>3. QED
        BY <4>2 DEF Unasked, Live
    <3>4. CASE ~(Approve \/ Reject \/ Restart \/ SweepDead \/ SweepQuiet \/ \E n \in Id, m \in Node : EndParent(n, m))
      BY <1>5, <3>4 DEF Outer, AbortNode, Lapse, Heartbeat, ChildEnds, EndLost, TakeOver, Unasked
    <3>5. QED
      BY <3>1, <3>2, <3>3, <3>4
  <2>3. ASSUME loop.pc # "off", NEW n \in Id PROVE (Told(n) => Told(n)') /\ Watched(n)'
    <3>1. child[n] \in Row /\ Watched(n) /\ Kept(child[n]) /\ child[n].status \in ChildStatus
      BY <1>1, <1>2 DEF AbortInv
    <3>2. CASE Approve \/ Reject \/ Lapse \/ Heartbeat \/ SweepQuiet \/ \E k \in Id, m \in Node : EndParent(k, m)
      <4>1. UNCHANGED <<child, follower>>
        BY <3>2 DEF Approve, Reject, Lapse, Heartbeat, SweepQuiet, EndParent, Jobs
      <4>2. hist'.untold = hist.untold /\ hist'.unwatched = hist.unwatched
        BY <3>2 DEF Approve, Reject, Lapse, Heartbeat, SweepQuiet, EndParent, TypeInv, Typed, Hist
      <4>3. QED
        BY <1>1, <3>1, <4>1, <4>2, SameJob
    <3>3. CASE \E k \in Id : EndLost(k)
      <4>1. PICK k \in Id : EndLost(k)
        BY <3>3
      <4>2. /\ UNCHANGED child /\ (n # k => follower'[n] = follower[n])
            /\ hist'.untold = hist.untold /\ hist'.unwatched = hist.unwatched \cup {k}
        BY <1>2, <4>1 DEF EndLost, TypeInv, Typed, Hist
      <4>3. QED
        BY <1>1, <3>1, <4>2, SameJob DEF Told, Watched
    <3>4. CASE Restart \/ SweepDead
      <4>1. UNCHANGED <<follower, hist>> /\ Swept(child[n], child'[n])
        BY <3>1, <3>4, SweepIsSwept DEF Restart, SweepDead
      <4>2. QED
        BY <1>1, <2>3, <3>1, <4>1, JobHeard
    <3>5. ASSUME NEW k \in Id, AbortNode(k) \/ ChildEnds(k) \/ TakeOver(k, Worker) \/ TakeOver(k, Home)
          PROVE  (Told(n) => Told(n)') /\ Watched(n)'
      <4>1. UNCHANGED hist /\ (n # k => child'[n] = child[n] /\ follower'[n] = follower[n])
        BY <1>1, <1>2, <3>5 DEF AbortNode, ChildEnds, TakeOver
      <4>2. CASE n # k
        BY <1>1, <3>1, <4>1, <4>2, SameJob
      <4>3. CASE n = k
        <5>1. CASE AbortNode(k)
          <6>1. child'[n] = RequestAbortRow(child[n]) /\ follower'[n] = follower[n]
            BY <1>1, <4>3, <5>1 DEF AbortNode
          <6>2. QED
            BY <1>1, <2>3, <3>1, <4>1, <6>1, JobHeard
        <5>2. CASE ChildEnds(k)
          <6>1. PICK o \in Outcome : child' = [child EXCEPT ![n] = EndRow(child[n], o)]
            BY <4>3, <5>2 DEF ChildEnds, Outcome
          <6>2. child'[n] = EndRow(child[n], o) /\ follower'[n] = NoNode /\ follower[n] # NoNode
            BY <1>1, <1>2, <4>3, <5>2, <6>1 DEF ChildEnds
          <6>3. QED
            BY <1>1, <2>3, <3>1, <4>1, <6>2, JobHeard
        <5>3. ASSUME NEW m \in {Home, Worker}, TakeOver(k, m) PROVE (Told(n) => Told(n)') /\ Watched(n)'
          <6>1. /\ Resumable(child[n], FALSE) /\ follower[n] # m /\ follower'[n] = m
                /\ child'[n] = ClaimRow(child[n], child[n].tracker, m)
            BY <1>1, <1>2, <4>3, <5>3 DEF TakeOver
          <6>2. QED
            BY <1>1, <2>3, <3>1, <4>1, <6>1, JobHeard
        <5>4. QED
          BY <3>5, <5>1, <5>2, <5>3
      <4>4. QED
        BY <4>2, <4>3
    <3>6. QED
      BY <1>5, <3>2, <3>3, <3>4, <3>5 DEF Outer
  <2>4. loop.pc # "off" => \A n \in Id : Tells(n) /\ (Watched(n) => Watched(n)')
    BY <1>1, <2>3 DEF Tells
  <2>5. QED
    BY <1>1, <2>1, <2>2, <2>4, BesideHeard
<1>6. QED
  BY <1>3, <1>4, <1>5

\* Every step.
LEMMA HeardNext ==
  ASSUME WorkflowAssumption, NoNodeAssumption, WorkflowInv, WorkflowInv', TypeInv, TruthInv, AbortInv,
         \A n \in Id : OnceAt(n), [Next]_vars
  PROVE  AbortInv'
<1>1. FlagKept'
  BY DEF WorkflowInv
<1>2. CASE Launch
  <2>1. \A n \in Id : child'[n].status = "absent"
    BY <1>2, LaunchFacts DEF TruthInv, Unstarted
  <2>2. QED
    BY <2>1 DEF AbortInv, Heard, Told, Watched
<1>3. CASE Crash
  <2>1. loop'.pc = "off"
    BY <1>3, CrashFacts DEF LoopIs
  <2>2. QED
    BY <2>1 DEF AbortInv, Heard, Acted, Flagged, Watched
<1>4. CASE UNCHANGED vars
  BY <1>4 DEF vars, AbortInv, Heard, Acted, Flagged, Told, Settled, Watched
<1>5. QED
  BY <1>1, <1>2, <1>3, <1>4, Kinds, LoopHeard, RunHeard, OuterHeard

\* A loop that stops has no abort to act on.
LEMMA RestedNext == ASSUME WorkflowAssumption, TypeInv, Rested, [Next]_vars PROVE Rested'
<1>1. CASE Moves
  BY <1>1, MovesFacts DEF LoopIs, MovesTo, Rested
<1>2. CASE Cancel
  BY <1>2, CancelFacts DEF LoopIs, Rested
<1>3. CASE Approved \/ Rejected \/ TimedOut
  BY <1>3, AnswersFacts DEF LoopIs, Rested
<1>4. CASE NextStep \/ Begin
  <2>1. loop'.pc \in {"read", "end"}
    BY <1>4 DEF NextStep, Begin, Begins, TypeInv, Shape
  <2>2. QED
    BY <2>1 DEF Rested
<1>5. CASE SlowSave
  BY <1>5, SlowSaveFacts DEF LoopIs, Rested
<1>6. CASE End \/ LoopThrows
  BY <1>6, StopsFacts DEF LoopIs, Rested
<1>7. CASE Launch
  BY <1>7, LaunchFacts DEF LoopIs, Rested
<1>8. CASE Crash
  BY <1>8, CrashFacts DEF LoopIs, Rested
<1>9. CASE Outer \/ (\E n \in Id : NodeStep(n) \/ NodeThrows(n)) \/ UNCHANGED vars
  <2>1. UNCHANGED loop
    BY <1>9, OuterOutside
       DEF Outside, NodeStep, SkipNode, Refused, Pull, NodeEnds, LaunchNode, PassAbort, NodeLeaves, NodeThrows, Finishes, vars
  <2>2. QED
    BY <2>1 DEF Rested
<1>10. QED
  BY <1>1, <1>2, <1>3, <1>4, <1>5, <1>6, <1>7, <1>8, <1>9, Kinds DEF LoopStep, Moves

\* Once the loop has acted on an abort no job of the workflow runs here untold, one whose node was taken for
\* failed neither, in whichever order the loop, the nodes' runs and the request look at each other - but one
\* for which the statement that tells it, or the one that ends it, failed. For any workflow and any number of
\* faults.
THEOREM AbortReaches == Spec => []AbortReachesNodes
<1> DEFINE Once == \A n \in Id : OnceAt(n)
           All == WorkflowInv /\ TypeInv /\ TruthInv /\ AbortInv /\ Rested /\ Once
<1>1. Init => All
  <2>1. Init => Once
    BY DEF Init, OnceAt, AbsentRow
  <2>2. Init => AbortInv /\ Rested
    BY DEF Init, Off, AbsentRow, AbortInv, Heard, Acted, Flagged, Watched, Rested
  <2>3. QED
    BY <2>1, <2>2, WorkflowInit, TypeInit, TruthInit, WorkflowAssumption, NoNodeAssumption
<1>2. All /\ [Next]_vars => All'
  <2> SUFFICES ASSUME All, [Next]_vars PROVE All'
    OBVIOUS
  <2>1. WorkflowInv' /\ TypeInv' /\ TruthInv' /\ Once'
    BY OnceNext, WorkflowStep, TypeNext, TruthNext, WorkflowAssumption, NoNodeAssumption DEF WorkflowInv
  <2>2. AbortInv' /\ Rested'
    BY <2>1, HeardNext, RestedNext, WorkflowAssumption, NoNodeAssumption
  <2>3. QED
    BY <2>1, <2>2
<1>3. All => AbortReachesNodes
  <2> SUFFICES ASSUME AbortInv, WorkflowInv, Rested,
                      loop.aborted, loop.pc \notin {"unhold", "cancel"}, UnderWay(row),
                      NEW n \in Id \ (hist.untold \cup hist.unwatched),
                      run[n] \in {"wait", "done"} \/ (run[n] = "off" /\ ~aborting),
                      child[n].status = "running", ~Settled(n)
               PROVE  child[n].abort_requested
    BY DEF AbortReachesNodes
  <2>1. loop.pc # "off" /\ Live(row)
    BY DEF UnderWay, Live, Rested
  <2>2. Acted /\ row.abort_requested
    BY <2>1 DEF Acted, WorkflowInv, FlagKept
  <2>3. Told(n)
    BY <2>1, <2>2 DEF AbortInv, Heard, Flagged
  <2>4. QED
    BY <2>3 DEF Told
<1> HIDE DEF All
<1>4. QED
  BY <1>1, <1>2, <1>3, PTL DEF Spec

-----------------------------------------------------------------------------
(* The promise is kept: every step is one it allows                        *)

\* The rules of the promise are those of the workflow.
LEMMA SameRules ==
  /\ \A s : Promise!Undecided(s) = Undecided(s)
  /\ \A kind, s : Promise!Fires(kind, s) = Fires(kind, s)
  /\ \A kind, s : Promise!Fails(kind, s) = Fails(kind, s)
  /\ \A g, n : Promise!ParentsOf(g, n) = ParentsOf(g, n)
  /\ \A g, st : Promise!WorkflowFailed(g, st) = WorkflowFailed(g, st)
  /\ Promise!State = State /\ Promise!FINISHED = FINISHED /\ Promise!Graphs = Graphs
  BY DEF Promise!Undecided, Undecided, Promise!Fires, Fires, Promise!Fails, Fails, Promise!FiresOn, FiresOn,
         Promise!ParentsOf, ParentsOf, Promise!LINK_KINDS, LINK_KINDS, Promise!FINISHED, FINISHED,
         Promise!State, State, Promise!WorkflowFailed, WorkflowFailed, Promise!Handled, Handled,
         Promise!Graphs, Graphs

\* A node that is led to stays so, but for what became a failure after it had ended.
Led(g, st, am, n) == Promise!Reached(g, st, n) \/ \E l \in ParentsOf(g, n) : l[1] \in am

LEMMA LedStays ==
  ASSUME NEW g, NEW st \in [Id -> State], NEW tt, NEW am, NEW an, NEW n \in Id, Led(g, st, am, n), am \subseteq an,
         \A m \in Id : st[m].doNotRun = FALSE /\ st[m].status \in FINISHED => tt[m] = st[m] \/ m \in an
  PROVE  Led(g, tt, an, n)
<1>1. CASE \E l \in ParentsOf(g, n) : l[1] \in an
  BY <1>1 DEF Led
<1>2. CASE ~\E l \in ParentsOf(g, n) : l[1] \in an
  <2>1. Promise!Reached(g, st, n)
    BY <1>2 DEF Led
  <2>2. ASSUME NEW l \in ParentsOf(g, n), Fires(l[2], st[l[1]])
        PROVE  Fires(l[2], tt[l[1]])
    <3>1. l[1] \in Id /\ st[l[1]] \in State
      BY LinkFacts
    <3>2. st[l[1]].doNotRun = FALSE /\ st[l[1]].status \in FINISHED
      BY <2>2, <3>1 DEF Fires, State
    <3>3. QED
      BY <1>2, <2>2, <3>1, <3>2
  <2>3. QED
    BY <2>1, <2>2, SameRules DEF Promise!Reached, Led
<1>3. QED
  BY <1>1, <1>2

\* It is how the promise says it.
LEMMA LedIsLed == \A n : Promise!LedTo(n) <=> Led(graph, state, hist.amended, n)
  BY SameRules DEF Promise!LedTo, Led

\* What starts is reached.
LEMMA StartsReached ==
  ASSUME NEW g, NEW st, NEW n \in Starts(g, st), NEW am
  PROVE  n \in Id /\ Undecided(st[n]) /\ Led(g, st, am, n)
  BY SameRules DEF Starts, Promise!Reached, Led

\* What is skipped is blocked.
LEMMA JustifiedBlocked ==
  ASSUME NEW g, NEW st, NEW n, Justified(g, st, n), st[n].doNotRun = TRUE
  PROVE  Promise!Blocked(g, st, n)
  BY SameRules DEF Justified, Promise!Blocked

\* What starts after the save was led to when it was decided, and is so still.
Ready == loop.pc = "begin" => \A n \in loop.todo : Led(graph, state, hist.amended, n)

\* A slow save is the one way to it.
LEMMA ReadyNext ==
  ASSUME WorkflowAssumption, TypeInv, TruthInv, Ready, [Next]_vars
  PROVE  Ready'
<1>1. CASE Moves
  BY <1>1, MovesFacts DEF LoopIs, MovesTo, Ready
<1>2. CASE Cancel
  BY <1>2, CancelFacts DEF LoopIs, Ready
<1>3. CASE Approved \/ Rejected \/ TimedOut
  BY <1>3, AnswersFacts DEF LoopIs, Ready
<1>4. CASE NextStep \/ Begin
  <2>1. loop'.pc \in {"read", "end"}
    BY <1>4 DEF NextStep, Begin, Begins, TypeInv, Shape
  <2>2. QED
    BY <2>1 DEF Ready
<1>5. CASE SlowSave
  <2>1. loop'.todo = Starts(graph, state') /\ UNCHANGED graph
    BY <1>5, SlowSaveFacts DEF LoopIs
  <2>2. QED
    BY <2>1, StartsReached DEF Ready
<1>6. CASE End \/ LoopThrows
  BY <1>6, StopsFacts DEF LoopIs, Ready
<1>7. ASSUME NEW m \in Id, NEW status \in FINISHED, UNCHANGED <<graph, loop>>,
             state' = [state EXCEPT ![m].status = status],
             hist.amended \subseteq hist'.amended, run[m] = "done" => m \in hist'.amended,
             run[m] \in {"launch", "pass", "wait", "done"}
      PROVE  Ready'
  <2>1. CASE loop.pc # "begin"
    BY <1>7, <2>1 DEF Ready
  <2>2. CASE loop.pc = "begin"
    <3>1. state \in [Id -> State] /\ NodeTruth(state, m)
      BY <2>2 DEF TypeInv, Typed, TruthInv, OnTruth
    <3>2. state[m].status \notin FINISHED \/ m \in hist'.amended
      BY <1>7, <3>1 DEF NodeTruth, Begun, FINISHED
    <3>3. \A k \in Id : state[k].doNotRun = FALSE /\ state[k].status \in FINISHED
                          => state'[k] = state[k] \/ k \in hist'.amended
      BY <1>7, <3>1, <3>2
    <3>4. \A n \in loop.todo : n \in Id
      BY DEF TypeInv, Typed
    <3>5. QED
      BY <1>7, <2>2, <3>1, <3>3, <3>4, LedStays DEF Ready
  <2>3. QED
    BY <2>1, <2>2
<1>8. ASSUME NEW m \in Id, Ends(m) \/ NodeThrows(m) PROVE Ready'
  <2>1. CASE Ends(m)
    <3>1. PICK status \in FINISHED : Finishes(m, status) /\ run[m] \in {"launch", "wait"}
      BY <2>1, EndsFinish
    <3>2. UNCHANGED <<graph, loop>> /\ state' = [state EXCEPT ![m].status = status] /\ hist'.amended = hist.amended
      BY <3>1, FinishesFacts
    <3>3. QED
      BY <1>7, <3>1, <3>2
  <2>2. CASE NodeThrows(m)
    <3>1. "failed" \in FINISHED
      BY DEF FINISHED
    <3>2. QED
      BY <1>7, <2>2, <3>1, ThrowsFacts
  <2>3. QED
    BY <1>8, <2>1, <2>2
<1>9. ASSUME NEW m \in Id, LaunchNode(m) \/ PassAbort(m) \/ NodeLeaves(m) PROVE Ready'
  BY <1>9 DEF LaunchNode, PassAbort, NodeLeaves, Around, Ready
<1>10. CASE Launch
  BY <1>10, LaunchFacts DEF LoopIs, Ready
<1>11. CASE Crash
  BY <1>11, CrashFacts DEF LoopIs, Ready
<1>12. CASE Outer
  BY <1>12, OuterOutside DEF Outside, HistStays, Ready
<1>13. CASE UNCHANGED vars
  BY <1>13 DEF vars, Ready
<1>14. QED
  BY <1>1, <1>2, <1>3, <1>4, <1>5, <1>6, <1>8, <1>9, <1>10, <1>11, <1>12, <1>13, Kinds DEF LoopStep, Moves, NodeStep, Ends

\* What the promise does not see, or sees as a step of the nodes: no launch, no end of the loop, no job.
Calm ==
  /\ UNCHANGED graph /\ hist'.amended = hist.amended
  /\ \A n \in Id : child'[n].status = "absent" <=> child[n].status = "absent"
  /\ loop'.pc = "off" <=> loop.pc = "off"
  /\ row'.status = "absent" <=> row.status = "absent"
  /\ row'.status = "success" <=> row.status = "success"

\* An end that is being written is one that was, or that a running node has just got.
Written(n) ==
  run'[n] = "done" => run[n] = "done" \/ (state[n].status = "running" /\ state'[n].status \in FINISHED)

\* Then the nodes rest, or move as the promise allows.
LEMMA CalmRefines ==
  ASSUME Calm
  PROVE  /\ UNCHANGED <<state, run>> => UNCHANGED Promise!vars
         /\ state' \in [Id -> State] /\ (\A n \in Id : Promise!NodeMove(n) /\ Written(n)) => Promise!Drive
<1>1. {n \in Id : child'[n].status # "absent"} = {n \in Id : child[n].status # "absent"}
  BY DEF Calm
<1>2. UNCHANGED run => {n \in Id : run'[n] = "done"} = {n \in Id : run[n] = "done"}
  OBVIOUS
<1>3. ASSUME \A n \in Id : Written(n)
      PROVE  {n \in Id : run'[n] = "done"} \subseteq
               {n \in Id : run[n] = "done"} \cup {n \in Id : state[n].status = "running" /\ state'[n].status \in FINISHED}
  BY <1>3 DEF Written
<1>4. QED
  BY <1>1, <1>2, <1>3, SameRules DEF Calm, Promise!vars, Promise!Drive

\* A step of the loop leaves it on, and the workflow under way.
LEMMA OnCalm ==
  ASSUME TruthInv, loop.pc # "off", loop'.pc # "off", RowStays, UNCHANGED graph, hist'.amended = hist.amended,
         \A n \in Id : child'[n].status = child[n].status
  PROVE  Calm
  BY DEF TruthInv, RowStays, Calm

\* The loop leaves, with nothing else that the promise sees.
LEMMA LeaveRefines ==
  ASSUME TruthInv, loop.pc # "off", loop'.pc = "off", UNCHANGED <<graph, state, child>>,
         hist'.amended = hist.amended, \A n \in Id : run'[n] = "done" => run[n] = "done",
         row'.status # "absent", row'.status = "success" => Promise!EndsWell
  PROVE  Promise!Leave
<1>1. {n \in Id : run'[n] = "done"} \subseteq {n \in Id : run[n] = "done"}
  OBVIOUS
<1>2. QED
  BY <1>1 DEF TruthInv, Promise!Leave

\* The steps that only move the loop on are not seen, but for its last one.
LEMMA MovesRefine ==
  ASSUME TypeInv, TruthInv, Moves
  PROVE  [Promise!Next]_(Promise!vars)
<1>1. /\ RowStays /\ UNCHANGED <<graph, state, run, child, hist>> /\ loop.pc # "off"
      /\ LoopIs("off", "running", None, FALSE, {}) \/ MovesTo
  BY MovesRow, MovesOnly, MovesFacts DEF LoopOnly, TypeInv
<1>2. CASE LoopIs("off", "running", None, FALSE, {})
  <2>1. row'.status \notin {"absent", "success"}
    BY <1>1 DEF TruthInv, RowStays
  <2>2. Promise!Leave
    BY <1>1, <1>2, <2>1, LeaveRefines DEF LoopIs
  <2>3. QED
    BY <2>2 DEF Promise!Next
<1>3. CASE MovesTo
  BY <1>1, <1>3, OnCalm, CalmRefines DEF MovesTo
<1>4. QED
  BY <1>1, <1>2, <1>3

\* An approval that is canceled or answered ran until then.
LEMMA AskedRefine ==
  ASSUME WorkflowAssumption, TypeInv, TruthInv, Cancel \/ Approved \/ Rejected \/ TimedOut
  PROVE  Promise!Drive
<1>1. loop.pc # "off" /\ OnTruth /\ state \in [Id -> State]
  BY DEF Cancel, Approved, Rejected, TimedOut, At, TruthInv, TypeInv, Typed
<1>2. CASE Cancel
  <2>1. /\ RowStays /\ loop'.pc # "off" /\ UNCHANGED graph /\ hist'.amended = hist.amended
        /\ \A n \in Id : child'[n].status = child[n].status /\ Written(n)
    BY <1>2, CancelFacts DEF RowStays, LoopIs, HistStays, Written
  <2>2. ASSUME NEW n \in Id PROVE Promise!NodeMove(n)
    <3>1. CASE run[n] = "asked"
      <4>1. state[n].status = "running" /\ state'[n] = [state[n] EXCEPT !.status = "canceled"]
        BY <1>1, <1>2, <3>1, CancelFacts DEF OnTruth, NodeTruth, Begun
      <4>2. QED
        BY <4>1 DEF Promise!NodeMove, Promise!Finish, Promise!FINISHED
    <3>2. CASE run[n] # "asked"
      BY <1>2, <3>2, CancelFacts DEF Promise!NodeMove, Promise!Rest
    <3>3. QED
      BY <3>1, <3>2
  <2>3. QED
    BY <1>1, <1>2, <2>1, <2>2, OnCalm, CalmRefines, CancelFacts
<1>3. CASE Approved \/ Rejected \/ TimedOut
  <2>1. PICK status \in {"successful", "failed"} :
          /\ UNCHANGED <<graph, child, hist>> /\ loop.waiting \in Id /\ approvals # <<>>
          /\ state' = [state EXCEPT ![loop.waiting].status = status]
          /\ run' = [run EXCEPT ![loop.waiting] = "off"]
          /\ LoopIs("next", loop.seen, None, loop.aborted, loop.todo)
    BY <1>3, AnswersFacts
  <2>2. PICK w \in Id : w = loop.waiting
    BY <2>1
  <2>3. state[w].status = "running"
    <3>1. run[w] = "asked"
      <4>1. approvals \in Seq(Id) /\ loop.waiting = Head(approvals) /\ w = loop.waiting
        BY <1>1, <2>1, <2>2 DEF OnTruth, Asked, TypeInv, Typed, WorkflowAssumption
      <4>2. 1 \in 1..Len(approvals) /\ approvals[1] = w
        BY <2>1, <4>1
      <4>3. QED
        BY <1>1, <4>2 DEF OnTruth, Asked
    <3>2. QED
      BY <1>1, <3>1 DEF OnTruth, NodeTruth, Begun
  <2>4. ASSUME NEW n \in Id PROVE Promise!NodeMove(n) /\ Written(n)
    <3>0. run'[n] \in {run[n], "off"}
      BY <2>1 DEF TypeInv, Shape
    <3>1. /\ n = w => state'[n] = [state[n] EXCEPT !.status = status]
          /\ n # w => state'[n] = state[n]
      BY <1>1, <2>1, <2>2
    <3>2. QED
      BY <2>3, <3>0, <3>1 DEF Promise!NodeMove, Promise!Finish, Promise!Rest, Promise!FINISHED, Written
  <2>5. RowStays
    <3>1. \/ UNCHANGED row
          \/ \E from : row' = TransitionStatus(row, from, "running", FALSE)
      BY <1>3 DEF Approved, Rejected, TimedOut
    <3>2. QED
      BY <3>1, MoveStays DEF RowStays, TypeInv
  <2>6. state' \in [Id -> State]
    <3>1. [state[w] EXCEPT !.status = status] \in State
      BY <1>1 DEF State, FINISHED
    <3>2. QED
      BY <1>1, <2>1, <2>2, <3>1
  <2>7. QED
    BY <1>1, <2>1, <2>4, <2>5, <2>6, OnCalm, CalmRefines DEF LoopIs
<1>4. QED
  BY <1>2, <1>3

\* What a pass of the loop makes of a node: st is its state after the skips, todo what starts.
PassAt(st, todo, n) ==
  /\ st[n] = state[n] \/ (~Settles(state[n]) /\ state[n].status = "pending")
  /\ st[n].status = state[n].status /\ (st[n] # state[n] => Justified(graph, state', n))
  /\ n \in todo => /\ Undecided(st[n]) /\ Led(graph, st, hist.amended, n)
                   /\ state'[n] = [st[n] EXCEPT !.status = "running"]
  /\ n \notin todo => state'[n] = st[n]

\* The nodes that start are reached, those skipped are blocked, the others rest.
LEMMA PassRefines ==
  ASSUME TypeInv, loop.pc # "off", NEW st \in [Id -> State], NEW todo \in SUBSET Id,
         \A m \in Id : PassAt(st, todo, m), NEW n \in Id
  PROVE  Promise!NodeMove(n)
<1>1. state[n] \in State /\ st[n] \in State /\ state \in [Id -> State] /\ PassAt(st, todo, n)
  BY DEF TypeInv, Typed
<1>2. CASE n \in todo
  <2>1. Undecided(st[n]) /\ Led(graph, st, hist.amended, n) /\ state'[n] = [st[n] EXCEPT !.status = "running"]
    BY <1>1, <1>2 DEF PassAt
  <2>2. st[n] = state[n]
    <3>1. CASE ~Settles(state[n])
      <4>1. st[n].doNotRun = FALSE /\ state[n].doNotRun = FALSE /\ st[n].status = state[n].status
        BY <1>1, <2>1, <3>1 DEF PassAt, Undecided, Settles, State
      <4>2. QED
        BY <1>1, <4>1, StateFields
    <3>2. QED
      BY <1>1, <3>1 DEF PassAt
  <2>3. Promise!LedTo(n)
    <3>1. \A m \in Id : st[m].doNotRun = FALSE /\ st[m].status \in FINISHED => state[m] = st[m]
      BY DEF PassAt, FINISHED
    <3>2. Led(graph, state, hist.amended, n)
      BY <2>1, <3>1, LedStays
    <3>3. QED
      BY <3>2, LedIsLed
  <2>4. QED
    BY <2>1, <2>2, <2>3, SameRules DEF Promise!Start, Promise!NodeMove
<1>3. CASE n \notin todo /\ st[n] = state[n]
  BY <1>1, <1>3 DEF PassAt, Promise!NodeMove, Promise!Rest
<1>4. CASE n \notin todo /\ st[n] # state[n]
  <2>1. /\ state[n].doNotRun = FALSE /\ state[n].status = "pending" /\ st[n].status = "pending"
        /\ state'[n] = st[n] /\ Justified(graph, state', n)
    BY <1>1, <1>4 DEF PassAt, Settles, State
  <2>2. st[n].doNotRun = TRUE
    <3>1. st[n].doNotRun # state[n].doNotRun
      BY <1>1, <1>4, <2>1, StateFields
    <3>2. QED
      BY <1>1, <2>1, <3>1 DEF State
  <2>3. /\ [state[n] EXCEPT !.doNotRun = TRUE] \in State
        /\ [state[n] EXCEPT !.doNotRun = TRUE].doNotRun = TRUE
        /\ [state[n] EXCEPT !.doNotRun = TRUE].status = state[n].status
    BY <1>1 DEF State
  <2>4. state'[n] = [state[n] EXCEPT !.doNotRun = TRUE]
    BY <1>1, <2>1, <2>2, <2>3, StateFields
  <2>5. Promise!Blocked(graph, state', n)
    BY <2>1, <2>2, JustifiedBlocked
  <2>6. QED
    BY <2>1, <2>4, <2>5, SameRules DEF Promise!RuleOut, Promise!NodeMove, Undecided
<1>5. QED
  BY <1>2, <1>3, <1>4

\* The three ways in which nodes start.
LEMMA StartsRefine ==
  ASSUME WorkflowAssumption, TypeInv, TruthInv, Ready, NextStep \/ SlowSave \/ Begin
  PROVE  Promise!Drive
<1>1. /\ loop.pc \in {"next", "begin"} /\ OnTruth /\ state \in [Id -> State]
      /\ UNCHANGED <<graph, row, child, hist>>
  BY DEF NextStep, SlowSave, Begin, At, TruthInv, TypeInv, Typed, Around, Jobs
<1>2. PICK st : st = IF Begin THEN state ELSE AfterSkips(graph, state)
  OBVIOUS
<1>3. PICK todo : todo = IF Begin THEN loop.todo ELSE IF SlowSave THEN {} ELSE Starts(graph, st)
  OBVIOUS
<1>4. /\ st \in [Id -> State]
      /\ \A n \in Id : /\ st[n] = state[n] \/ (~Settles(state[n]) /\ state[n].status = "pending")
                       /\ st[n].status = state[n].status
                       /\ st[n] # state[n] => Justified(graph, st, n)
  <2>1. CASE Begin
    BY <1>1, <1>2, <2>1
  <2>2. CASE ~Begin
    <3>1. st = AfterSkips(graph, state)
      BY <1>2, <2>2
    <3>2. ASSUME NEW n \in Id, st[n] # state[n] PROVE Justified(graph, st, n)
      <4>1. state[n].doNotRun # TRUE
        BY <1>1, <3>1, <3>2, AfterSkipsFacts DEF Settles
      <4>2. QED
        BY <1>1, <3>1, <4>1, AfterSkipsFacts DEF Justified
    <3>3. QED
      BY <1>1, <3>1, <3>2, AfterSkipsFacts
  <2>3. QED
    BY <2>1, <2>2
<1>5. /\ todo \in SUBSET Id
      /\ \A n \in todo : Undecided(st[n]) /\ Led(graph, st, hist.amended, n)
  <2>1. CASE Begin
    BY <1>1, <1>2, <1>3, <2>1 DEF Begin, At, OnTruth, LoopTruth, Ready, TypeInv, Typed
  <2>2. CASE ~Begin
    BY <1>3, <2>2, StartsReached DEF Starts
  <2>3. QED
    BY <2>1, <2>2
<1>6. /\ state' \in [Id -> State] /\ loop'.pc # "off"
      /\ \A n \in Id : /\ n \in todo => state'[n] = [st[n] EXCEPT !.status = "running"]
                       /\ n \notin todo => state'[n] = st[n]
                       /\ Written(n)
  <2>1. CASE SlowSave
    <3>1. loop.pc = "next" /\ ~Begin
      BY <2>1 DEF SlowSave, Begin, At
    <3>2. todo = {} /\ state' = st
      BY <1>2, <1>3, <2>1, <3>1, SlowSaveFacts
    <3>3. QED
      BY <1>4, <2>1, <3>2, SlowSaveFacts DEF LoopIs, Written
  <2>2. CASE Begin \/ (NextStep /\ ~Begin /\ ~SlowSave)
    <3>1. Begins(todo, st)
      BY <1>2, <1>3, <2>2 DEF Begin, NextStep, SlowSave, At
    <3>2. /\ state' \in [Id -> State] /\ loop'.pc \in {"read", "end"}
          /\ \A n \in Id : /\ n \in todo => state'[n] = [st[n] EXCEPT !.status = "running"]
                           /\ n \notin todo => state'[n] = st[n]
                           /\ Written(n)
      <4>1. st \in [Id -> State] /\ todo \in SUBSET Id
        BY <1>4, <1>5
      <4>2. /\ state' \in [Id -> State] /\ loop'.pc \in {"read", "end"}
            /\ \A n \in Id : /\ n \in todo =>
                                  /\ state'[n] = [st[n] EXCEPT !.status = "running"]
                                  /\ run'[n] = IF n \in AskedOf(todo) THEN "asked" ELSE "launch"
                             /\ n \notin todo => state'[n] = st[n] /\ run'[n] = run[n]
        BY ONLY <3>1, <4>1, TypeInv, WorkflowAssumption, BeginsFacts
      <4>3. QED
        BY <4>2 DEF Written
    <3>3. QED
      BY <3>2
  <2>3. QED
    BY <2>1, <2>2
<1>7. ASSUME NEW n \in Id, st[n] # state[n] PROVE Justified(graph, state', n)
  <2>1. \A m \in Id : state'[m] = st[m] \/ ~Settles(st[m])
    <3>1. \A m \in todo : st[m].doNotRun = FALSE /\ st[m].status = "pending"
      BY <1>4, <1>5 DEF Undecided, State
    <3>2. QED
      BY <1>6, <3>1 DEF Settles, FINISHED
  <2>2. state'[n].doNotRun = TRUE => st[n].doNotRun = TRUE
    BY <1>4, <1>6 DEF State
  <2>3. QED
    BY <1>4, <1>7, <2>1, <2>2, JustifiedStays
<1>8. \A n \in Id : Promise!NodeMove(n)
  <2>1. \A n \in Id : PassAt(st, todo, n)
    BY <1>4, <1>5, <1>6, <1>7 DEF PassAt
  <2>2. loop.pc # "off"
    BY <1>1
  <2>3. st \in [Id -> State] /\ todo \in SUBSET Id
    BY <1>4, <1>5
  <2>4. QED
    BY <2>1, <2>2, <2>3, PassRefines
<1>9. QED
  BY <1>1, <1>6, <1>8, OnCalm, CalmRefines DEF RowStays

\* The loop ends, or is gone: as a success only when no node runs and what failed was handled.
LEMMA StopsRefine ==
  ASSUME TypeInv, TruthInv, TruthInv', End \/ LoopThrows
  PROVE  Promise!Leave \/ Promise!Abort
<1>1. /\ loop.pc # "off" /\ loop'.pc = "off" /\ UNCHANGED <<graph, run, child>> /\ row \in Row
      /\ row.status \notin {"absent", "success"} /\ hist'.amended = hist.amended
  BY StopsFacts DEF LoopIs, HistStays, TruthInv, TypeInv, Shape, End, LoopThrows, At
<1>2. PICK o \in {"aborted", "failed", "success"} :
        /\ row' = row \/ row' = EndRow(row, o)
        /\ o = "success" => End /\ ~loop.aborted /\ ~WorkflowFailed(graph, state)
        /\ o = "aborted" => End /\ loop.aborted
        /\ End /\ loop.aborted => o = "aborted"
  BY DEF End, LoopThrows, At
<1>3. row'.status \in {row.status, o}
  BY <1>1, <1>2, EndFacts DEF Outcome
<1>4. CASE End /\ loop.aborted
  <2>1. state' = [n \in Id |-> [state[n] EXCEPT !.doNotRun = @ \/ state[n].status = "pending"]]
    BY <1>4 DEF End
  <2>2. row'.status \notin {"absent", "success"}
    BY <1>1, <1>2, <1>3, <1>4
  <2>3. QED
    BY <1>1, <2>1, <2>2 DEF Promise!Abort
<1>5. CASE ~(End /\ loop.aborted)
  <2>1. state' = state
    BY <1>5 DEF End, LoopThrows, Nodes
  <2>2. row'.status = "success" => Promise!EndsWell
    <3>1. SUFFICES ASSUME row'.status = "success" PROVE Promise!EndsWell
      OBVIOUS
    <3>2. End /\ ~loop.aborted /\ ~WorkflowFailed(graph, state)
      BY <1>1, <1>2, <1>3, <3>1
    <3>3. OnTruth /\ loop.pc = "end"
      BY <1>1, <3>2 DEF TruthInv, End, At
    <3>4. \A n \in Id : state[n].status # "running"
      BY <3>3 DEF OnTruth, LoopTruth, NodeTruth, Begun
    <3>5. QED
      BY <3>2, <3>4, SameRules DEF Promise!EndsWell
  <2>3. row'.status # "absent"
    BY <1>1, <1>3
  <2>4. QED
    BY <1>1, <2>1, <2>2, <2>3, LeaveRefines
<1>6. QED
  BY <1>4, <1>5

\* A node ends once it runs.
LEMMA EndRefines ==
  ASSUME state \in [Id -> State], run \in [Id -> RunPc], UNCHANGED <<graph, row, child, loop>>,
         hist'.amended = hist.amended, NEW m \in Id, NEW status \in FINISHED, state' \in [Id -> State],
         state' = [state EXCEPT ![m].status = status], run' = [run EXCEPT ![m] = "done"], state[m].status = "running"
  PROVE  Promise!Drive
<1>1. [state[m] EXCEPT !.status = status].status = status
  BY DEF State
<1>2. ASSUME NEW n \in Id PROVE Promise!NodeMove(n) /\ Written(n)
  <2>1. /\ n = m => state'[n] = [state[n] EXCEPT !.status = status]
        /\ n # m => state'[n] = state[n] /\ run'[n] = run[n]
    OBVIOUS
  <2>2. Promise!NodeMove(n)
    BY <2>1, SameRules DEF Promise!NodeMove, Promise!Finish, Promise!Rest
  <2>3. Written(n)
    BY <1>1, <2>1 DEF Written
  <2>4. QED
    BY <2>2, <2>3
<1>3. QED
  BY <1>2, CalmRefines DEF Calm

\* A statement of its run throws: it ends so, or the end it had becomes a failure.
LEMMA ThrowsRefine ==
  ASSUME TypeInv, TruthInv, NEW m \in Id, OnceAt(m), NodeThrows(m)
  PROVE  Promise!Drive \/ Promise!Amend(m)
<1>1. state \in [Id -> State] /\ run \in [Id -> RunPc] /\ "failed" \in FINISHED
  BY DEF TypeInv, Typed, Shape, FINISHED
<1>2. /\ UNCHANGED <<graph, row, child, loop>> /\ run[m] \in {"pass", "wait", "done"}
      /\ state' = [state EXCEPT ![m].status = "failed"] /\ state' \in [Id -> State]
      /\ run' = [run EXCEPT ![m] = "done"]
      /\ hist'.amended = IF run[m] = "done" THEN hist.amended \cup {m} ELSE hist.amended
  BY ThrowsFacts
<1>3. CASE run[m] # "done"
  <2>1. state[m].status = "running" /\ hist'.amended = hist.amended
    BY <1>2, <1>3 DEF OnceAt
  <2>2. QED
    BY <1>1, <1>2, <2>1, EndRefines
<1>4. CASE run[m] = "done"
  <2>1. run' = run /\ {n \in Id : run'[n] = "done"} = {n \in Id : run[n] = "done"}
    BY <1>1, <1>2, <1>4
  <2>2. m \in {n \in Id : run[n] = "done"} /\ state[m].status \in FINISHED
    BY <1>4 DEF OnceAt
  <2>3. row.status # "success"
    BY <1>4 DEF TruthInv, Succeeded
  <2>4. QED
    BY <1>2, <1>4, <2>1, <2>2, <2>3, SameRules DEF Promise!Amend
<1>5. QED
  BY <1>3, <1>4

\* A node ends once it runs; it gets a job once it was reached; the rest of its run is not seen.
LEMMA RunRefines ==
  ASSUME TypeInv, NEW m \in Id, OnceAt(m), NodeStep(m)
  PROVE  [Promise!Next]_(Promise!vars)
<1>1. state \in [Id -> State] /\ child \in [Id -> Row] /\ run \in [Id -> RunPc]
  BY DEF TypeInv, Typed, Shape
<1>2. CASE Ends(m)
  <2>1. PICK status \in FINISHED : Finishes(m, status) /\ run[m] \in {"launch", "wait"}
    BY <1>2, EndsFinish
  <2>2. /\ UNCHANGED <<graph, row, child, loop>> /\ state' \in [Id -> State] /\ hist'.amended = hist.amended
        /\ state' = [state EXCEPT ![m].status = status] /\ run' = [run EXCEPT ![m] = "done"]
    BY <2>1, FinishesFacts
  <2>3. QED
    BY <1>1, <2>1, <2>2, EndRefines DEF OnceAt, Promise!Next
<1>3. CASE LaunchNode(m)
  <2>1. /\ run[m] = "launch" /\ Met(m) /\ graph.type[m] = "job" /\ UNCHANGED <<graph, row, state, loop, hist>>
        /\ run' = [run EXCEPT ![m] = "pass"]
        /\ child' = [child EXCEPT ![m] = StoreIdRow(CreateRow(@, Home))]
    BY <1>3 DEF LaunchNode, Around
  <2>2. state[m].status = "running" /\ state[m].doNotRun = FALSE /\ child[m].status = "absent"
    BY <2>1 DEF OnceAt
  <2>3. child'[m].status = "running" /\ \A n \in Id : n # m => child'[n] = child[n]
    BY <1>1, <2>1 DEF StoreIdRow, CreateRow, Row
  <2>4. /\ m \notin {n \in Id : child[n].status # "absent"}
        /\ {n \in Id : child'[n].status # "absent"} = {n \in Id : child[n].status # "absent"} \cup {m}
    BY <2>2, <2>3
  <2>5. {n \in Id : run'[n] = "done"} = {n \in Id : run[n] = "done"}
    BY <1>1, <2>1
  <2>6. Promise!Run(m)
    BY <2>1, <2>2, <2>4, <2>5 DEF Promise!Run, Met
  <2>7. QED
    BY <2>6 DEF Promise!Next
<1>4. CASE PassAbort(m) \/ NodeLeaves(m)
  <2>1. UNCHANGED <<graph, row, state, loop, hist>> /\ \A n \in Id : child'[n].status = child[n].status
    BY <1>1, <1>4, AbortFacts DEF PassAbort, NodeLeaves, Around, Jobs
  <2>2. \A n \in Id : Promise!NodeMove(n) /\ Written(n)
    BY <1>1, <1>4, <2>1 DEF PassAbort, NodeLeaves, Promise!NodeMove, Promise!Rest, Written
  <2>3. QED
    BY <1>1, <2>1, <2>2, CalmRefines DEF Calm, Promise!Next
<1>5. QED
  BY <1>2, <1>3, <1>4 DEF NodeStep, Ends

\* The requests, the sweeps and what the jobs do on their runners are not seen: a row that is not there is
\* not made by them, a success stays one.
LEMMA OuterRefines ==
  ASSUME WorkflowAssumption, TypeInv, TruthInv, Outer
  PROVE  UNCHANGED Promise!vars
<1>1. /\ UNCHANGED <<graph, state, run, loop>> /\ hist'.amended = hist.amended
      /\ \A n \in Id : child'[n].status = "absent" <=> child[n].status = "absent"
  BY OuterOutside, OuterChildren DEF Outside, HistStays, ChildMoves
<1>2. row'.status = row.status \/ row.status \notin {"absent", "success"}
  <2>1. row \in Row
    BY DEF TypeInv, Shape
  <2>2. CASE Approve \/ Reject
    BY <2>2 DEF Approve, Reject
  <2>3. CASE Abort
    BY <2>1, <2>3, AbortFacts DEF Abort
  <2>4. CASE Restart \/ SweepDead
    BY <2>1, <2>4, SweepIsSwept DEF Restart, SweepDead, Swept, UnderWay
  <2>5. CASE SweepQuiet
    BY <2>5 DEF SweepQuiet
  <2>6. CASE \E n \in Id, m \in Node : EndParent(n, m)
    BY <2>6 DEF EndParent, EndRow, TransitionStatus, ENDS_FROM
  <2>7. CASE ~(Approve \/ Reject \/ Abort \/ Restart \/ SweepDead \/ SweepQuiet \/ \E n \in Id, m \in Node : EndParent(n, m))
    BY <2>7 DEF Outer, AbortJobs, AbortNode, Lapse, Heartbeat, ChildEnds, EndLost, TakeOver
  <2>8. QED
    BY <2>2, <2>3, <2>4, <2>5, <2>6, <2>7
<1>3. RowStays
  BY OuterRow
<1>4. QED
  BY <1>1, <1>2, <1>3, CalmRefines DEF Calm, RowStays

\* A launch begins the workflow.
LEMMA LaunchRefines ==
  ASSUME TypeInv, TruthInv, Launch
  PROVE  Promise!Launch
<1>1. /\ row.status = "absent" /\ loop'.pc = "find" /\ UNCHANGED <<graph, state, run, child, hist>>
      /\ row' = CreateRow(row, Home)
  BY LaunchFacts DEF LoopIs, Launch
<1>2. loop.pc = "off" /\ row'.status = "running"
  BY <1>1 DEF TruthInv, CreateRow, TypeInv, Shape, Row
<1>3. QED
  BY <1>1, <1>2 DEF Promise!Launch

\* A process that stops takes its loop away, when it has one.
LEMMA CrashRefines ==
  ASSUME TypeInv, TruthInv, Crash
  PROVE  [Promise!Next]_(Promise!vars)
<1>1. /\ loop'.pc = "off" /\ UNCHANGED <<graph, row, state, child, hist>>
      /\ \A n \in Id : run'[n] # "done"
  BY CrashFacts DEF LoopIs
<1>2. CASE loop.pc = "off"
  <2>1. \A n \in Id : Promise!NodeMove(n) /\ Written(n)
    BY <1>1 DEF Promise!NodeMove, Promise!Rest, Written
  <2>2. state \in [Id -> State]
    BY DEF TypeInv, Typed
  <2>3. QED
    BY <1>1, <1>2, <2>1, <2>2, CalmRefines DEF Calm, Promise!Next
<1>3. CASE loop.pc # "off"
  <2>1. row.status \notin {"absent", "success"}
    BY <1>3 DEF TruthInv
  <2>2. Promise!Leave
    BY <1>1, <1>3, <2>1, LeaveRefines
  <2>3. QED
    BY <2>2 DEF Promise!Next
<1>4. QED
  BY <1>2, <1>3

\* Every step of a workflow is one the promise allows.
LEMMA NextRefines ==
  ASSUME WorkflowAssumption, TypeInv, TruthInv, TruthInv', Ready, \A n \in Id : OnceAt(n), [Next]_vars
  PROVE  [Promise!Next]_(Promise!vars)
<1>1. CASE LoopStep \/ SlowSave \/ LoopThrows
  <2>1. CASE Moves
    BY <2>1, MovesRefine
  <2>2. CASE Cancel \/ Approved \/ Rejected \/ TimedOut
    BY <2>2, AskedRefine DEF Promise!Next
  <2>3. CASE NextStep \/ SlowSave \/ Begin
    BY <2>3, StartsRefine DEF Promise!Next
  <2>4. CASE End \/ LoopThrows
    BY <2>4, StopsRefine DEF Promise!Next
  <2>5. QED
    BY <1>1, <2>1, <2>2, <2>3, <2>4 DEF LoopStep, Moves
<1>2. CASE \E n \in Id : NodeStep(n) \/ NodeThrows(n)
  BY <1>2, RunRefines, ThrowsRefine DEF Promise!Next
<1>3. CASE Launch
  BY <1>3, LaunchRefines DEF Promise!Next
<1>4. CASE Crash
  BY <1>4, CrashRefines
<1>5. CASE Outer
  BY <1>5, OuterRefines
<1>6. CASE UNCHANGED vars
  BY <1>6, CalmRefines DEF vars, Calm
<1>7. QED
  BY <1>1, <1>2, <1>3, <1>4, <1>5, <1>6, Kinds

\* A workflow does what it promises: it is driven once, a node starts once and after its links, gets one job
\* at most and keeps its end, and one is ruled out only for links that can not fire any more or by an abort.
\* For any workflow, any number of nodes and of faults.
THEOREM WorkflowKeptHolds == Spec => WorkflowKept
<1> DEFINE Once == \A n \in Id : OnceAt(n)
<1>1. Init => Promise!Init /\ WorkflowInv /\ TypeInv /\ TruthInv /\ Ready /\ Once
  <2> SUFFICES ASSUME Init PROVE Promise!Init /\ WorkflowInv /\ TypeInv /\ TruthInv /\ Ready /\ Once
    OBVIOUS
  <2>1. Ready /\ Once
    BY DEF Init, Off, AbsentRow, Ready, OnceAt
  <2>2. Promise!Init
    <3>1. graph \in Graphs /\ loop.pc = "off" /\ row.status = "absent"
      BY WorkflowAssumption DEF Init, Off, AbsentRow
    <3>2. {n \in Id : child[n].status # "absent"} = {} /\ {n \in Id : run[n] = "done"} = {} /\ hist.amended = {}
      BY DEF Init, AbsentRow
    <3>3. QED
      BY <3>1, <3>2, SameRules DEF Init, Promise!Init
  <2>3. QED
    BY <2>1, <2>2, WorkflowInit, TypeInit, TruthInit, WorkflowAssumption, NoNodeAssumption
<1>2. WorkflowInv /\ TypeInv /\ TruthInv /\ Ready /\ Once /\ [Next]_vars
        => WorkflowInv' /\ TypeInv' /\ TruthInv' /\ Ready' /\ Once'
  BY OnceNext, ReadyNext, WorkflowStep, TypeNext, TruthNext, WorkflowAssumption, NoNodeAssumption DEF WorkflowInv
<1>3. TypeInv /\ TruthInv /\ TruthInv' /\ Ready /\ Once /\ [Next]_vars => [Promise!Next]_(Promise!vars)
  BY NextRefines, WorkflowAssumption
<1> HIDE DEF Once
<1>4. QED
  BY <1>1, <1>2, <1>3, PTL DEF Spec, WorkflowKept, Promise!Spec


-----------------------------------------------------------------------------
(* What a user concludes from the promise                                  *)

\* What the promise allows of a node, from one step to the next.
LEMMA MovesOfNode ==
  ASSUME state \in [Id -> State], NEW n \in Id, Promise!NodeMove(n)
  PROVE  /\ state[n].status \in FINISHED => state'[n] = state[n]
         /\ state[n].status # "pending" => state'[n].status # "pending" /\ state'[n].doNotRun = state[n].doNotRun
         /\ state[n].status = "pending" /\ state'[n].status # "pending" =>
              ~state'[n].doNotRun /\ Promise!LedTo(n)
         /\ state'[n] = state[n] \/ state[n].status = "running" \/ loop.pc # "off"
<1>1. state[n] \in State /\ state[n] = [status |-> state[n].status, doNotRun |-> state[n].doNotRun]
  BY DEF State
<1>2. CASE Promise!Start(n)
  BY <1>1, <1>2, SameRules DEF Promise!Start, Undecided, FINISHED
<1>3. CASE Promise!RuleOut(n)
  BY <1>1, <1>3, SameRules DEF Promise!RuleOut, Undecided, FINISHED
<1>4. CASE Promise!Finish(n)
  BY <1>1, <1>4, SameRules DEF Promise!Finish, FINISHED
<1>5. CASE Promise!Rest(n)
  BY <1>5 DEF Promise!Rest
<1>6. QED
  BY <1>2, <1>3, <1>4, <1>5 DEF Promise!NodeMove

\* A pass, and what ends meanwhile.
LEMMA DriveOrdered ==
  ASSUME state \in [Id -> State], Promise!Ordered, Promise!Drive
  PROVE  Promise!Ordered'
<1>1. /\ UNCHANGED graph /\ state' \in [Id -> State] /\ hist'.amended = hist.amended
      /\ \A n \in Id : Promise!NodeMove(n)
  BY SameRules DEF Promise!Drive
<1>2. \A n \in Id : state[n].status \in FINISHED => state'[n] = state[n]
  BY <1>1, MovesOfNode
<1>3. ASSUME NEW n \in Id, state'[n].status # "pending"
      PROVE  ~state'[n].doNotRun /\ Led(graph', state', hist'.amended, n)
  <2>1. ~state'[n].doNotRun /\ Led(graph, state, hist.amended, n)
    BY <1>1, <1>3, MovesOfNode, LedIsLed DEF Promise!Ordered
  <2>2. QED
    BY <1>1, <1>2, <2>1, LedStays
<1>4. ASSUME NEW n \in {m \in Id : child'[m].status # "absent"}
      PROVE  graph'.type[n] = "job" /\ n \notin graph'.unmet /\ state'[n].status # "pending"
  <2>1. n \in {m \in Id : child[m].status # "absent"}
    BY <1>4 DEF Promise!Drive
  <2>2. QED
    BY <1>1, <2>1, MovesOfNode DEF Promise!Ordered
<1>5. ASSUME row'.status = "success"
      PROVE  loop'.pc = "off" /\ row'.status # "absent" /\ Promise!EndsWell'
  <2>1. row.status = "success" /\ loop.pc = "off" /\ Promise!EndsWell
    BY <1>5 DEF Promise!Drive, Promise!Ordered
  <2>2. loop'.pc = "off"
    BY <1>5, <2>1 DEF Promise!Drive
  <2>3. state' = state
    BY <1>1, <2>1, MovesOfNode DEF Promise!EndsWell
  <2>4. QED
    BY <1>1, <1>5, <2>1, <2>2, <2>3 DEF Promise!EndsWell
<1>6. QED
  BY <1>3, <1>4, <1>5, SameRules DEF Promise!Ordered, Promise!LedTo, Led

\* An end that becomes a failure: what began after it is excepted, and the workflow does not read success.
LEMMA AmendOrdered ==
  ASSUME state \in [Id -> State], Promise!Ordered, NEW m \in Id, Promise!Amend(m)
  PROVE  Promise!Ordered'
<1>1. /\ UNCHANGED graph /\ state' = [state EXCEPT ![m].status = "failed"] /\ hist'.amended = hist.amended \cup {m}
      /\ state[m].status \in FINISHED
      /\ UNCHANGED {n \in Id : child[n].status # "absent"}
  BY SameRules DEF Promise!Amend
<1>2. /\ [state[m] EXCEPT !.status = "failed"].status = "failed"
      /\ [state[m] EXCEPT !.status = "failed"].doNotRun = state[m].doNotRun
  BY DEF State
<1>3. \A n \in Id : /\ n # m => state'[n] = state[n]
                    /\ state'[n].doNotRun = state[n].doNotRun
                    /\ state'[n].status # "pending" <=> state[n].status # "pending"
  <2>1. ASSUME NEW n \in Id
        PROVE  /\ n # m => state'[n] = state[n]
               /\ n = m => state'[n] = [state[m] EXCEPT !.status = "failed"]
    BY <1>1
  <2>2. state[m].status # "pending"
    BY <1>1 DEF FINISHED
  <2>3. ASSUME NEW n \in Id
        PROVE  state'[n].doNotRun = state[n].doNotRun /\ (state'[n].status # "pending" <=> state[n].status # "pending")
    <3>1. CASE n = m
      BY <1>2, <2>1, <2>2, <3>1
    <3>2. CASE n # m
      BY <2>1, <3>2
    <3>3. QED
      BY <3>1, <3>2
  <2>4. QED
    BY <2>1, <2>3
<1>4. ASSUME NEW n \in Id, state'[n].status # "pending"
      PROVE  ~state'[n].doNotRun /\ Led(graph', state', hist'.amended, n)
  <2>1. ~state'[n].doNotRun /\ Led(graph, state, hist.amended, n)
    BY <1>3, <1>4, LedIsLed DEF Promise!Ordered
  <2>2. \A k \in Id : state'[k] = state[k] \/ k \in hist'.amended
    BY <1>1, <1>3
  <2>3. QED
    BY <1>1, <2>1, <2>2, LedStays
<1>5. ASSUME NEW n \in {k \in Id : child'[k].status # "absent"}
      PROVE  graph'.type[n] = "job" /\ n \notin graph'.unmet /\ state'[n].status # "pending"
  <2>1. n \in {k \in Id : child[k].status # "absent"} /\ n \in Id
    BY <1>1, <1>5
  <2>2. QED
    BY <1>1, <1>3, <2>1 DEF Promise!Ordered
<1>6. row'.status # "success"
  BY DEF Promise!Amend
<1>7. QED
  BY <1>4, <1>5, <1>6, SameRules DEF Promise!Ordered, Promise!LedTo, Led

\* The other steps of the promise.
LEMMA OrderedNext ==
  ASSUME state \in [Id -> State], Promise!Ordered, [Promise!Next]_(Promise!vars)
  PROVE  Promise!Ordered'
<1>1. CASE Promise!Drive
  BY <1>1, DriveOrdered
<1>2. CASE Promise!Launch
  BY <1>2 DEF Promise!Launch, Promise!Ordered, Promise!LedTo
<1>3. ASSUME NEW n \in Id, Promise!Run(n) PROVE Promise!Ordered'
  BY <1>3 DEF Promise!Run, Promise!Ordered, Promise!EndsWell, Promise!LedTo
<1>4. CASE Promise!Leave
  BY <1>4 DEF Promise!Leave, Promise!Ordered, Promise!EndsWell, Promise!LedTo
<1>5. CASE Promise!Abort
  <2>1. /\ UNCHANGED graph /\ hist'.amended = hist.amended
        /\ \A n \in Id : state[n].status # "pending" => state'[n] = state[n]
    BY <1>5 DEF Promise!Abort, State
  <2>2. \A n \in Id : state'[n].status = state[n].status
    BY <1>5 DEF Promise!Abort, State
  <2>3. ASSUME NEW n \in Id, state'[n].status # "pending"
        PROVE  ~state'[n].doNotRun /\ Led(graph', state', hist'.amended, n)
    <3>1. ~state'[n].doNotRun /\ Led(graph, state, hist.amended, n)
      BY <2>1, <2>2, <2>3, LedIsLed DEF Promise!Ordered
    <3>2. QED
      BY <2>1, <3>1, LedStays DEF FINISHED
  <2>4. row'.status # "success"
    BY <1>5 DEF Promise!Abort, Promise!Ordered
  <2>5. QED
    BY <1>5, <2>1, <2>2, <2>3, <2>4, SameRules DEF Promise!Abort, Promise!Ordered, Promise!LedTo, Led
<1>6. CASE UNCHANGED Promise!vars
  BY <1>6 DEF Promise!vars, Promise!Ordered, Promise!EndsWell, Promise!LedTo
<1>7. QED
  BY <1>1, <1>2, <1>3, <1>4, <1>5, <1>6, AmendOrdered DEF Promise!Next

\* A workflow runs in the order of its links: a node that began was led to by them, and is still so at any
\* later time; a job is of a node that began and is to have one; one that was ruled out never began; and a
\* workflow that reads success is over for good, with no node that runs and no failure nobody handled.
THEOREM WorkflowOrdered == Spec => []Promise!Ordered
<1>1. Promise!Init => Promise!Ordered
  BY DEF Promise!Init, Promise!Ordered
<1>2. TypeInv /\ Promise!Ordered /\ [Promise!Next]_(Promise!vars) => Promise!Ordered'
  BY OrderedNext DEF TypeInv, Typed
<1>3. Spec => []TypeInv
  BY TypeInit, TypeNext, WorkflowInit, WorkflowStep, WorkflowAssumption, NoNodeAssumption, PTL DEF Spec, WorkflowInv
<1>4. QED
  BY <1>1, <1>2, <1>3, WorkflowKeptHolds, PTL DEF WorkflowKept, Promise!Spec

-----------------------------------------------------------------------------
(* What a job promises, of the jobs of the nodes                           *)

\* A row that is there runs until it ends or is given up, and from there again or to its end.
ChildGoes(r, s) == ChildMoves(r, s) /\ r.status \in ChildStatus

LEMMA ChildAllowed ==
  ASSUME NEW n \in Id,
         ChildGoes(child[n], child'[n]) \/ (child[n].status = "absent" /\ child'[n].status = "running")
  PROVE  NodeJobs!JobMove(n)
<1> DEFINE a == child[n].status
           b == child'[n].status
           runs(s) == IF s = "absent" THEN 0 ELSE 1
           told(s) == IF s \in Outcome THEN 1 ELSE 0
<1>1. \/ a = b
      \/ a = "absent" /\ b = "running"
      \/ a \in {"running", "abandoned"} /\ b \in {"running", "abandoned", "success", "failed", "aborted"}
  BY DEF ChildGoes, ChildMoves, ChildStatus
<1>2. /\ NodeJobs!Quiet(n) <=> runs(b) = runs(a) /\ told(b) = told(a)
      /\ \A F, to : NodeJobs!Moves(n, F, to) <=> PhaseOf(a) \in F /\ PhaseOf(b) = to
  BY DEF NodeJobs!Quiet, NodeJobs!Moves
<1>3. /\ NodeJobs!Rest(n) <=> PhaseOf(b) = PhaseOf(a) /\ NodeJobs!Quiet(n)
      /\ NodeJobs!Recover(n) <=> NodeJobs!Moves(n, {"adrift"}, "underway") /\ runs(a) = 1 /\ NodeJobs!Quiet(n)
      /\ NodeJobs!Start(n) <=>
           NodeJobs!Moves(n, {"none"}, "underway") /\ runs(a) = 0 /\ runs(b) = 1 /\ told(b) = told(a)
      /\ NodeJobs!Finish(n) <=> /\ NodeJobs!Moves(n, {"underway", "adrift"}, "ended")
                                /\ told(a) = 0 /\ told(b) = 1 /\ runs(b) = runs(a)
  BY DEF NodeJobs!Rest, NodeJobs!Recover, NodeJobs!Start, NodeJobs!Finish
<1>4. /\ PhaseOf("absent") = "none" /\ PhaseOf("running") = "underway" /\ PhaseOf("abandoned") = "adrift"
      /\ \A s \in {"success", "failed", "aborted"} : PhaseOf(s) = "ended" /\ told(s) = 1 /\ runs(s) = 1
      /\ \A s \in {"absent", "running", "abandoned"} : told(s) = 0
      /\ runs("absent") = 0 /\ runs("running") = 1 /\ runs("abandoned") = 1
  BY DEF PhaseOf, Outcome
<1> HIDE DEF a, b, runs, told
<1>5. CASE a = b
  BY <1>2, <1>3, <1>5 DEF NodeJobs!JobMove
<1>6. CASE a = "absent" /\ b = "running"
  BY <1>2, <1>3, <1>4, <1>6 DEF NodeJobs!JobMove
<1>7. CASE a = "running" /\ b = "abandoned"
  BY <1>2, <1>4, <1>7 DEF NodeJobs!JobMove, NodeJobs!GiveUp
<1>8. CASE a = "abandoned" /\ b = "running"
  BY <1>2, <1>3, <1>4, <1>8 DEF NodeJobs!JobMove
<1>9. CASE a \in {"running", "abandoned"} /\ b \in {"success", "failed", "aborted"}
  BY <1>2, <1>3, <1>4, <1>9 DEF NodeJobs!JobMove
<1>10. QED
  BY <1>1, <1>5, <1>6, <1>7, <1>8, <1>9

\* Every step moves the jobs so: the launch of a node is the first of its row, the loop and an abort only flag.
LEMMA ChildrenAllowed ==
  ASSUME WorkflowAssumption, TypeInv, TruthInv, \A n \in Id : OnceAt(n), Next
  PROVE  NodeJobs!Next
<1> SUFFICES ASSUME NEW n \in Id
             PROVE  ChildGoes(child[n], child'[n]) \/ (child[n].status = "absent" /\ child'[n].status = "running")
  BY ChildAllowed DEF NodeJobs!Next
<1>1. child \in [Id -> Row] /\ child[n] \in Row /\ child[n].status \in ChildStatus
  BY DEF TypeInv, Typed, Shape, TruthInv
<1>2. child'[n].status = child[n].status => ChildGoes(child[n], child'[n])
  BY <1>1 DEF ChildGoes, ChildMoves
<1>3. CASE LoopStep \/ SlowSave \/ LoopThrows \/ Launch \/ Crash
  <2>1. CASE Cancel
    BY <1>2, <2>1, CancelFacts
  <2>2. CASE ~Cancel
    <3>1. UNCHANGED child
      BY <1>3, <2>2
         DEF LoopStep, Find, Read, Flag, Unhold, AskApproval, NoApproval, ReadAnswer, Approved, Rejected, TimedOut,
             NotAnswered, NextStep, Begin, End, SlowSave, LoopThrows, Launch, Crash, Answers, Jobs, Nodes, Around
    <3>2. QED
      BY <1>2, <3>1
  <2>3. QED
    BY <2>1, <2>2
<1>4. ASSUME NEW m \in Id, NodeStep(m)
      PROVE  ChildGoes(child[n], child'[n]) \/ (child[n].status = "absent" /\ child'[n].status = "running")
  <2>1. CASE Ends(m)
    <3>1. UNCHANGED child
      BY <2>1, EndsFinish, FinishesFacts
    <3>2. QED
      BY <1>2, <3>1
  <2>2. CASE LaunchNode(m)
    <3>1. /\ child' = [child EXCEPT ![m] = StoreIdRow(CreateRow(@, Home))]
          /\ child[m].status = "absent"
      BY <2>2 DEF LaunchNode, OnceAt
    <3>2. child'[m].status = "running" /\ (n # m => child'[n] = child[n])
      BY <1>1, <3>1 DEF StoreIdRow, CreateRow, Row
    <3>3. QED
      BY <1>2, <3>1, <3>2
  <2>3. CASE PassAbort(m) \/ NodeLeaves(m)
    <3>1. child'[n] \in {child[n], RequestAbortRow(child[n])}
      BY <1>1, <2>3 DEF PassAbort, NodeLeaves, Around, Jobs
    <3>2. QED
      BY <1>1, <1>2, <3>1, AbortFacts
  <2>4. QED
    BY <1>4, <2>1, <2>2, <2>3 DEF NodeStep, Ends
<1>5. CASE Outer
  BY <1>1, <1>5, OuterChildren DEF ChildGoes
<1>6. CASE \E m \in Id : NodeThrows(m)
  <2>1. UNCHANGED child
    BY <1>6, ThrowsFacts
  <2>2. QED
    BY <1>2, <2>1
<1>7. QED
  BY <1>3, <1>4, <1>5, <1>6, Kinds

\* The job of each node keeps what a job promises (JobPromise), whatever the workflow around it does: it is
\* launched once, ends once, and stays as it ended. For any workflow, any number of nodes and of faults.
THEOREM NodeJobsKeptHolds == Spec => NodeJobsKept
<1> DEFINE Once == \A n \in Id : OnceAt(n)
<1>1. Init => NodeJobs!Init /\ WorkflowInv /\ TypeInv /\ TruthInv /\ Once
  <2> SUFFICES ASSUME Init PROVE NodeJobs!Init /\ WorkflowInv /\ TypeInv /\ TruthInv /\ Once
    OBVIOUS
  <2>1. \A n \in Id : child[n].status = "absent"
    BY DEF Init, AbsentRow
  <2>2. PhaseOf("absent") = "none" /\ "absent" \notin Outcome
    BY DEF PhaseOf, Outcome
  <2>3. NodeJobs!Init
    BY <2>1, <2>2 DEF NodeJobs!Init
  <2>4. Once
    BY DEF Init, OnceAt, AbsentRow
  <2>5. QED
    BY <2>3, <2>4, WorkflowInit, TypeInit, TruthInit, WorkflowAssumption, NoNodeAssumption
<1>2. WorkflowInv /\ TypeInv /\ TruthInv /\ Once /\ [Next]_vars => WorkflowInv' /\ TypeInv' /\ TruthInv' /\ Once'
  BY OnceNext, WorkflowStep, TypeNext, TruthNext, WorkflowAssumption, NoNodeAssumption DEF WorkflowInv
<1>3. TypeInv /\ TruthInv /\ Once /\ [Next]_vars => [NodeJobs!Next]_(NodeJobs!vars)
  BY ChildrenAllowed, WorkflowAssumption DEF vars, NodeJobs!vars
<1> HIDE DEF Once
<1>4. QED
  BY <1>1, <1>2, <1>3, PTL DEF Spec, NodeJobsKept, NodeJobs!Spec
=============================================================================

------------------------------- MODULE JobRow -------------------------------
(***************************************************************************)
(* One row of the `jobs` table and the statements that write it.           *)
(*                                                                         *)
(* Every process of an AnsibleForms cluster (app nodes, the worker, the    *)
(* RTEs) decides what becomes of a job with one conditional UPDATE on its  *)
(* row, so each statement is an operator from a row to a row : the row is  *)
(* returned unchanged when the WHERE clause does not match it.             *)
(*                                                                         *)
(* `end` stands for "the column end is not NULL", `awx_id` for "the id of  *)
(* the job on its remote runner is known", NoNode for a NULL tracker or    *)
(* host.                                                                   *)
(*                                                                         *)
(* An operator X_Fault next to X is X with a plausible fault in it: a run  *)
(* that checks a property is shown to notice the fault (PROJECT.json).     *)
(***************************************************************************)
CONSTANTS Node,      \* the names of the processes (AF_NODE_ID), RTEs included
          NoNode     \* a NULL node column

ASSUME NoNodeAssumption == NoNode \notin Node

JobType == {"ansible", "awx", "multistep", "workflow"}

TERMINAL_STATUS == {"success", "failed", "aborted", "rejected", "abandoned", "warning"}

ENDS_FROM == {"running", "abandoned"}

\* the statuses only endJobStatus writes : what really happened to the job
Outcome == {"success", "failed", "aborted", "warning"}

\* "absent" : the id is not taken yet ; "deleted" : the row is gone, ids are never used again
Status == {"absent", "deleted", "running", "approve"} \cup TERMINAL_STATUS

Row == [status          : Status,
        job_type        : JobType,
        abort_requested : BOOLEAN,
        end             : BOOLEAN,
        tracker         : Node \cup {NoNode},
        host            : Node \cup {NoNode},
        awx_id          : BOOLEAN]

Exists(r) == r.status \notin {"absent", "deleted"}

AbsentRow(type) ==
  [status |-> "absent", job_type |-> type, abort_requested |-> FALSE, end |-> FALSE,
   tracker |-> NoNode, host |-> NoNode, awx_id |-> FALSE]

-----------------------------------------------------------------------------
(* Creation and the moves from one status to another                       *)

\* Job.create : running, followed by the node that takes the launch
CreateRow(r, self) == [r EXCEPT !.status = "running", !.tracker = self]

\* without the guard on the status it leaves
TransitionStatus_Unguarded(r, from, to, end) ==
  [r EXCEPT !.status = to, !.end = end, !.abort_requested = r.abort_requested /\ to \notin TERMINAL_STATUS]

\* Job.transitionStatus : only from the given statuses ; an end answers the abort, except that a
\* rejected workflow job keeps it (its loop runs on)
TransitionStatus(r, from, to, end) ==
  IF r.status \notin from THEN r
  ELSE [r EXCEPT !.status = to,
                 !.end = end,
                 !.abort_requested =
                   r.abort_requested /\ (\/ to \notin TERMINAL_STATUS
                                         \/ to = "rejected" /\ r.job_type = "workflow")]

\* the UPDATE of Job.endJobStatus
EndRow(r, outcome) == TransitionStatus(r, ENDS_FROM, outcome, TRUE)

\* approvalGate : the job halts, and `end` is written with the status
HoldRow(r) == TransitionStatus(r, {"running"}, "approve", TRUE)

\* Job.reject
RejectRow(r) == TransitionStatus(r, {"approve"}, "rejected", TRUE)

\* the conditional claim of Job.continue : the approver's node follows the job from here
ContinueRow(r, self) ==
  IF r.status = "approve" THEN [r EXCEPT !.status = "running", !.tracker = self] ELSE r

\* Job.update with the id the runner gave the launch
StoreIdRow(r) == [r EXCEPT !.awx_id = TRUE]

-----------------------------------------------------------------------------
(* Aborts                                                                  *)

\* running, or a workflow job waiting on one of its approval nodes (WAITING_WORKFLOW)
UnderWay(r) == r.status = "running" \/ (r.status = "approve" /\ r.job_type = "workflow")

RequestAbortRow(r) == IF UnderWay(r) THEN [r EXCEPT !.abort_requested = TRUE] ELSE r

ResetAbortRow(r) == [r EXCEPT !.abort_requested = FALSE]

-----------------------------------------------------------------------------
(* The sweeps : what gives a job up whose follower is gone                 *)

AbandonedRow_Ends(r) == [r EXCEPT !.status = "abandoned", !.abort_requested = FALSE, !.end = TRUE]
AbandonedRow(r) == [r EXCEPT !.status = "abandoned", !.abort_requested = FALSE]

\* Job.abandon, hourly : of a job a day old with no output line for a day
AbandonQuietRow(r) ==
  IF r.status = "running" /\ r.host = NoNode THEN AbandonedRow(r) ELSE r

\* the jobs of every node, and the untracked ones never
AbandonOwnRow_AnyNode(r, tracker, untracked) ==
  IF UnderWay(r) /\ r.host = NoNode THEN AbandonedRow(r) ELSE r

\* Job.abandonOwn, at a process start : tracker=NULL matches no row in SQL
AbandonOwnRow(r, tracker, untracked) ==
  IF /\ UnderWay(r)
     /\ r.host = NoNode
     /\ \/ tracker # NoNode /\ r.tracker = tracker
        \/ untracked /\ r.tracker = NoNode
  THEN AbandonedRow(r) ELSE r

\* COALESCE(host, tracker) : the process the job depends on
Owner_HostOnly(r) == r.host
Owner(r) == IF r.host # NoNode THEN r.host ELSE r.tracker

\* Job.abandonDeadNodes : `recent` are the nodes seen within NODE_DEAD_SECONDS, `kept` the
\* socket-mode RTEs seen within RTE_QUEUE_MINUTES
AbandonDeadRow(r, self, recent, kept) ==
  IF /\ UnderWay(r)
     /\ Owner(r) # NoNode
     /\ Owner(r) # self
     /\ Owner(r) \notin recent
     /\ r.host \notin kept
  THEN AbandonedRow(r) ELSE r

-----------------------------------------------------------------------------
(* Following an abandoned job again (lib/jobResume.js)                     *)

\* findResumable : `old` says the job started more than RESUME_WITHIN_HOURS ago
Resumable(r, old) ==
  /\ r.status = "abandoned" /\ ~r.end /\ r.host = NoNode
  /\ r.awx_id /\ r.job_type = "awx" /\ ~old

\* claim : matched on the tracker read before
Claimable_AnyTracker(r, seen) == r.status \in {"running", "abandoned"} /\ ~r.end
Claimable(r, seen) == r.status = "abandoned" /\ ~r.end /\ r.tracker = seen

ClaimRow(r, seen, self) ==
  IF Claimable(r, seen) THEN [r EXCEPT !.status = "running", !.tracker = self] ELSE r

\* giveUp : abandoned for good, with an end
GiveUpRow(r) ==
  IF r.status = "running" THEN [r EXCEPT !.status = "abandoned", !.end = TRUE] ELSE r

\* Job.followedElsewhere : a row that is gone, or an RTE's, is nobody else's
FollowedElsewhere_Adrift(r, self) ==
  r.status = "abandoned" /\ r.host = NoNode /\ r.tracker \notin {NoNode, self}
FollowedElsewhere(r, self) ==
  Exists(r) /\ r.host = NoNode /\ r.tracker \notin {NoNode, self}

-----------------------------------------------------------------------------
(* What a user sees of a status (JobPromise)                               *)

PhaseOf(status) ==
  CASE status = "absent"    -> "none"
    [] status = "running"   -> "underway"
    [] status = "approve"   -> "waiting"
    [] status = "abandoned" -> "adrift"
    [] status = "rejected"  -> "rejected"
    [] status \in Outcome   -> "ended"
    [] status = "deleted"   -> "gone"
=============================================================================

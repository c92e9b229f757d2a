-------------------------- MODULE RepositoryClaim --------------------------
(***************************************************************************)
(* The claims of the git repositories: status = 'running' in the table is  *)
(* the lock every operation on a working tree takes, on whatever node it   *)
(* runs, and the sweeps that release the claims nobody will release.       *)
(*                                                                         *)
(* An operation is a pull, a clone, a reset, a push (sync), a rename, a    *)
(* delete, or a designer save, which takes the claims of several           *)
(* repositories or none. It reads, claims, works on the trees and ends in  *)
(* separate statements; only the claim and the end of a save look at the   *)
(* row they change.                                                        *)
(*                                                                         *)
(* Time appears in two places: a claim grows old (CLAIM_MAX_HOURS), and a  *)
(* node writes no heartbeat for NODE_DEAD_SECONDS.                         *)
(***************************************************************************)
EXTENDS Naturals, FiniteSets

CONSTANTS Node,         \* the nodes of the cluster
          Worker,       \* the one that sweeps
          NoNode,       \* no claim, or one from before 7
          Repo,         \* the repositories of the first moment
          Git,          \* those git runs in; the others are only saved to, in this run
          Op,           \* operations under way at the same time
          Legacy,       \* the repositories left claimed by a version before 7
          FaultKinds,   \* the faults of this run: a subset of AllFaults
          MaxFaults     \* how many of them happen

AllFaults == {"crash",      \* a node stops, in the middle of what it does
              "lapse",      \* a live node writes no heartbeat for NODE_DEAD_SECONDS
              "hang",       \* an operation goes on for CLAIM_MAX_HOURS
              "statement"}  \* the statement that ends an operation fails

ASSUME RepositoryAssumption ==
  /\ Worker \in Node /\ NoNode \notin Node /\ Repo # {}
  /\ Git \subseteq Repo /\ Legacy \subseteq Repo
  /\ MaxFaults \in Nat /\ FaultKinds \subseteq AllFaults

VARIABLES
  row,      \* [Repo -> Row] the table `repositories`
  op,       \* [Op -> Operation] what runs
  up,       \* the nodes that run
  fresh,    \* the nodes whose heartbeat is young
  boot,     \* the worker has not released the claims of its start yet
  upset,    \* for the properties: the repositories whose claim was taken from an operation at work
  faults

vars == <<row, op, up, fresh, boot, upset, faults>>

\* a pull is also the clone a user or the start asks for: the same steps, and a clone over a tree pulls
Kind == {"pull", "create", "reset", "delete", "sync", "rename", "save"}
\* gone: not in the table; quiet: status is NULL, success or failed, and claim_node is read by nobody
Status == {"gone", "quiet", "running"}

\* early: claimed before its process started; old: longer than CLAIM_MAX_HOURS ago
Row == [status : Status, node : Node \cup {NoNode}, early : BOOLEAN, old : BOOLEAN]
Pc == {"idle", "check", "read", "claim", "work", "end", "fail"}
\* todo: the repositories to claim; held: those claimed; prior: the status to give back
Operation == [pc : Pc, kind : Kind, node : Node, todo : SUBSET Repo, held : SUBSET Repo,
              prior : [Repo -> Status]]

TypeOK ==
  /\ row \in [Repo -> Row]
  /\ op \in [Op -> Operation]
  /\ up \subseteq Node /\ fresh \subseteq Node /\ boot \in BOOLEAN
  /\ upset \subseteq Repo
  /\ faults \in 0..MaxFaults

Resting == [pc |-> "idle", kind |-> "pull", node |-> Worker, todo |-> {}, held |-> {},
            prior |-> [r \in Repo |-> "quiet"]]
RowOf(status) == [status |-> status, node |-> NoNode, early |-> FALSE, old |-> FALSE]
Quiet == RowOf("quiet")

Init ==
  /\ row = [r \in Repo |-> RowOf(IF r \in Legacy THEN "running" ELSE "quiet")]
  /\ op = [o \in Op |-> Resting]
  /\ up = Node /\ fresh = Node /\ boot = TRUE
  /\ upset = {} /\ faults = 0

Fault(kind) == kind \in FaultKinds /\ faults < MaxFaults /\ faults' = faults + 1

At(o, pc) == op[o].pc = pc
Goes(o, pc) == op' = [op EXCEPT ![o].pc = pc]
Leaves(o) == op' = [op EXCEPT ![o] = Resting]

\* the operations at work on a tree: after their claim, before their end
AtWork(r) == {o \in Op : r \in op[o].held}

\* writeState by name: a row that is gone is not changed; what is at work there loses its claim
WriteStates(rs, by, status) ==
  /\ row' = [r \in Repo |-> IF r \notin rs \/ row[r].status = "gone" THEN row[r]
                          ELSE IF status[r] = "quiet" THEN Quiet ELSE [row[r] EXCEPT !.status = status[r]]]
  /\ upset' = upset \cup {r \in rs : AtWork(r) \ {by} # {}}

Cluster == UNCHANGED <<up, fresh, boot>>

-----------------------------------------------------------------------------
(* An operation begins                                                     *)

\* a pull looks at the tree first; a save, a push and a rename read the row; a reset and a
\* delete claim at once; a create writes its row and launches a clone
FirstStep(kind) ==
  IF kind \in {"pull", "create"} THEN "check"
  ELSE IF kind \in {"save", "sync", "rename"} THEN "read" ELSE "claim"

Begins(o, n, kind, repos) ==
  /\ At(o, "idle") /\ n \in up
  /\ op' = [op EXCEPT ![o] = [Resting EXCEPT !.pc = FirstStep(kind), !.kind = kind, !.node = n, !.todo = repos]]
  /\ Cluster /\ UNCHANGED <<upset, faults>>

Begin(o, n) ==
  /\ \E kind \in Kind \ {"create", "save"}, r \in Git : Begins(o, n, kind, {r})
  /\ UNCHANGED row

\* a designer save claims every forms repository, a save of a playbook or a vars file its own
BeginSave(o, n) ==
  /\ \E repos \in {Repo} \cup {{r} : r \in Git} : Begins(o, n, "save", repos)
  /\ UNCHANGED row

Create(o, n) ==
  \E r \in Repo : /\ row[r].status = "gone"
                  /\ Begins(o, n, "create", {r})
                  /\ row' = [row EXCEPT ![r] = Quiet]

-----------------------------------------------------------------------------
(* Before the claim                                                        *)

\* assertNoLocalChanges: refused over changes not pushed, or when git cannot tell
Check(o) ==
  /\ At(o, "check")
  /\ \/ Goes(o, "claim")
     \/ IF op[o].kind = "create" THEN Goes(o, "fail") ELSE Leaves(o)
  /\ Cluster /\ UNCHANGED <<row, upset, faults>>

\* the status to give back; another operation's claim is never one, but for a rename
Prior(kind, status) == IF status = "running" /\ kind # "rename" THEN "quiet" ELSE status

\* the repositories in the order of the table
NextRepo(o) == CHOOSE r \in op[o].todo : TRUE

\* r is behind it: claimed, or not in the table and none of a save's
Past(o, r) == [op[o] EXCEPT !.todo = @ \ {r}, !.pc = IF op[o].todo = {r} THEN "work" ELSE "read"]

Read(o) ==
  /\ At(o, "read")
  /\ LET r == NextRepo(o)
     IN op' = [op EXCEPT ![o] =
          IF row[r].status # "gone" THEN [@ EXCEPT !.pc = "claim", !.prior[r] = Prior(op[o].kind, row[r].status)]
          ELSE IF @.kind = "save" THEN Past(o, r) ELSE Resting]
  /\ Cluster /\ UNCHANGED <<row, upset, faults>>

-----------------------------------------------------------------------------
(* claim : the check and the set are one statement                         *)

Claimable_Any(r) == row[r].status # "gone"
Claimable(r) == row[r].status = "quiet"

Claim(o) ==
  /\ At(o, "claim")
  /\ LET r == NextRepo(o)
     IN /\ Claimable(r)
        /\ row' = [row EXCEPT ![r] = [RowOf("running") EXCEPT !.node = op[o].node]]
        /\ op' = [op EXCEPT ![o] = [Past(o, r) EXCEPT !.held = @ \cup {r}]]
        /\ upset' = IF AtWork(r) = {} THEN upset \ {r} ELSE upset
  /\ Cluster /\ UNCHANGED faults

\* claimAllOrRollback gives back what it has; a create writes why its clone did not run
Refused(o) ==
  /\ At(o, "claim") /\ ~Claimable(NextRepo(o))
  /\ op' = [op EXCEPT ![o] =
       IF @.kind = "create" THEN [@ EXCEPT !.pc = "fail"]
       ELSE IF @.held # {} THEN [@ EXCEPT !.pc = "end", !.todo = {}] ELSE Resting]
  /\ Cluster /\ UNCHANGED <<row, upset, faults>>

-----------------------------------------------------------------------------
(* The work on the trees                                                   *)

\* git, the writes of a save, or the move of a rename, whatever they make of it; the tree of a reset,
\* a delete or a rename may not go away
Work(o) ==
  /\ At(o, "work")
  /\ \/ Goes(o, "end")
     \/ op[o].kind \in {"reset", "delete", "rename"} /\ Goes(o, "fail")
  /\ Cluster /\ UNCHANGED <<row, upset, faults>>

-----------------------------------------------------------------------------
(* The ends: by name, whoever holds the claim by now                       *)

\* a save has worked on no repository of the table
EndNothing(o) ==
  /\ At(o, "end") /\ op[o].held = {}
  /\ Leaves(o)
  /\ Cluster /\ UNCHANGED <<row, upset, faults>>

End(o) ==
  /\ At(o, "end") /\ op[o].kind \notin {"save", "delete"} /\ op[o].held # {}
  /\ WriteStates(op[o].held, o,
       [r \in Repo |-> IF op[o].kind \in {"sync", "rename"} THEN op[o].prior[r] ELSE "quiet"])
  /\ Leaves(o)
  /\ Cluster /\ UNCHANGED faults

EndDelete(o) ==
  /\ At(o, "end") /\ op[o].kind = "delete"
  /\ row' = [r \in Repo |-> IF r \in op[o].held THEN RowOf("gone") ELSE row[r]]
  /\ upset' = upset \cup {r \in op[o].held : AtWork(r) # {o}}
  /\ Leaves(o)
  /\ Cluster /\ UNCHANGED faults

\* releaseWrite : only a claim of this node, or of none
Releases(o, r) == row[r].status = "running" /\ row[r].node \in {op[o].node, NoNode}

Without(o, r) == IF op[o].held = {r} THEN Resting ELSE [op[o] EXCEPT !.held = @ \ {r}]
LetGo(o, r) == op' = [op EXCEPT ![o] = Without(o, r)]

EndSave(o) ==
  /\ At(o, "end") /\ op[o].kind = "save"
  /\ \E r \in op[o].held :
       /\ IF Releases(o, r)
          THEN /\ row' = [row EXCEPT ![r] = RowOf(op[o].prior[r])]
               /\ upset' = IF AtWork(r) = {o} THEN upset ELSE upset \cup {r}
          ELSE UNCHANGED <<row, upset>>
       /\ LetGo(o, r)
  /\ Cluster /\ UNCHANGED faults

\* the catch of a create, a reset, a delete or a rename
Fail(o) ==
  /\ At(o, "fail")
  /\ WriteStates(op[o].held \cup op[o].todo, o,
                 [r \in Repo |-> IF op[o].kind = "rename" THEN op[o].prior[r] ELSE "quiet"])
  /\ Leaves(o)
  /\ Cluster /\ UNCHANGED faults

\* the statement of an end fails: a create, a reset and a rename write in their catch in its stead
EndLost(o) ==
  /\ op[o].pc \in {"end", "fail"} /\ op[o].held # {} /\ Fault("statement")
  /\ IF At(o, "end") /\ op[o].kind \in {"create", "reset", "rename"} THEN Goes(o, "fail")
     ELSE \E r \in op[o].held : LetGo(o, r)
  /\ Cluster /\ UNCHANGED <<row, upset>>

-----------------------------------------------------------------------------
(* releaseStaleClaims                                                      *)

Stale_Started(r, atStart) ==
  \/ row[r].node # NoNode /\ row[r].node \notin fresh
  \/ row[r].old
  \/ atStart /\ row[r].node \in {Worker, NoNode}
Stale_Dead(r, atStart) ==
  \/ row[r].node # NoNode /\ row[r].node \notin fresh
  \/ atStart /\ (row[r].node = NoNode \/ (row[r].node = Worker /\ row[r].early))
Stale(r, atStart) ==
  \/ row[r].node # NoNode /\ row[r].node \notin fresh
  \/ row[r].old
  \/ atStart /\ (row[r].node = NoNode \/ (row[r].node = Worker /\ row[r].early))

Release(atStart) ==
  LET rs == {r \in Repo : row[r].status = "running" /\ Stale(r, atStart)}
  IN /\ row' = [r \in Repo |-> IF r \in rs THEN Quiet ELSE row[r]]
     /\ upset' = upset \cup {r \in rs : AtWork(r) # {}}

\* once at the worker's start, and again if that fails at the next start only
BootRelease ==
  /\ boot /\ Worker \in up
  /\ boot' = FALSE
  /\ \/ Release(TRUE) /\ UNCHANGED faults
     \/ Fault("statement") /\ UNCHANGED <<row, upset>>
  /\ UNCHANGED <<op, up, fresh>>

Sweep ==
  /\ Worker \in up /\ ~boot
  /\ Release(FALSE)
  /\ Cluster /\ UNCHANGED <<op, faults>>

-----------------------------------------------------------------------------
(* Time and faults                                                         *)

\* CLAIM_MAX_HOURS have passed
ClaimAges(r) ==
  /\ row[r].status = "running" /\ row[r].node # NoNode /\ ~row[r].old
  /\ IF AtWork(r) = {} THEN UNCHANGED faults ELSE Fault("hang")
  /\ row' = [row EXCEPT ![r].old = TRUE]
  /\ Cluster /\ UNCHANGED <<op, upset>>

\* NODE_DEAD_SECONDS have passed
HeartbeatAges(n) ==
  /\ n \in fresh
  /\ IF n \in up THEN Fault("lapse") ELSE UNCHANGED faults
  /\ fresh' = fresh \ {n}
  /\ UNCHANGED <<row, op, up, boot, upset>>

Heartbeat(n) ==
  /\ n \in up
  /\ fresh' = fresh \cup {n}
  /\ UNCHANGED <<row, op, up, boot, upset, faults>>

Crash(n) ==
  /\ n \in up /\ Fault("crash")
  /\ up' = up \ {n}
  /\ op' = [o \in Op |-> IF op[o].node = n THEN Resting ELSE op[o]]
  /\ row' = [r \in Repo |-> IF row[r].node = n /\ row[r].status = "running" THEN [row[r] EXCEPT !.early = TRUE] ELSE row[r]]
  /\ UNCHANGED <<fresh, boot, upset>>

Restart(n) ==
  /\ n \notin up
  /\ up' = up \cup {n} /\ boot' = (boot \/ n = Worker)
  /\ UNCHANGED <<row, op, fresh, upset, faults>>

-----------------------------------------------------------------------------
Step(o) ==
  \/ Check(o) \/ Read(o) \/ Claim(o) \/ Refused(o) \/ Work(o)
  \/ EndNothing(o) \/ End(o) \/ EndDelete(o) \/ EndSave(o) \/ Fail(o)

Next ==
  \/ \E o \in Op : \/ \E n \in Node : Begin(o, n) \/ BeginSave(o, n) \/ Create(o, n)
                   \/ Step(o) \/ EndLost(o)
  \/ BootRelease \/ Sweep
  \/ \E r \in Repo : ClaimAges(r)
  \/ \E n \in Node : HeartbeatAges(n) \/ Heartbeat(n) \/ Crash(n) \/ Restart(n)

Spec == Init /\ [][Next]_vars

\* an operation goes on, time passes, the worker sweeps at its start and every minute, and is started
\* again when it stopped
Fairness ==
  /\ \A o \in Op : WF_vars(Step(o))
  /\ \A r \in Git : WF_vars(AtWork(r) = {} /\ ClaimAges(r))
  /\ WF_vars(Restart(Worker))
  /\ WF_vars(BootRelease \/ Sweep)

FairSpec == Spec /\ Fairness

-----------------------------------------------------------------------------
(* Properties                                                              *)

\* Two operations work on one tree at the same time only after a claim was taken from the first
\* (claim, and the order in which a reset, a delete and a save take theirs).
Alone == \A r \in Repo \ upset : Cardinality(AtWork(r)) <= 1

\* A claim is taken from an operation at work only when it is older than CLAIM_MAX_HOURS, when the
\* node it names wrote no heartbeat, or by a create whose own clone was refused.
TakenLate ==
  [][\A r \in upset' \ upset :
       \/ row[r].old \/ row[r].node \notin fresh
       \/ \E o \in Op : At(o, "fail") /\ op[o].kind = "create" /\ r \in op[o].todo]_vars

\* A claim that names a node does not last for ever, whatever happened to whom took it.
NotWedged ==
  \A r \in Git : row[r].status = "running" /\ row[r].node # NoNode ~> row[r].status # "running"

-----------------------------------------------------------------------------
(* What the code does not keep: see the README                            *)

\* Two operations never work on one tree at the same time (what the claim says it is for).
Exclusive == \A r \in Repo : Cardinality(AtWork(r)) <= 1

\* Without a fault, a repository reads running only while an operation works on it.
RunningIsWork == \A r \in Repo \ Legacy : row[r].status = "running" /\ faults = 0 => AtWork(r) # {}
=============================================================================

---------------------------- MODULE WorkflowDefs ----------------------------
(***************************************************************************)
(* The scheduling rules of a workflow (lib/workflowDefs.js): which nodes   *)
(* start, which will never run, and whether the workflow failed, from its  *)
(* graph and the state of its nodes.                                       *)
(*                                                                         *)
(* A graph g has its nodes' links by kind (g.link), the nodes all of whose *)
(* parents must converge, and what each node runs. A node's state is the   *)
(* record of the run's state map: its status and whether it will not run.  *)
(***************************************************************************)
EXTENDS Naturals, FiniteSets

CONSTANTS Id   \* the nodes, by their place in the workflow

LINK_KINDS == {"success", "failure", "always"}
FINISHED == {"successful", "failed", "canceled", "skipped"}

\* unmet: a node whose if_extra_var is not true; timed: an approval with a timeout
Graphs ==
  [link : [LINK_KINDS -> SUBSET (Id \X Id)], converge : SUBSET Id,
   type : [Id -> {"job", "project", "approval"}], unmet : SUBSET Id, timed : SUBSET Id]

State == [status : {"pending", "running"} \cup FINISHED, doNotRun : BOOLEAN]

\* the links into a node: from where, and what they fire on
ParentsOf(g, n) == {l \in Id \X LINK_KINDS : <<l[1], n>> \in g.link[l[2]]}

\* loopIn : a node that comes after itself
LoopIn(g) ==
  LET links == UNION {g.link[k] : k \in LINK_KINDS}
      After[i \in 0..Cardinality(Id)] ==
        IF i = 0 THEN links
        ELSE After[i - 1] \cup {p \in Id \X Id : \E m \in Id : <<p[1], m>> \in After[i - 1] /\ <<m, p[2]>> \in links}
  IN \E n \in Id : <<n, n>> \in After[Cardinality(Id)]

\* fires : a link of this kind out of a node that finished so
FiresOn(kind, status) ==
  CASE kind = "always"  -> status # "canceled"
    [] kind = "success" -> status \in {"successful", "skipped"}
    [] kind = "failure" -> status = "failed"

Fires(kind, s) == ~s.doNotRun /\ s.status \in FINISHED /\ FiresOn(kind, s.status)
\* it never will
Fails(kind, s) == s.doNotRun \/ (s.status \in FINISHED /\ ~FiresOn(kind, s.status))

Undecided(s) == s.status = "pending" /\ ~s.doNotRun

\* nextStep : what starts now; with one parent for a node that needs them all
Starts_OneIsEnough(g, state) ==
  {n \in Id :
     LET links == ParentsOf(g, n)
     IN Undecided(state[n]) /\ (links = {} \/ \E l \in links : Fires(l[2], state[l[1]]))}
Starts(g, state) ==
  {n \in Id :
     LET links == ParentsOf(g, n)
     IN /\ Undecided(state[n])
        /\ \/ links = {}
           \/ n \notin g.converge /\ \E l \in links : Fires(l[2], state[l[1]])
           \/ \A l \in links : Fires(l[2], state[l[1]])}

\* nextStep : what will not run, when those of S will not: a node whose links fail, all of them, or
\* one when they must converge
Skips(g, state, S) ==
  {n \in Id :
     LET links == ParentsOf(g, n)
         fails(l) == l[1] \in S \/ Fails(l[2], state[l[1]])
     IN \/ state[n].doNotRun
        \/ /\ Undecided(state[n]) /\ links # {}
           /\ IF n \in g.converge THEN \E l \in links : fails(l) ELSE \A l \in links : fails(l)}

\* again until nothing more is skipped: the least set it adds nothing to
NeverRun(g, state) == {n \in Id : \A S \in SUBSET Id : Skips(g, state, S) \subseteq S => n \in S}

AfterSkips(g, state) ==
  LET never == NeverRun(g, state) IN [n \in Id |-> [state[n] EXCEPT !.doNotRun = n \in never]]

\* a failure link or an always link out of it
Handled(g, n) == \E m \in Id : <<n, m>> \in g.link["failure"] \cup g.link["always"]

\* workflowFailed
WorkflowFailed(g, state) == \E n \in Id : state[n].status = "failed" /\ ~Handled(g, n)

-----------------------------------------------------------------------------
(* What the rules are about, without them                                  *)

\* what may start once those of S run: a node that runs may end in any way, one that has not started
\* may run if its links may fire
MayStart(g, state, S) ==
  {n \in Id :
     LET links == ParentsOf(g, n)
         may(l) == IF state[l[1]].status \in FINISHED THEN FiresOn(l[2], state[l[1]].status)
                   ELSE state[l[1]].status = "running" \/ l[1] \in S
     IN /\ state[n].status = "pending"
        /\ \/ links = {}
           \/ n \notin g.converge /\ \E l \in links : may(l)
           \/ \A l \in links : may(l)}

\* the nodes that run in some future of the workflow
MayRun(g, state) == {n \in Id : \A S \in SUBSET Id : MayStart(g, state, S) \subseteq S => n \in S}
=============================================================================

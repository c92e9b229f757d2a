----------------------- MODULE RepositoryClaimProofs -----------------------
(***************************************************************************)
(* TypeOK, Alone and TakenLate of RepositoryClaim for any number of nodes, *)
(* repositories, operations and faults.                                    *)
(*                                                                         *)
(* The claim is a status the ends write by name, so that nobody else wrote *)
(* it has to be carried along: as long as no claim of a repository was     *)
(* taken, whoever works on it is the one its row names.                    *)
(*                                                                         *)
(* And TypeOK and ServesTheRow of RecordCache, the copies of such a row,   *)
(* for any number of processes, changes, restores and faults. A process    *)
(* with an old copy has yet to hear of a change: the counter, once bumped, *)
(* is one that nobody has seen, the clock of the bump, and no counter      *)
(* anybody has read is ahead of it, even after a restore brought an old    *)
(* one back.                                                               *)
(***************************************************************************)
EXTENDS RepositoryClaim, CachePromise, FiniteSetTheorems, TLAPS

\* Where an operation has something left to claim.
Control(o) ==
  /\ op[o].pc \in {"check", "read", "claim"} => op[o].todo # {}
  /\ op[o].pc \in {"work", "end"} => op[o].todo = {}
  /\ op[o].pc = "fail" => op[o].todo = {} \/ op[o].kind = "create"

\* The row of a repository somebody works on is the claim of that operation.
Mine(r, o) == row[r].status = "running" /\ row[r].node = op[o].node /\ row[r].early = FALSE

Claims ==
  \A r \in Repo \ upset : \A o \in AtWork(r) : Mine(r, o) /\ \A p \in AtWork(r) : p = o

ClaimInv == TypeOK /\ (\A o \in Op : Control(o)) /\ Claims

-----------------------------------------------------------------------------
(* Types                                                                   *)

LEMMA RestingType == Resting \in Operation
  BY RepositoryAssumption DEF Resting, Operation, Pc, Kind, Status

LEMMA RowOfType == \A s \in Status : RowOf(s) \in Row
  BY DEF RowOf, Row

LEMMA FaultType ==
  ASSUME TypeOK, NEW kind, Fault(kind)
  PROVE  faults' \in 0..MaxFaults
  BY RepositoryAssumption DEF TypeOK, Fault

\* Every way an operation goes on keeps its record and knows where it is.
LEMMA GoesType ==
  ASSUME TypeOK, NEW o \in Op, NEW x \in Operation, op' = [op EXCEPT ![o] = x]
  PROVE  /\ op' \in [Op -> Operation]
         /\ op'[o] = x /\ \A p \in Op \ {o} : op'[p] = op[p]
  BY DEF TypeOK

LEMMA PcType ==
  ASSUME TypeOK, NEW o \in Op, NEW pc \in Pc, Goes(o, pc)
  PROVE  /\ op' \in [Op -> Operation]
         /\ op'[o] = [op[o] EXCEPT !.pc = pc] /\ \A p \in Op \ {o} : op'[p] = op[p]
  <1>1. [op[o] EXCEPT !.pc = pc] \in Operation
    BY DEF TypeOK, Operation
  <1>. QED
    BY <1>1, GoesType DEF Goes

LEMMA LeavesType ==
  ASSUME TypeOK, NEW o \in Op, Leaves(o)
  PROVE  /\ op' \in [Op -> Operation]
         /\ op'[o] = Resting /\ \A p \in Op \ {o} : op'[p] = op[p]
  BY RestingType, GoesType DEF Leaves

LEMMA LetGoType ==
  ASSUME TypeOK, NEW o \in Op, NEW r \in op[o].held, LetGo(o, r)
  PROVE  /\ op' \in [Op -> Operation]
         /\ op'[o] = Without(o, r) /\ \A p \in Op \ {o} : op'[p] = op[p]
  <1>1. [op[o] EXCEPT !.held = @ \ {r}] \in Operation
    BY DEF TypeOK, Operation
  <1>2. Without(o, r) \in Operation
    BY <1>1, RestingType DEF Without
  <1>. QED
    BY <1>2, GoesType DEF LetGo

LEMMA WriteStatesType ==
  ASSUME TypeOK, NEW rs \in SUBSET Repo, NEW by, NEW status \in [Repo -> Status],
         WriteStates(rs, by, status)
  PROVE  row' \in [Repo -> Row] /\ upset' \subseteq Repo
  <1>1. \A r \in Repo : [row[r] EXCEPT !.status = status[r]] \in Row
    BY DEF TypeOK, Row
  <1>2. Quiet \in Row
    BY RowOfType DEF Quiet, Status
  <1>. QED
    BY <1>1, <1>2 DEF TypeOK, WriteStates

LEMMA ReleaseType ==
  ASSUME TypeOK, NEW atStart, Release(atStart)
  PROVE  row' \in [Repo -> Row] /\ upset' \subseteq Repo
  <1>1. Quiet \in Row
    BY RowOfType DEF Quiet, Status
  <1>. QED
    BY <1>1 DEF TypeOK, Release

\* What a step on one operation has to show.
LEMMA StepType ==
  ASSUME TypeOK, op' \in [Op -> Operation], row' \in [Repo -> Row], upset' \subseteq Repo,
         faults' \in 0..MaxFaults, Cluster
  PROVE  TypeOK'
  BY DEF TypeOK, Cluster

LEMMA NextRepoType ==
  ASSUME TypeOK, NEW o \in Op, op[o].todo # {}
  PROVE  NextRepo(o) \in op[o].todo /\ NextRepo(o) \in Repo
  BY DEF TypeOK, Operation, NextRepo

-----------------------------------------------------------------------------
(* A step on one operation, seen from the invariant                        *)

\* The rest of the operations are as they were, and so are the claims nobody touched.
LEMMA ControlOthers ==
  ASSUME \A p \in Op : Control(p), NEW o \in Op, \A p \in Op \ {o} : op'[p] = op[p], Control(o)'
  PROVE  \A p \in Op : Control(p)'
  BY DEF Control

\* An operation that works on no more than before, on the node it was on, disturbs no claim when
\* the rows stay.
LEMMA ClaimsStay ==
  ASSUME Claims, NEW o \in Op, UNCHANGED <<row, upset>>,
         \A p \in Op \ {o} : op'[p] = op[p],
         op'[o].held \subseteq op[o].held, op'[o].held = {} \/ op'[o].node = op[o].node
  PROVE  Claims'
  <1>. SUFFICES ASSUME NEW r \in Repo \ upset, NEW q \in AtWork(r)', NEW p \in AtWork(r)'
                PROVE  Mine(r, q)' /\ p = q
    BY DEF Claims
  <1>1. q \in AtWork(r) /\ p \in AtWork(r)
    BY DEF AtWork
  <1>2. op'[q].node = op[q].node
    BY DEF AtWork
  <1>. QED
    BY <1>1, <1>2 DEF Claims, Mine

\* An operation that leaves after it wrote its rows: whoever else worked there lost its claim.
LEMMA ClaimsWritten ==
  ASSUME TypeOK, Claims, NEW o \in Op, NEW rs \in SUBSET Repo, op[o].held \subseteq rs,
         \A p \in Op \ {o} : op'[p] = op[p], op'[o].held = {},
         \A r \in Repo \ rs : row'[r] = row[r],
         upset' = upset \cup {r \in rs : AtWork(r) \ {o} # {}}
  PROVE  Claims'
  <1>. SUFFICES ASSUME NEW r \in Repo \ upset', NEW q \in AtWork(r)', NEW p \in AtWork(r)'
                PROVE  Mine(r, q)' /\ p = q
    BY DEF Claims
  <1>1. q # o /\ p # o /\ q \in AtWork(r) /\ p \in AtWork(r)
    BY DEF AtWork
  <1>2. r \notin rs
    BY <1>1
  <1>3. row'[r] = row[r] /\ op'[q].node = op[q].node /\ r \in Repo \ upset
    BY <1>1, <1>2 DEF AtWork
  <1>. QED
    BY <1>1, <1>3 DEF Claims, Mine

\* Only whom it works alone with loses a claim: nobody.
LEMMA NobodyElse ==
  ASSUME Claims, NEW o \in Op, NEW r \in op[o].held, r \in Repo \ upset
  PROVE  AtWork(r) = {o}
  BY DEF Claims, AtWork

-----------------------------------------------------------------------------
(* The invariant                                                           *)

LEMMA ClaimInit == Init => ClaimInv
  <1>. SUFFICES ASSUME Init PROVE ClaimInv
    OBVIOUS
  <1>1. TypeOK
    BY RestingType, RowOfType, RepositoryAssumption DEF Init, TypeOK, Status
  <1>2. \A o \in Op : Control(o)
    BY DEF Init, Control, Resting
  <1>3. Claims
    BY DEF Init, Claims, AtWork, Resting
  <1>. QED
    BY <1>1, <1>2, <1>3 DEF ClaimInv

\* An operation begins with something to claim, and works on nothing yet.
LEMMA BeginsInv ==
  ASSUME ClaimInv, NEW o \in Op, NEW n \in Node, NEW kind \in Kind, NEW repos \in SUBSET Repo,
         repos # {}, Begins(o, n, kind, repos)
  PROVE  /\ op' \in [Op -> Operation] /\ \A p \in Op : Control(p)'
         /\ \A p \in Op \ {o} : op'[p] = op[p]
         /\ op'[o].held = {}
  <1>. DEFINE x == [Resting EXCEPT !.pc = FirstStep(kind), !.kind = kind, !.node = n, !.todo = repos]
  <1>0. FirstStep(kind) \in {"check", "read", "claim"}
    BY DEF FirstStep
  <1>1. x \in Operation
    BY <1>0, RestingType DEF Operation, Resting, Pc
  <1>2. /\ op' \in [Op -> Operation]
        /\ op'[o] = x /\ \A p \in Op \ {o} : op'[p] = op[p]
    BY <1>1, GoesType DEF ClaimInv, Begins
  <1>3. x.pc = FirstStep(kind) /\ x.todo = repos /\ x.held = {}
    BY DEF Resting
  <1>4. Control(o)'
    BY <1>0, <1>2, <1>3 DEF Control
  <1>. QED
    BY <1>2, <1>3, <1>4, ControlOthers DEF ClaimInv

LEMMA BeginInv ==
  ASSUME ClaimInv, NEW o \in Op, NEW n \in Node, Begin(o, n) \/ BeginSave(o, n)
  PROVE  ClaimInv'
  <1>1. /\ op' \in [Op -> Operation] /\ \A p \in Op : Control(p)'
        /\ \A p \in Op \ {o} : op'[p] = op[p]
        /\ op'[o].held = {}
        /\ Cluster /\ UNCHANGED <<row, upset, faults>>
    <2>1. CASE Begin(o, n)
      <3>1. PICK kind \in Kind \ {"create", "save"}, r \in Git : Begins(o, n, kind, {r})
        BY <2>1 DEF Begin
      <3>2. {r} \in SUBSET Repo /\ {r} # {} /\ kind \in Kind
        BY <3>1, RepositoryAssumption
      <3>. QED
        BY <2>1, <3>1, <3>2, BeginsInv DEF Begin, Begins
    <2>2. CASE BeginSave(o, n)
      <3>1. PICK repos \in {Repo} \cup {{r} : r \in Git} : Begins(o, n, "save", repos)
        BY <2>2 DEF BeginSave
      <3>2. repos \in SUBSET Repo /\ repos # {}
        BY <3>1, RepositoryAssumption
      <3>. QED
        BY <2>2, <3>1, <3>2, BeginsInv DEF BeginSave, Begins, Kind
    <2>. QED
      BY <2>1, <2>2
  <1>2. TypeOK'
    BY <1>1, StepType DEF ClaimInv, TypeOK
  <1>3. Claims'
    BY <1>1, ClaimsStay DEF ClaimInv
  <1>. QED
    BY <1>1, <1>2, <1>3 DEF ClaimInv

LEMMA CreateInv ==
  ASSUME ClaimInv, NEW o \in Op, NEW n \in Node, Create(o, n)
  PROVE  ClaimInv'
  <1>1. PICK r \in Repo : /\ row[r].status = "gone"
                          /\ Begins(o, n, "create", {r})
                          /\ row' = [row EXCEPT ![r] = Quiet]
    BY DEF Create
  <1>2. {r} \in SUBSET Repo /\ {r} # {} /\ "create" \in Kind
    BY DEF Kind
  <1>3. /\ op' \in [Op -> Operation] /\ \A p \in Op : Control(p)'
        /\ \A p \in Op \ {o} : op'[p] = op[p]
        /\ op'[o].held = {}
        /\ Cluster /\ UNCHANGED <<upset, faults>>
    BY <1>1, <1>2, BeginsInv DEF Begins
  <1>4. TypeOK'
    <2>1. Quiet \in Row
      BY RowOfType DEF Quiet, Status
    <2>. QED
      BY <1>1, <1>3, <2>1, StepType DEF ClaimInv, TypeOK
  <1>5. Claims'
    <2>. SUFFICES ASSUME NEW s \in Repo \ upset, NEW q \in AtWork(s)', NEW p \in AtWork(s)'
                  PROVE  Mine(s, q)' /\ p = q
      BY <1>3 DEF Claims
    <2>1. q \in AtWork(s) /\ p \in AtWork(s) /\ q # o
      BY <1>3 DEF AtWork
    <2>2. Mine(s, q) /\ p = q
      BY <2>1 DEF ClaimInv, Claims
    <2>3. s # r
      BY <1>1, <2>2 DEF Mine
    <2>4. row'[s] = row[s] /\ op'[q].node = op[q].node
      BY <1>1, <1>3, <2>1, <2>3 DEF AtWork, ClaimInv, TypeOK
    <2>. QED
      BY <2>2, <2>4 DEF Mine
  <1>. QED
    BY <1>3, <1>4, <1>5 DEF ClaimInv

\* The steps that change one operation's record and no row.
LEMMA QuietStepInv ==
  ASSUME ClaimInv, NEW o \in Op, NEW x \in Operation, op' = [op EXCEPT ![o] = x],
         x.held \subseteq op[o].held, x.held = {} \/ x.node = op[o].node,
         /\ x.pc \in {"check", "read", "claim"} => x.todo # {}
         /\ x.pc \in {"work", "end"} => x.todo = {}
         /\ x.pc = "fail" => x.todo = {} \/ x.kind = "create",
         Cluster, UNCHANGED <<row, upset>>, faults' \in 0..MaxFaults
  PROVE  ClaimInv'
  <1>1. /\ op' \in [Op -> Operation]
        /\ op'[o] = x /\ \A p \in Op \ {o} : op'[p] = op[p]
    BY GoesType DEF ClaimInv
  <1>2. Control(o)'
    BY <1>1 DEF Control
  <1>3. \A p \in Op : Control(p)'
    BY <1>1, <1>2, ControlOthers DEF ClaimInv
  <1>4. Claims'
    BY <1>1, ClaimsStay DEF ClaimInv
  <1>5. TypeOK'
    BY <1>1, StepType DEF ClaimInv, TypeOK
  <1>. QED
    BY <1>3, <1>4, <1>5 DEF ClaimInv

\* The same, for a step that only moves on.
LEMMA MoveInv ==
  ASSUME ClaimInv, NEW o \in Op, NEW pc \in Pc, Goes(o, pc),
         /\ pc \in {"check", "read", "claim"} => op[o].todo # {}
         /\ pc \in {"work", "end"} => op[o].todo = {}
         /\ pc = "fail" => op[o].todo = {} \/ op[o].kind = "create",
         Cluster, UNCHANGED <<row, upset>>, faults' \in 0..MaxFaults
  PROVE  ClaimInv'
  <1>. DEFINE x == [op[o] EXCEPT !.pc = pc]
  <1>0. op[o] \in Operation
    BY DEF ClaimInv, TypeOK
  <1>1. /\ x \in Operation /\ x.held = op[o].held /\ x.node = op[o].node
        /\ x.pc = pc /\ x.todo = op[o].todo /\ x.kind = op[o].kind
    BY <1>0 DEF Operation
  <1>2. op' = [op EXCEPT ![o] = x]
    BY Zenon DEF Goes
  <1>. HIDE DEF x
  <1>. QED
    BY <1>1, <1>2, QuietStepInv

LEMMA LeaveInv ==
  ASSUME ClaimInv, NEW o \in Op, Leaves(o), Cluster, UNCHANGED <<row, upset>>, faults' \in 0..MaxFaults
  PROVE  ClaimInv'
  <1>1. Resting.held = {} /\ Resting.pc = "idle"
    BY DEF Resting
  <1>2. op' = [op EXCEPT ![o] = Resting]
    BY DEF Leaves
  <1>. QED
    BY <1>1, <1>2, RestingType, QuietStepInv

LEMMA CheckInv ==
  ASSUME ClaimInv, NEW o \in Op, Check(o)
  PROVE  ClaimInv'
  <1>1. op[o].todo # {} /\ Cluster /\ UNCHANGED <<row, upset>> /\ faults' \in 0..MaxFaults
    BY DEF Check, ClaimInv, Control, At, TypeOK
  <1>2. CASE Goes(o, "claim")
    BY <1>1, <1>2, MoveInv DEF Pc
  <1>3. CASE op[o].kind = "create" /\ Goes(o, "fail")
    BY <1>1, <1>3, MoveInv DEF Pc
  <1>4. CASE Leaves(o)
    BY <1>1, <1>4, LeaveInv
  <1>. QED
    BY <1>2, <1>3, <1>4 DEF Check

LEMMA ReadInv ==
  ASSUME ClaimInv, NEW o \in Op, Read(o)
  PROVE  ClaimInv'
  <1>. DEFINE r == NextRepo(o)
              claims == [op[o] EXCEPT !.pc = "claim", !.prior[r] = Prior(op[o].kind, row[r].status)]
  <1>0. op[o] \in Operation /\ Cluster /\ UNCHANGED <<row, upset>> /\ faults' \in 0..MaxFaults
    BY DEF ClaimInv, TypeOK, Read
  <1>1. op[o].todo # {}
    BY DEF Read, ClaimInv, Control, At
  <1>2. r \in op[o].todo /\ r \in Repo
    BY <1>1, NextRepoType DEF ClaimInv
  <1>. HIDE DEF r
  <1>3. Prior(op[o].kind, row[r].status) \in Status
    BY <1>2 DEF Prior, ClaimInv, TypeOK, Row, Status
  <1>4. CASE op' = [op EXCEPT ![o] = claims]
    <2>1. claims \in Operation
      BY <1>0, <1>3 DEF Operation, Pc
    <2>2. /\ claims.held = op[o].held /\ claims.node = op[o].node
          /\ claims.pc = "claim" /\ claims.todo = op[o].todo
      BY <1>0 DEF Operation
    <2>. HIDE DEF claims
    <2>. QED
      BY <1>0, <1>1, <1>4, <2>1, <2>2, QuietStepInv
  <1>5. CASE op' = [op EXCEPT ![o] = Past(o, r)]
    <2>1. Past(o, r) \in Operation
      BY <1>0 DEF Past, Operation, Pc
    <2>2. /\ Past(o, r).held = op[o].held /\ Past(o, r).node = op[o].node
          /\ Past(o, r).todo = op[o].todo \ {r}
          /\ Past(o, r).pc = IF op[o].todo = {r} THEN "work" ELSE "read"
      BY <1>0 DEF Past, Operation
    <2>3. op[o].todo = {r} => op[o].todo \ {r} = {}
      OBVIOUS
    <2>4. op[o].todo # {r} => op[o].todo \ {r} # {}
      BY <1>2
    <2>. QED
      BY <1>0, <1>5, <2>1, <2>2, <2>3, <2>4, QuietStepInv
  <1>6. CASE op' = [op EXCEPT ![o] = Resting]
    BY <1>0, <1>6, LeaveInv DEF Leaves
  <1>. QED
    BY <1>4, <1>5, <1>6 DEF Read, r

LEMMA RefusedInv ==
  ASSUME ClaimInv, NEW o \in Op, Refused(o)
  PROVE  ClaimInv'
  <1>0. op[o] \in Operation /\ Cluster /\ UNCHANGED <<row, upset>> /\ faults' \in 0..MaxFaults
    BY DEF ClaimInv, TypeOK, Refused
  <1>1. CASE op' = [op EXCEPT ![o] = [op[o] EXCEPT !.pc = "fail"]] /\ op[o].kind = "create"
    BY <1>0, <1>1, MoveInv DEF Goes, Pc
  <1>2. CASE op' = [op EXCEPT ![o] = [op[o] EXCEPT !.pc = "end", !.todo = {}]]
    <2>. DEFINE x == [op[o] EXCEPT !.pc = "end", !.todo = {}]
    <2>1. /\ x \in Operation /\ x.held = op[o].held /\ x.node = op[o].node
          /\ x.pc = "end" /\ x.todo = {}
      BY <1>0 DEF Operation, Pc
    <2>. HIDE DEF x
    <2>2. op' = [op EXCEPT ![o] = x]
      BY <1>2 DEF x
    <2>. QED
      BY <1>0, <2>1, <2>2, QuietStepInv
  <1>3. CASE op' = [op EXCEPT ![o] = Resting]
    BY <1>0, <1>3, LeaveInv DEF Leaves
  <1>. QED
    BY <1>1, <1>2, <1>3 DEF Refused

LEMMA ClaimStepInv ==
  ASSUME ClaimInv, NEW o \in Op, Claim(o)
  PROVE  ClaimInv'
  <1>. DEFINE r == NextRepo(o)
              pc == IF op[o].todo = {r} THEN "work" ELSE "read"
              x == [Past(o, r) EXCEPT !.held = @ \cup {r}]
              mine == [RowOf("running") EXCEPT !.node = op[o].node]
  <1>0. op[o] \in Operation /\ Cluster /\ UNCHANGED faults /\ TypeOK
    BY DEF ClaimInv, TypeOK, Claim
  <1>1. op[o].todo # {}
    BY DEF Claim, ClaimInv, Control, At
  <1>2. r \in op[o].todo /\ r \in Repo
    BY <1>0, <1>1, NextRepoType
  <1>3. /\ row[r].status = "quiet"
        /\ row' = [row EXCEPT ![r] = mine]
        /\ upset' = IF AtWork(r) = {} THEN upset \ {r} ELSE upset
    BY DEF Claim, Claimable
  <1>4. op' = [op EXCEPT ![o] = x]
    BY DEF Claim
  <1>. HIDE DEF pc
  <1>5. /\ x \in Operation /\ x.node = op[o].node /\ x.held = op[o].held \cup {r}
        /\ x.todo = op[o].todo \ {r} /\ x.pc = pc
    <2>1. pc \in Pc
      BY DEF pc, Pc
    <2>. QED
      BY <1>0, <1>2, <2>1 DEF Operation, Past, pc
  <1>6. /\ mine \in Row /\ mine.status = "running" /\ mine.node = op[o].node /\ mine.early = FALSE
    BY <1>0 DEF RowOf, Row, Status, Operation
  <1>. HIDE DEF r, x, mine
  <1>7. /\ op' \in [Op -> Operation]
        /\ op'[o] = x /\ \A p \in Op \ {o} : op'[p] = op[p]
    BY <1>0, <1>4, <1>5, GoesType
  <1>8. \A p \in Op : Control(p)'
    <2>1. CASE op[o].todo = {r}
      <3>1. x.pc = "work" /\ x.todo = {}
        BY <1>5, <2>1 DEF pc
      <3>. QED
        BY <3>1, <1>7, ControlOthers DEF ClaimInv, Control
    <2>2. CASE op[o].todo # {r}
      <3>1. x.pc = "read" /\ x.todo # {}
        BY <1>2, <1>5, <2>2 DEF pc
      <3>. QED
        BY <3>1, <1>7, ControlOthers DEF ClaimInv, Control
    <2>. QED
      BY <2>1, <2>2
  <1>9. /\ row' \in [Repo -> Row] /\ row'[r] = mine /\ \A s \in Repo \ {r} : row'[s] = row[s]
    BY <1>0, <1>2, <1>3, <1>6 DEF TypeOK
  <1>10. TypeOK'
    <2>1. upset' \subseteq Repo /\ faults' \in 0..MaxFaults
      BY <1>0, <1>3 DEF TypeOK
    <2>. QED
      BY <1>0, <1>7, <1>9, <2>1, StepType
  <1>11. Claims'
    <2>. SUFFICES ASSUME NEW s \in Repo \ upset', NEW q \in AtWork(s)', NEW p \in AtWork(s)'
                  PROVE  Mine(s, q)' /\ p = q
      BY DEF Claims
    <2>1. CASE s # r
      <3>1. q \in AtWork(s) /\ p \in AtWork(s) /\ s \in Repo \ upset
        BY <1>3, <1>5, <1>7, <2>1 DEF AtWork
      <3>2. op'[q].node = op[q].node /\ row'[s] = row[s]
        BY <1>5, <1>7, <1>9, <2>1, <3>1 DEF AtWork
      <3>. QED
        BY <3>1, <3>2 DEF ClaimInv, Claims, Mine
    <2>2. CASE s = r
      <3>1. AtWork(r) = {}
        BY <1>2, <1>3, <2>2 DEF ClaimInv, Claims, Mine, AtWork
      <3>2. q = o /\ p = o
        BY <1>7, <2>2, <3>1 DEF AtWork
      <3>. QED
        BY <1>5, <1>6, <1>7, <1>9, <2>2, <3>2 DEF Mine
    <2>. QED
      BY <2>1, <2>2
  <1>. QED
    BY <1>8, <1>10, <1>11 DEF ClaimInv

LEMMA WorkInv ==
  ASSUME ClaimInv, NEW o \in Op, Work(o)
  PROVE  ClaimInv'
  <1>1. op[o].todo = {} /\ Cluster /\ UNCHANGED <<row, upset>> /\ faults' \in 0..MaxFaults
    BY DEF Work, ClaimInv, Control, At, TypeOK
  <1>2. CASE Goes(o, "end")
    BY <1>1, <1>2, MoveInv DEF Pc
  <1>3. CASE Goes(o, "fail")
    BY <1>1, <1>3, MoveInv DEF Pc
  <1>. QED
    BY <1>2, <1>3 DEF Work

LEMMA EndNothingInv ==
  ASSUME ClaimInv, NEW o \in Op, EndNothing(o)
  PROVE  ClaimInv'
  BY LeaveInv DEF EndNothing, ClaimInv, TypeOK

\* An operation that writes its rows and leaves.
LEMMA WritesInv ==
  ASSUME ClaimInv, NEW o \in Op, Leaves(o), Cluster, UNCHANGED faults,
         NEW rs \in SUBSET Repo, op[o].held \subseteq rs, row' \in [Repo -> Row],
         \A r \in Repo \ rs : row'[r] = row[r],
         upset' = upset \cup {r \in rs : AtWork(r) \ {o} # {}}
  PROVE  ClaimInv'
  <1>1. /\ op' \in [Op -> Operation]
        /\ op'[o] = Resting /\ \A p \in Op \ {o} : op'[p] = op[p]
    BY LeavesType DEF ClaimInv
  <1>2. Resting.held = {} /\ Resting.pc = "idle"
    BY DEF Resting
  <1>3. \A p \in Op : Control(p)'
    BY <1>1, <1>2, ControlOthers DEF ClaimInv, Control
  <1>4. TypeOK'
    BY <1>1, StepType DEF ClaimInv, TypeOK
  <1>5. Claims'
    BY <1>1, <1>2, ClaimsWritten DEF ClaimInv
  <1>. QED
    BY <1>3, <1>4, <1>5 DEF ClaimInv

LEMMA EndInv ==
  ASSUME ClaimInv, NEW o \in Op, End(o)
  PROVE  ClaimInv'
  <1>. DEFINE status == [r \in Repo |-> IF op[o].kind \in {"sync", "rename"} THEN op[o].prior[r] ELSE "quiet"]
  <1>0. TypeOK /\ op[o] \in Operation
    BY DEF ClaimInv, TypeOK
  <1>1. status \in [Repo -> Status] /\ op[o].held \in SUBSET Repo
    BY <1>0 DEF Operation, Status
  <1>2. WriteStates(op[o].held, o, status) /\ Leaves(o) /\ Cluster /\ UNCHANGED faults
    BY DEF End
  <1>. HIDE DEF status
  <1>3. row' \in [Repo -> Row]
    BY <1>0, <1>1, <1>2, WriteStatesType
  <1>4. /\ \A r \in Repo \ op[o].held : row'[r] = row[r]
        /\ upset' = upset \cup {r \in op[o].held : AtWork(r) \ {o} # {}}
    BY <1>2 DEF WriteStates
  <1>. QED
    BY <1>1, <1>2, <1>3, <1>4, WritesInv

LEMMA EndDeleteInv ==
  ASSUME ClaimInv, NEW o \in Op, EndDelete(o)
  PROVE  ClaimInv'
  <1>0. op[o] \in Operation /\ row \in [Repo -> Row]
    BY DEF ClaimInv, TypeOK
  <1>1. op[o].held \in SUBSET Repo /\ RowOf("gone") \in Row
    BY <1>0, RowOfType DEF Operation, Status
  <1>2. Leaves(o) /\ Cluster /\ UNCHANGED faults
    BY DEF EndDelete
  <1>3. /\ row' \in [Repo -> Row]
        /\ \A r \in Repo \ op[o].held : row'[r] = row[r]
    BY <1>0, <1>1 DEF EndDelete
  <1>4. \A r \in op[o].held : AtWork(r) # {o} <=> AtWork(r) \ {o} # {}
    BY DEF AtWork
  <1>5. upset' = upset \cup {r \in op[o].held : AtWork(r) \ {o} # {}}
    BY <1>4 DEF EndDelete
  <1>. QED
    BY <1>1, <1>2, <1>3, <1>5, WritesInv

LEMMA FailInv ==
  ASSUME ClaimInv, NEW o \in Op, Fail(o)
  PROVE  ClaimInv'
  <1>. DEFINE status == [r \in Repo |-> IF op[o].kind = "rename" THEN op[o].prior[r] ELSE "quiet"]
              rs == op[o].held \cup op[o].todo
  <1>0. TypeOK /\ op[o] \in Operation
    BY DEF ClaimInv, TypeOK
  <1>1. status \in [Repo -> Status] /\ rs \in SUBSET Repo /\ op[o].held \subseteq rs
    BY <1>0 DEF Operation, Status
  <1>2. WriteStates(rs, o, status) /\ Leaves(o) /\ Cluster /\ UNCHANGED faults
    BY DEF Fail
  <1>. HIDE DEF status, rs
  <1>3. row' \in [Repo -> Row]
    BY <1>0, <1>1, <1>2, WriteStatesType
  <1>4. /\ \A r \in Repo \ rs : row'[r] = row[r]
        /\ upset' = upset \cup {r \in rs : AtWork(r) \ {o} # {}}
    BY <1>2 DEF WriteStates
  <1>. QED
    BY <1>1, <1>2, <1>3, <1>4, WritesInv

\* What is left of an operation that has let go of one repository.
LEMMA WithoutType ==
  ASSUME ClaimInv, NEW o \in Op, NEW r \in op[o].held, LetGo(o, r),
         op[o].pc = "end" \/ op[o].pc = "fail"
  PROVE  /\ op' \in [Op -> Operation] /\ \A p \in Op \ {o} : op'[p] = op[p]
         /\ op'[o].held = op[o].held \ {r}
         /\ op'[o].held = {} \/ op'[o].node = op[o].node
         /\ \A p \in Op : Control(p)'
  <1>0. TypeOK /\ op[o] \in Operation
    BY DEF ClaimInv, TypeOK
  <1>1. /\ op' \in [Op -> Operation]
        /\ op'[o] = Without(o, r) /\ \A p \in Op \ {o} : op'[p] = op[p]
    BY <1>0, LetGoType
  <1>2. CASE op[o].held = {r}
    <2>1. op'[o] = Resting /\ Resting.held = {} /\ Resting.pc = "idle"
      BY <1>1, <1>2 DEF Without, Resting
    <2>2. op[o].held \ {r} = {}
      BY <1>2
    <2>. QED
      BY <1>1, <2>1, <2>2, ControlOthers DEF ClaimInv, Control
  <1>3. CASE op[o].held # {r}
    <2>1. op'[o] = [op[o] EXCEPT !.held = op[o].held \ {r}]
      BY <1>1, <1>3 DEF Without
    <2>2. /\ op'[o].held = op[o].held \ {r} /\ op'[o].node = op[o].node
          /\ op'[o].pc = op[o].pc /\ op'[o].todo = op[o].todo /\ op'[o].kind = op[o].kind
      BY <1>0, <2>1 DEF Operation
    <2>3. Control(o)'
      BY <2>2 DEF ClaimInv, Control
    <2>. QED
      BY <1>1, <2>2, <2>3, ControlOthers DEF ClaimInv
  <1>. QED
    BY <1>2, <1>3

LEMMA EndSaveInv ==
  ASSUME ClaimInv, NEW o \in Op, EndSave(o)
  PROVE  ClaimInv'
  <1>0. TypeOK /\ op[o] \in Operation /\ row \in [Repo -> Row] /\ Cluster /\ faults' \in 0..MaxFaults
    BY DEF ClaimInv, TypeOK, EndSave
  <1>1. PICK r \in op[o].held :
          /\ IF Releases(o, r)
             THEN /\ row' = [row EXCEPT ![r] = RowOf(op[o].prior[r])]
                  /\ upset' = IF AtWork(r) = {o} THEN upset ELSE upset \cup {r}
             ELSE UNCHANGED <<row, upset>>
          /\ LetGo(o, r)
    BY DEF EndSave
  <1>2. r \in Repo /\ op[o].prior[r] \in Status
    BY <1>0 DEF Operation
  <1>3. /\ op' \in [Op -> Operation] /\ \A p \in Op \ {o} : op'[p] = op[p]
        /\ op'[o].held = op[o].held \ {r}
        /\ op'[o].held = {} \/ op'[o].node = op[o].node
        /\ \A p \in Op : Control(p)'
    BY <1>1, WithoutType DEF EndSave, At
  <1>4. CASE UNCHANGED <<row, upset>>
    <2>1. TypeOK'
      BY <1>0, <1>3, <1>4, StepType DEF TypeOK
    <2>2. Claims'
      BY <1>3, <1>4, ClaimsStay DEF ClaimInv
    <2>. QED
      BY <1>3, <2>1, <2>2 DEF ClaimInv
  <1>5. CASE /\ row' = [row EXCEPT ![r] = RowOf(op[o].prior[r])]
             /\ upset' = IF AtWork(r) = {o} THEN upset ELSE upset \cup {r}
    <2>1. /\ row' \in [Repo -> Row] /\ \A s \in Repo \ {r} : row'[s] = row[s]
      BY <1>0, <1>2, <1>5, RowOfType
    <2>2. upset' \subseteq Repo
      BY <1>0, <1>2, <1>5 DEF TypeOK
    <2>3. TypeOK'
      BY <1>0, <1>3, <2>1, <2>2, StepType
    <2>4. Claims'
      <3>. SUFFICES ASSUME NEW s \in Repo \ upset', NEW q \in AtWork(s)', NEW p \in AtWork(s)'
                    PROVE  Mine(s, q)' /\ p = q
        BY DEF Claims
      <3>1. q \in AtWork(s) /\ p \in AtWork(s) /\ s \in Repo \ upset
        BY <1>3, <1>5 DEF AtWork
      <3>2. s # r
        <4>. SUFFICES ASSUME s = r PROVE FALSE
          OBVIOUS
        <4>1. AtWork(r) = {o}
          BY <1>5
        <4>2. q = o
          BY <3>1, <4>1
        <4>. QED
          BY <1>3, <4>2 DEF AtWork
      <3>3. op'[q].node = op[q].node
        BY <1>3 DEF AtWork
      <3>4. Mine(s, q) /\ p = q
        BY <3>1 DEF ClaimInv, Claims
      <3>. QED
        BY <2>1, <3>2, <3>3, <3>4 DEF Mine
    <2>. QED
      BY <1>3, <2>3, <2>4 DEF ClaimInv
  <1>. QED
    BY <1>1, <1>4, <1>5

LEMMA EndLostInv ==
  ASSUME ClaimInv, NEW o \in Op, EndLost(o)
  PROVE  ClaimInv'
  <1>0. /\ TypeOK /\ op[o] \in Operation /\ Cluster /\ UNCHANGED <<row, upset>>
        /\ op[o].pc = "end" \/ op[o].pc = "fail"
    BY DEF ClaimInv, TypeOK, EndLost
  <1>1. faults' \in 0..MaxFaults
    BY <1>0, FaultType DEF EndLost
  <1>2. CASE At(o, "end") /\ Goes(o, "fail")
    <2>1. op[o].todo = {}
      BY <1>2 DEF ClaimInv, Control, At
    <2>. QED
      BY <1>0, <1>1, <1>2, <2>1, MoveInv DEF Pc
  <1>3. CASE \E r \in op[o].held : LetGo(o, r)
    <2>1. PICK r \in op[o].held : LetGo(o, r)
      BY <1>3
    <2>2. /\ op' \in [Op -> Operation] /\ \A p \in Op \ {o} : op'[p] = op[p]
          /\ op'[o].held = op[o].held \ {r}
          /\ op'[o].held = {} \/ op'[o].node = op[o].node
          /\ \A p \in Op : Control(p)'
      BY <1>0, <2>1, WithoutType
    <2>3. TypeOK'
      BY <1>0, <1>1, <2>2, StepType DEF TypeOK
    <2>4. Claims'
      BY <1>0, <2>2, ClaimsStay DEF ClaimInv
    <2>. QED
      BY <2>2, <2>3, <2>4 DEF ClaimInv
  <1>. QED
    BY <1>2, <1>3 DEF EndLost

-----------------------------------------------------------------------------
(* The sweeps, time and faults                                             *)

\* A step that changes no operation: a repository nobody's claim was taken from keeps its row, but
\* for its age.
LEMMA RowsInv ==
  ASSUME ClaimInv, UNCHANGED op, row' \in [Repo -> Row], upset \subseteq upset', upset' \subseteq Repo,
         up' \subseteq Node, fresh' \subseteq Node, boot' \in BOOLEAN, faults' \in 0..MaxFaults,
         \A r \in Repo \ upset' : AtWork(r) # {} =>
           /\ row'[r].status = row[r].status
           /\ row'[r].node = row[r].node /\ row'[r].early = row[r].early
  PROVE  ClaimInv'
  <1>1. TypeOK'
    BY DEF ClaimInv, TypeOK
  <1>2. \A p \in Op : Control(p)'
    BY DEF ClaimInv, Control
  <1>3. Claims'
    BY DEF ClaimInv, Claims, AtWork, Mine
  <1>. QED
    BY <1>1, <1>2, <1>3 DEF ClaimInv

LEMMA ReleaseInv ==
  ASSUME ClaimInv, NEW atStart, Release(atStart), UNCHANGED <<op, up, fresh, faults>>, boot' \in BOOLEAN
  PROVE  ClaimInv'
  <1>1. row' \in [Repo -> Row] /\ upset' \subseteq Repo
    BY ReleaseType DEF ClaimInv
  <1>2. \A r \in Repo \ upset' : AtWork(r) # {} => row'[r] = row[r]
    BY DEF Release
  <1>3. upset \subseteq upset'
    BY DEF Release
  <1>. QED
    BY <1>1, <1>2, <1>3, RowsInv DEF ClaimInv, TypeOK

LEMMA SweepsInv ==
  ASSUME ClaimInv, BootRelease \/ Sweep
  PROVE  ClaimInv'
  <1>1. CASE Sweep
    BY <1>1, ReleaseInv DEF Sweep, Cluster, ClaimInv, TypeOK
  <1>2. CASE BootRelease /\ Release(TRUE) /\ UNCHANGED faults
    BY <1>2, ReleaseInv DEF BootRelease
  <1>3. CASE BootRelease /\ Fault("statement") /\ UNCHANGED <<row, upset>>
    <2>1. faults' \in 0..MaxFaults
      BY <1>3, FaultType DEF ClaimInv
    <2>. QED
      BY <1>3, <2>1, RowsInv DEF BootRelease, ClaimInv, TypeOK
  <1>. QED
    BY <1>1, <1>2, <1>3 DEF BootRelease

LEMMA ClaimAgesInv ==
  ASSUME ClaimInv, NEW r \in Repo, ClaimAges(r)
  PROVE  ClaimInv'
  <1>0. TypeOK
    BY DEF ClaimInv
  <1>1. faults' \in 0..MaxFaults
    BY <1>0, FaultType DEF ClaimAges, TypeOK
  <1>2. [row[r] EXCEPT !.old = TRUE] \in Row
    BY <1>0 DEF TypeOK, Row
  <1>3. row' \in [Repo -> Row]
    BY <1>0, <1>2 DEF ClaimAges, TypeOK
  <1>4. \A s \in Repo : /\ row'[s].status = row[s].status
                        /\ row'[s].node = row[s].node /\ row'[s].early = row[s].early
    BY <1>0 DEF ClaimAges, TypeOK, Row
  <1>. QED
    BY <1>0, <1>1, <1>3, <1>4, RowsInv DEF ClaimAges, Cluster, TypeOK

LEMMA NodesInv ==
  ASSUME ClaimInv, NEW n \in Node, HeartbeatAges(n) \/ Heartbeat(n) \/ Restart(n)
  PROVE  ClaimInv'
  <1>0. TypeOK
    BY DEF ClaimInv
  <1>1. /\ UNCHANGED <<row, op, upset>>
        /\ up' \subseteq Node /\ fresh' \subseteq Node /\ boot' \in BOOLEAN
    BY <1>0 DEF TypeOK, HeartbeatAges, Heartbeat, Restart
  <1>2. faults' \in 0..MaxFaults
    BY <1>0, FaultType DEF TypeOK, HeartbeatAges, Heartbeat, Restart
  <1>. QED
    BY <1>0, <1>1, <1>2, RowsInv DEF TypeOK

LEMMA CrashInv ==
  ASSUME ClaimInv, NEW n \in Node, Crash(n)
  PROVE  ClaimInv'
  <1>0. TypeOK
    BY DEF ClaimInv
  <1>1. /\ op' \in [Op -> Operation]
        /\ \A o \in Op : op'[o] = IF op[o].node = n THEN Resting ELSE op[o]
    BY <1>0, RestingType DEF Crash, TypeOK
  <1>2. Resting.held = {} /\ Resting.pc = "idle"
    BY DEF Resting
  <1>3. \A o \in Op : Control(o)'
    BY <1>1, <1>2 DEF ClaimInv, Control
  <1>4. \A r \in Repo : [row[r] EXCEPT !.early = TRUE] \in Row
    BY <1>0 DEF TypeOK, Row
  <1>5. /\ row' \in [Repo -> Row]
        /\ \A r \in Repo : row[r].node # n => row'[r] = row[r]
    BY <1>0, <1>4 DEF Crash, TypeOK
  <1>6. TypeOK'
    <2>1. faults' \in 0..MaxFaults
      BY <1>0, FaultType DEF Crash
    <2>. QED
      BY <1>0, <1>1, <1>5, <2>1 DEF Crash, TypeOK
  <1>7. Claims'
    <2>. SUFFICES ASSUME NEW r \in Repo \ upset, NEW q \in AtWork(r)', NEW p \in AtWork(r)'
                  PROVE  Mine(r, q)' /\ p = q
      BY DEF Claims, Crash
    <2>1. /\ q \in AtWork(r) /\ p \in AtWork(r)
          /\ op'[q] = op[q] /\ op[q].node # n
      BY <1>1, <1>2 DEF AtWork
    <2>2. Mine(r, q) /\ p = q
      BY <2>1 DEF ClaimInv, Claims
    <2>3. row'[r] = row[r]
      BY <1>5, <2>1, <2>2 DEF Mine
    <2>. QED
      BY <2>1, <2>2, <2>3 DEF Mine
  <1>. QED
    BY <1>3, <1>6, <1>7 DEF ClaimInv

-----------------------------------------------------------------------------
(* The theorems                                                            *)

\* Every step keeps the claims with whom took them.
LEMMA ClaimNext == ClaimInv /\ [Next]_vars => ClaimInv'
  <1>. SUFFICES ASSUME ClaimInv, [Next]_vars PROVE ClaimInv'
    OBVIOUS
  <1>1. ASSUME NEW o \in Op, NEW n \in Node, Begin(o, n) \/ BeginSave(o, n) \/ Create(o, n)
        PROVE  ClaimInv'
    BY <1>1, BeginInv, CreateInv
  <1>2. ASSUME NEW o \in Op, Step(o)
        PROVE  ClaimInv'
    BY <1>2, CheckInv, ReadInv, ClaimStepInv, RefusedInv, WorkInv,
       EndNothingInv, EndInv, EndDeleteInv, EndSaveInv, FailInv DEF Step
  <1>3. ASSUME NEW o \in Op, EndLost(o)
        PROVE  ClaimInv'
    BY <1>3, EndLostInv
  <1>4. CASE BootRelease \/ Sweep
    BY <1>4, SweepsInv
  <1>5. ASSUME NEW r \in Repo, ClaimAges(r)
        PROVE  ClaimInv'
    BY <1>5, ClaimAgesInv
  <1>6. ASSUME NEW n \in Node, HeartbeatAges(n) \/ Heartbeat(n) \/ Crash(n) \/ Restart(n)
        PROVE  ClaimInv'
    BY <1>6, NodesInv, CrashInv
  <1>7. CASE UNCHANGED vars
    BY <1>7 DEF vars, ClaimInv, TypeOK, Control, Claims, AtWork, Mine
  <1>. QED
    BY <1>1, <1>2, <1>3, <1>4, <1>5, <1>6, <1>7 DEF Next

\* The claims stay with whom took them, for every behaviour.
LEMMA ClaimAlways == Spec => []ClaimInv
  BY ClaimInit, ClaimNext, PTL DEF Spec

\* The tables and the operations always have the shapes the code gives them.
THEOREM ClaimTypes == Spec => []TypeOK
  <1>1. ClaimInv => TypeOK
    BY DEF ClaimInv
  <1>. QED
    BY <1>1, ClaimAlways, PTL

\* Two operations work on one tree at the same time only after a claim was taken from one of them,
\* for any number of nodes, repositories, operations and faults.
THEOREM ClaimAlone == Spec => []Alone
  <1>1. ClaimInv => Alone
    <2>. SUFFICES ASSUME ClaimInv, NEW r \in Repo \ upset PROVE Cardinality(AtWork(r)) <= 1
      BY DEF Alone
    <2>1. CASE AtWork(r) = {}
      BY <2>1, FS_EmptySet
    <2>2. CASE \E o \in Op : AtWork(r) = {o}
      <3>1. PICK o \in Op : AtWork(r) = {o}
        BY <2>2
      <3>2. Cardinality({o}) = 1
        BY FS_Singleton
      <3>. QED
        BY <3>1, <3>2
    <2>. QED
      BY <2>1, <2>2 DEF ClaimInv, Claims, AtWork
  <1>. QED
    BY <1>1, ClaimAlways, PTL

\* A claim is taken from an operation at work only when it is old, when the node it names wrote no
\* heartbeat, or by a create whose own clone was refused.
THEOREM ClaimTakenLate == Spec => TakenLate
  <1>. DEFINE Late(r) == \/ row[r].old \/ row[r].node \notin fresh
                         \/ \E o \in Op : At(o, "fail") /\ op[o].kind = "create" /\ r \in op[o].todo
  <1>1. ASSUME ClaimInv, [Next]_vars, NEW r \in upset' \ upset PROVE Late(r)
    <2>0. r \in Repo
      BY <1>1, ClaimNext DEF ClaimInv, TypeOK
    <2>1. ASSUME NEW o \in Op, r \in op[o].held, AtWork(r) # {o} PROVE FALSE
      BY <1>1, <2>0, <2>1, NobodyElse DEF ClaimInv
    <2>2. ASSUME NEW o \in Op, End(o) \/ EndDelete(o) \/ EndSave(o) PROVE FALSE
      <3>1. \E s \in op[o].held : s = r /\ AtWork(s) # {o}
        BY <1>1, <2>2 DEF End, EndDelete, EndSave, WriteStates
      <3>. QED
        BY <2>1, <3>1
    <2>3. ASSUME NEW o \in Op, Fail(o) PROVE Late(r)
      <3>1. r \in op[o].held \cup op[o].todo /\ AtWork(r) \ {o} # {} /\ At(o, "fail")
        BY <1>1, <2>3 DEF Fail, WriteStates
      <3>2. CASE r \in op[o].held
        BY <2>1, <3>1, <3>2
      <3>3. CASE r \in op[o].todo
        BY <1>1, <3>1, <3>3 DEF ClaimInv, Control, At
      <3>. QED
        BY <3>1, <3>2, <3>3
    <2>4. ASSUME NEW atStart, Release(atStart) PROVE Late(r)
      <3>1. AtWork(r) # {} /\ Stale(r, atStart)
        BY <1>1, <2>4 DEF Release
      <3>2. PICK o \in Op : o \in AtWork(r) /\ Mine(r, o)
        BY <1>1, <2>0, <3>1 DEF ClaimInv, Claims, AtWork
      <3>3. row[r].node # NoNode /\ ~row[r].early
        BY <1>1, <3>2, RepositoryAssumption DEF Mine, ClaimInv, TypeOK, Operation
      <3>. QED
        BY <3>1, <3>3 DEF Stale
    <2>. QED
      BY <1>1, <2>2, <2>3, <2>4
      DEF Next, vars, Step, Begin, BeginSave, Create, Begins, Check, Read, Claim, Refused, Work, EndNothing,
          EndLost, BootRelease, Sweep, ClaimAges, HeartbeatAges, Heartbeat, Crash, Restart
  <1>2. ClaimInv /\ [Next]_vars => [\A r \in upset' \ upset : Late(r)]_vars
    BY <1>1
  <1>. QED
    BY <1>2, ClaimAlways, PTL DEF Spec, TakenLate

-----------------------------------------------------------------------------
(* The copies of a row                                                     *)

CONSTANTS MaxChanges, MaxRestores, CacheFaults, MaxCacheFaults
VARIABLES clock, reader, polled, restores, cacheFaults

\* RecordCache beside RepositoryClaim, over the state of CachePromise: the names both have are its own here.
Copies == INSTANCE RecordCache WITH faults <- cacheFaults, FaultKinds <- CacheFaults, MaxFaults <- MaxCacheFaults

\* The shapes, without the bounds.
Shape ==
  /\ version \in Nat /\ counter \in Nat /\ clock \in Nat /\ bumps \in Nat
  /\ cache \in [Proc -> Nat \cup {Nothing}] /\ reader \in [Proc -> Nat \cup {Nothing}]
  /\ writer \in [Proc -> {"idle", "wrote"}] /\ lost \in BOOLEAN /\ restoring \in BOOLEAN
  /\ seen \in [Proc -> Nat \cup {Nothing}] /\ polled \in [Proc -> Nat \cup {Nothing}]

\* No counter is ahead of the clock.
ClockLeads ==
  /\ counter <= clock
  /\ \A p \in Proc : /\ seen[p] # Nothing => seen[p] <= clock
                     /\ polled[p] # Nothing => polled[p] <= clock

\* What was fetched before the first poll is known to be.
BlindKnown ==
  \A p \in Proc : seen[p] = Nothing /\ (cache[p] # Nothing \/ reader[p] # Nothing) => p \in blind

\* A copy, and what a read has fetched, is the row as it is, or else there is a change to hear of.
Heard(p, v) == v = Nothing \/ v = version \/ ToHear(p) \/ p \in late \cup blind \/ lost
CopiesHeard == \A p \in Proc : Heard(p, cache[p]) /\ Heard(p, reader[p])

CacheInv == Shape /\ ClockLeads /\ BlindKnown /\ CopiesHeard

LEMMA CacheInit == Copies!Init => CacheInv
  <1>. SUFFICES ASSUME Copies!Init PROVE CacheInv
    OBVIOUS
  <1>1. Shape
    BY DEF Copies!Init, Copies!Everywhere, Shape
  <1>2. \A p \in Proc : cache[p] = Nothing /\ reader[p] = Nothing /\ seen[p] = Nothing /\ polled[p] = Nothing
    BY DEF Copies!Init, Copies!Everywhere
  <1>3. ClockLeads
    BY <1>2 DEF Copies!Init, ClockLeads
  <1>4. BlindKnown /\ CopiesHeard
    BY <1>2 DEF BlindKnown, CopiesHeard, Heard
  <1>. QED
    BY <1>1, <1>3, <1>4 DEF CacheInv

\* A step of one process that reads, keeps or drops copies and leaves everything else alone.
LEMMA CopiesInv ==
  ASSUME CacheInv, NEW p \in Proc, Copies!Fetch(p) \/ Copies!Fill(p) \/ Copies!Expire(p)
  PROVE  CacheInv'
  <1>1. Shape'
    BY DEF CacheInv, Shape, Copies!Fetch, Copies!Fill, Copies!Expire, Copies!Counters, Copies!Polls
  <1>2. ClockLeads'
    BY DEF CacheInv, ClockLeads, Copies!Fetch, Copies!Fill, Copies!Expire, Copies!Counters, Copies!Polls
  <1>3. UNCHANGED <<version, writer, bumps, restoring, seen, counter, lost>>
    BY DEF Copies!Fetch, Copies!Fill, Copies!Expire, Copies!Counters, Copies!Polls
  <1>4. BlindKnown'
    BY DEF CacheInv, Shape, BlindKnown, Copies!Fetch, Copies!Fill, Copies!Expire, Copies!Polls
  <1>5. CopiesHeard'
    <2>. SUFFICES ASSUME NEW q \in Proc PROVE Heard(q, cache[q])' /\ Heard(q, reader[q])'
      BY DEF CopiesHeard
    <2>1. ToHear(q)' <=> ToHear(q)
      BY <1>3 DEF ToHear
    <2>2. CASE q # p
      <3>1. cache'[q] = cache[q] /\ reader'[q] = reader[q]
        BY <2>2 DEF CacheInv, Shape, Copies!Fetch, Copies!Fill, Copies!Expire
      <3>2. q \in late \cup blind => q \in late' \cup blind'
        BY <2>2 DEF Copies!Fetch, Copies!Fill, Copies!Expire
      <3>. QED
        BY <1>3, <2>1, <3>1, <3>2 DEF CacheInv, CopiesHeard, Heard
    <2>3. CASE q = p /\ Copies!Fetch(p)
      <3>1. cache'[q] = Nothing /\ reader'[q] = version
        BY <2>3 DEF CacheInv, Shape, Copies!Fetch
      <3>. QED
        BY <1>3, <3>1 DEF Heard
    <2>4. CASE q = p /\ (Copies!Fill(p) \/ Copies!Expire(p))
      <3>1. /\ cache'[q] \in {cache[q], reader[q], Nothing} /\ reader'[q] \in {reader[q], Nothing}
            /\ late' = late /\ blind' = blind
        BY <2>4 DEF CacheInv, Shape, Copies!Fill, Copies!Expire
      <3>. QED
        BY <1>3, <2>1, <3>1 DEF CacheInv, CopiesHeard, Heard
    <2>. QED
      BY <2>2, <2>3, <2>4
  <1>. QED
    BY <1>1, <1>2, <1>4, <1>5 DEF CacheInv

\* A write: everybody has yet to hear of it.
LEMMA WriteInv ==
  ASSUME CacheInv, NEW p \in Proc, Copies!Write(p)
  PROVE  CacheInv'
  <1>1. Shape' /\ ClockLeads' /\ BlindKnown'
    BY DEF CacheInv, Shape, ClockLeads, BlindKnown, Copies!Write, Copies!Counters, Copies!Caches, Copies!Polls
  <1>2. writer'[p] = "wrote"
    BY DEF CacheInv, Shape, Copies!Write
  <1>3. CopiesHeard'
    BY <1>2 DEF CopiesHeard, Heard, ToHear
  <1>. QED
    BY <1>1, <1>3 DEF CacheInv

LEMMA AnsweredInv ==
  ASSUME CacheInv, NEW p \in Proc, Copies!Answered(p)
  PROVE  CacheInv'
  <1>1. Shape' /\ ClockLeads' /\ BlindKnown'
    BY DEF CacheInv, Shape, ClockLeads, BlindKnown, Copies!Answered, Copies!Drop, Copies!Polls
  <1>2. bumps' > 0
    BY DEF CacheInv, Shape, Copies!Answered
  <1>3. CopiesHeard'
    BY <1>2 DEF CopiesHeard, Heard, ToHear
  <1>. QED
    BY <1>1, <1>3 DEF CacheInv

\* The counter becomes one that nobody has seen.
LEMMA BumpInv ==
  ASSUME Nothing \notin Nat, CacheInv, Copies!Bump
  PROVE  CacheInv'
  <1>1. CASE clock' = clock + 1 /\ counter' = Copies!NextCounter(counter, clock') /\ UNCHANGED lost
    <2>1. counter' = clock + 1 /\ counter' = clock'
      BY <1>1 DEF CacheInv, Shape, ClockLeads, Copies!NextCounter
    <2>2. Shape' /\ BlindKnown'
      BY <1>1, <2>1 DEF CacheInv, Shape, BlindKnown, Copies!Bump, Copies!Caches, Copies!Polls
    <2>3. ClockLeads'
      BY <1>1, <2>1 DEF CacheInv, Shape, ClockLeads, Copies!Bump, Copies!Polls
    <2>4. \A p \in Proc : seen'[p] # counter'
      BY <2>1 DEF CacheInv, Shape, ClockLeads, Copies!Bump, Copies!Polls
    <2>5. CopiesHeard'
      BY <2>4 DEF CopiesHeard, Heard, ToHear
    <2>. QED
      BY <2>2, <2>3, <2>5 DEF CacheInv
  <1>2. CASE lost' = TRUE /\ UNCHANGED <<counter, clock, restores>>
    <2>1. Shape' /\ ClockLeads' /\ BlindKnown'
      BY <1>2 DEF CacheInv, Shape, ClockLeads, BlindKnown, Copies!Bump, Copies!Caches, Copies!Polls
    <2>2. CopiesHeard'
      BY <1>2 DEF CopiesHeard, Heard
    <2>. QED
      BY <2>1, <2>2 DEF CacheInv
  <1>. QED
    BY <1>1, <1>2 DEF Copies!Bump

\* An old counter comes back, and everybody has yet to hear of it.
LEMMA RestoreInv ==
  ASSUME CacheInv, Copies!Restore
  PROVE  CacheInv'
  <1>1. Shape' /\ ClockLeads' /\ BlindKnown'
    BY DEF CacheInv, Shape, ClockLeads, BlindKnown, Copies!Restore, Copies!Caches, Copies!Polls
  <1>2. restoring'
    BY DEF Copies!Restore
  <1>3. CopiesHeard'
    BY <1>2 DEF CopiesHeard, Heard, ToHear
  <1>. QED
    BY <1>1, <1>3 DEF CacheInv

\* The change is announced, or else its bump is lost.
LEMMA RestoreEndsInv ==
  ASSUME CacheInv, Copies!RestoreEnds
  PROVE  CacheInv'
  <1>0. /\ UNCHANGED <<version, counter, clock, writer>> /\ Copies!Caches /\ Copies!Polls
        /\ bumps' \in {bumps, bumps + 1} /\ restoring' = FALSE /\ (lost' = lost \/ lost' = TRUE)
    BY DEF Copies!RestoreEnds
  <1>1. Shape' /\ ClockLeads' /\ BlindKnown'
    <2>1. restoring' \in BOOLEAN /\ lost' \in BOOLEAN
      BY <1>0, Zenon DEF CacheInv, Shape
    <2>2. bumps' \in Nat
      BY <1>0 DEF CacheInv, Shape
    <2>3. Shape'
      BY <1>0, <2>1, <2>2 DEF CacheInv, Shape, Copies!Caches, Copies!Polls
    <2>. QED
      BY <1>0, <2>3 DEF CacheInv, ClockLeads, BlindKnown, Copies!Caches, Copies!Polls
  <1>2. bumps' > 0 \/ lost'
    BY DEF CacheInv, Shape, Copies!RestoreEnds
  <1>3. CopiesHeard'
    BY <1>2 DEF CopiesHeard, Heard, ToHear
  <1>. QED
    BY <1>1, <1>3 DEF CacheInv

LEMMA PollInv ==
  ASSUME CacheInv, NEW p \in Proc, Copies!Poll(p)
  PROVE  CacheInv'
  <1>1. UNCHANGED <<version, writer, seen>> /\ Copies!Counters /\ Copies!Caches
    BY DEF Copies!Poll
  <1>2. Shape' /\ ClockLeads'
    BY <1>1 DEF CacheInv, Shape, ClockLeads, Copies!Counters, Copies!Caches, Copies!Poll
  <1>3. BlindKnown' /\ CopiesHeard'
    BY <1>1 DEF CacheInv, BlindKnown, CopiesHeard, Heard, ToHear, Copies!Counters, Copies!Caches
  <1>. QED
    BY <1>2, <1>3 DEF CacheInv

\* What is compared is a change, or what the process has seen already, or the first it sees.
LEMMA CompareInv ==
  ASSUME CacheInv, NEW p \in Proc, Copies!Compare(p)
  PROVE  CacheInv'
  <1>1. UNCHANGED <<version, writer>> /\ Copies!Counters
        /\ seen' = [seen EXCEPT ![p] = polled[p]] /\ polled[p] # Nothing
    BY DEF Copies!Compare
  <1>2. Shape'
    BY <1>1 DEF CacheInv, Shape, Copies!Counters, Copies!Caches, Copies!Drop, Copies!Compare
  <1>3. ClockLeads'
    BY <1>1 DEF CacheInv, Shape, ClockLeads, Copies!Counters, Copies!Compare
  <1>4. \A q \in Proc : q # p => /\ seen'[q] = seen[q]
                                 /\ cache'[q] = cache[q] /\ reader'[q] = reader[q]
                                 /\ q \in late' <=> q \in late
                                 /\ q \in blind' <=> q \in blind
    BY DEF CacheInv, Shape, Copies!Compare, Copies!Drop, Copies!Caches
  <1>5. BlindKnown'
    BY <1>1, <1>4 DEF CacheInv, Shape, BlindKnown
  <1>6. CopiesHeard'
    <2>. SUFFICES ASSUME NEW q \in Proc PROVE Heard(q, cache[q])' /\ Heard(q, reader[q])'
      BY DEF CopiesHeard
    <2>1. CASE q # p
      <3>1. ToHear(q)' <=> ToHear(q)
        BY <1>1, <1>4, <2>1 DEF ToHear, Copies!Counters
      <3>. QED
        BY <1>1, <1>4, <2>1, <3>1 DEF CacheInv, CopiesHeard, Heard, Copies!Counters
    <2>2. CASE q = p /\ Copies!Changed(p)
      <3>1. cache'[q] = Nothing /\ (reader'[q] = Nothing \/ q \in late')
        BY <2>2 DEF CacheInv, Shape, Copies!Compare, Copies!Drop
      <3>. QED
        BY <3>1 DEF Heard
    <2>3. CASE q = p /\ seen[p] = Nothing
      <3>1. Copies!Caches
        BY <2>3 DEF Copies!Compare, Copies!Changed
      <3>. QED
        BY <2>3, <3>1 DEF CacheInv, BlindKnown, Heard, Copies!Caches
    <2>4. CASE q = p /\ seen[p] = polled[p]
      <3>1. Copies!Caches /\ seen' = seen
        BY <2>4 DEF Copies!Compare, Copies!Changed, CacheInv, Shape
      <3>2. ToHear(q)' <=> ToHear(q)
        BY <1>1, <3>1 DEF ToHear, Copies!Counters
      <3>. QED
        BY <1>1, <3>1, <3>2 DEF CacheInv, CopiesHeard, Heard, Copies!Caches, Copies!Counters
    <2>. QED
      BY <2>1, <2>2, <2>3, <2>4 DEF Copies!Changed
  <1>. QED
    BY <1>2, <1>3, <1>5, <1>6 DEF CacheInv

LEMMA RestartInv ==
  ASSUME CacheInv, NEW p \in Proc, Copies!Restart(p)
  PROVE  CacheInv'
  <1>1. Shape' /\ ClockLeads'
    BY DEF CacheInv, Shape, ClockLeads, Copies!Restart
  <1>2. /\ cache'[p] = Nothing /\ reader'[p] = Nothing
        /\ \A q \in Proc : q # p => /\ seen'[q] = seen[q] /\ writer'[q] = writer[q]
                                    /\ cache'[q] = cache[q] /\ reader'[q] = reader[q]
                                    /\ q \in late' <=> q \in late
                                    /\ q \in blind' <=> q \in blind
    BY DEF CacheInv, Shape, Copies!Restart
  <1>3. BlindKnown'
    BY <1>2 DEF CacheInv, BlindKnown
  <1>4. CopiesHeard'
    <2>. SUFFICES ASSUME NEW q \in Proc, q # p PROVE Heard(q, cache[q])' /\ Heard(q, reader[q])'
      BY <1>2 DEF CopiesHeard, Heard
    <2>1. ToHear(q) => ToHear(q)' \/ lost'
      BY <1>2 DEF ToHear, Copies!Restart
    <2>. QED
      BY <1>2, <2>1 DEF CacheInv, CopiesHeard, Heard, Copies!Restart
  <1>. QED
    BY <1>1, <1>3, <1>4 DEF CacheInv

-----------------------------------------------------------------------------
LEMMA CacheNext ==
  ASSUME Nothing \notin Nat, CacheInv, [Copies!Next]_(Copies!vars)
  PROVE  CacheInv'
  <1>1. CASE UNCHANGED Copies!vars
    BY <1>1 DEF Copies!vars, CacheInv, Shape, ClockLeads, BlindKnown, CopiesHeard, Heard, ToHear
  <1>. QED
    BY <1>1, CopiesInv, WriteInv, AnsweredInv, BumpInv, RestoreInv, RestoreEndsInv, PollInv, CompareInv, RestartInv
       DEF Copies!Next

\* A process that has heard of every change serves the row as it is, but for the reads and copies
\* the code does not drop (CacheAssumption: Nothing is no version), for any number of processes,
\* changes, restores and faults.
THEOREM CacheServesTheRow ==
  ASSUME Nothing \notin Nat
  PROVE  Copies!Spec => []ServesTheRow
  <1>1. CacheInv => ServesTheRow
    BY DEF CacheInv, CopiesHeard, Heard, ServesTheRow
  <1>2. CacheInv /\ [Copies!Next]_(Copies!vars) => CacheInv'
    BY CacheNext
  <1>. QED
    BY <1>1, <1>2, CacheInit, PTL DEF Copies!Spec

-----------------------------------------------------------------------------
(* The types of the copies: every change is bumped once                    *)

\* The processes that changed the row and have not answered.
Wrote == {p \in Proc : writer[p] = "wrote"}

\* What was bumped, the bumps under way, the writes and the restore that will bump are no more than the changes.
Unannounced == IF restoring THEN 1 ELSE 0
Changes ==
  /\ version \in 0..MaxChanges /\ IsFiniteSet(Wrote)
  /\ clock + bumps + Cardinality(Wrote) + Unannounced <= version
  /\ restores \in 0..MaxRestores /\ cacheFaults \in 0..MaxCacheFaults

\* What a process has of the row is a version of it.
Versions ==
  /\ cache \in [Proc -> (0..version) \cup {Nothing}] /\ reader \in [Proc -> (0..version) \cup {Nothing}]
  /\ late \subseteq Proc /\ blind \subseteq Proc

\* The bounds are naturals.
LEMMA CacheTypes ==
  ASSUME Nothing \notin Nat, MaxChanges \in Nat, MaxRestores \in Nat, CacheInv, Changes, Versions
  PROVE  Copies!TypeOK
  <1>1. Cardinality(Wrote) \in Nat /\ version \in 0..MaxChanges
    BY FS_CardinalityType DEF Changes
  <1>2. clock \in 0..(MaxChanges + MaxRestores) /\ bumps \in 0..(MaxChanges + MaxRestores)
    BY <1>1 DEF Changes, Unannounced, CacheInv, Shape
  <1>3. counter \in 0..(MaxChanges + MaxRestores)
    BY <1>2 DEF CacheInv, Shape, ClockLeads
  <1>4. /\ cache \in [Proc -> (0..MaxChanges) \cup {Nothing}]
        /\ reader \in [Proc -> (0..MaxChanges) \cup {Nothing}]
    <2>1. 0..version \subseteq 0..MaxChanges
      BY <1>1
    <2>. QED
      BY <2>1 DEF Versions
  <1>5. /\ seen \in [Proc -> (0..(MaxChanges + MaxRestores)) \cup {Nothing}]
        /\ polled \in [Proc -> (0..(MaxChanges + MaxRestores)) \cup {Nothing}]
    <2>1. \A p \in Proc : /\ seen[p] # Nothing => seen[p] \in Nat /\ seen[p] <= clock
                          /\ polled[p] # Nothing => polled[p] \in Nat /\ polled[p] <= clock
      BY DEF CacheInv, Shape, ClockLeads
    <2>2. \A p \in Proc : /\ seen[p] \in (0..(MaxChanges + MaxRestores)) \cup {Nothing}
                          /\ polled[p] \in (0..(MaxChanges + MaxRestores)) \cup {Nothing}
      BY <1>2, <2>1
    <2>. QED
      BY <2>2 DEF CacheInv, Shape
  <1>. QED
    BY <1>1, <1>2, <1>3, <1>4, <1>5 DEF Copies!TypeOK, Copies!Version, Copies!Counter, Changes, Versions, CacheInv, Shape

\* No process comes to have a change to answer for.
LEMMA WroteStays ==
  ASSUME CacheInv, Changes, Wrote' \subseteq Wrote, UNCHANGED <<version, clock, bumps, restoring, restores>>,
         cacheFaults' \in 0..MaxCacheFaults
  PROVE  Changes'
  <1>1. /\ IsFiniteSet(Wrote') /\ Cardinality(Wrote') <= Cardinality(Wrote)
        /\ Cardinality(Wrote) \in Nat /\ Cardinality(Wrote') \in Nat
    BY FS_Subset, FS_CardinalityType DEF Changes
  <1>. QED
    BY <1>1 DEF Changes, Unannounced, CacheInv, Shape

\* The faults of the copies are counted.
LEMMA FaultsCount == ASSUME MaxCacheFaults \in Nat, Changes, NEW kind, Copies!Fault(kind) PROVE cacheFaults' \in 0..MaxCacheFaults
  BY DEF Copies!Fault, Changes

\* A change is answered for once, and bumped once.
LEMMA ChangesNext ==
  ASSUME MaxChanges \in Nat, MaxRestores \in Nat, MaxCacheFaults \in Nat, CacheInv, Changes,
         [Copies!Next]_(Copies!vars)
  PROVE  Changes'
  <1>0. /\ version \in Nat /\ clock \in Nat /\ bumps \in Nat /\ cacheFaults \in 0..MaxCacheFaults
        /\ IsFiniteSet(Wrote) /\ Cardinality(Wrote) \in Nat
    BY FS_CardinalityType DEF CacheInv, Shape, Changes
  <1>1. ASSUME NEW p \in Proc, Copies!Fetch(p) \/ Copies!Fill(p) \/ Copies!Expire(p) \/ Copies!Compare(p)
        PROVE  Changes'
    BY <1>1 DEF Copies!Fetch, Copies!Fill, Copies!Expire, Copies!Compare, Copies!Counters, Copies!Polls,
         Copies!Bounds, Changes, Unannounced, Wrote
  <1>2. ASSUME NEW p \in Proc, Copies!Poll(p) \/ Copies!Restart(p) PROVE Changes'
    <2>1. UNCHANGED <<version, clock, bumps, restoring, restores>>
      BY <1>2 DEF Copies!Poll, Copies!Restart, Copies!Counters
    <2>2. Wrote' \subseteq Wrote
      BY <1>2 DEF Copies!Poll, Copies!Restart, Wrote, CacheInv, Shape
    <2>3. cacheFaults' \in 0..MaxCacheFaults
      BY <1>0, <1>2, FaultsCount DEF Copies!Poll, Copies!Restart
    <2>. QED
      BY <2>1, <2>2, <2>3, WroteStays
  <1>3. ASSUME NEW p \in Proc, Copies!Write(p) PROVE Changes'
    <2>1. /\ version < MaxChanges /\ version' = version + 1 /\ UNCHANGED <<clock, bumps, restoring, restores, cacheFaults>>
          /\ writer' = [writer EXCEPT ![p] = "wrote"] /\ writer[p] = "idle"
      BY <1>3 DEF Copies!Write, Copies!Counters, Copies!Bounds
    <2>2. Wrote' = Wrote \cup {p} /\ p \notin Wrote
      BY <2>1 DEF Wrote, CacheInv, Shape
    <2>3. IsFiniteSet(Wrote') /\ Cardinality(Wrote') = Cardinality(Wrote) + 1
      BY <1>0, <2>2, FS_AddElement
    <2>. QED
      BY <1>0, <2>1, <2>3 DEF Changes, Unannounced
  <1>4. ASSUME NEW p \in Proc, Copies!Answered(p) PROVE Changes'
    <2>1. /\ bumps' = bumps + 1 /\ UNCHANGED <<version, clock, restoring, restores, cacheFaults>>
          /\ writer' = [writer EXCEPT ![p] = "idle"] /\ writer[p] = "wrote"
      BY <1>4 DEF Copies!Answered, Copies!Bounds
    <2>2. Wrote' = Wrote \ {p} /\ p \in Wrote
      BY <2>1 DEF Wrote, CacheInv, Shape
    <2>3. IsFiniteSet(Wrote') /\ Cardinality(Wrote') = Cardinality(Wrote) - 1
      BY <1>0, <2>2, FS_RemoveElement
    <2>. QED
      BY <1>0, <2>1, <2>3 DEF Changes, Unannounced
  <1>5. CASE Copies!Bump
    <2>1. /\ bumps > 0 /\ bumps' = bumps - 1 /\ clock' \in {clock, clock + 1}
          /\ UNCHANGED <<version, writer, restoring, restores>>
      BY <1>5 DEF Copies!Bump, Copies!Bounds
    <2>2. Wrote' = Wrote
      BY <2>1 DEF Wrote
    <2>3. cacheFaults' \in 0..MaxCacheFaults
      BY <1>0, <1>5, FaultsCount DEF Copies!Bump, Copies!Bounds
    <2>. QED
      BY <1>0, <2>1, <2>2, <2>3 DEF Changes, Unannounced
  <1>6. CASE Copies!Restore
    <2>1. /\ restores < MaxRestores /\ restores' = restores + 1
          /\ version < MaxChanges /\ version' = version + 1 /\ ~restoring /\ restoring'
          /\ UNCHANGED <<clock, bumps, writer, cacheFaults>>
      BY <1>6 DEF Copies!Restore
    <2>2. Wrote' = Wrote
      BY <2>1 DEF Wrote
    <2>. QED
      BY <1>0, <2>1, <2>2 DEF Changes, Unannounced
  <1>7. CASE Copies!RestoreEnds
    <2>1. /\ restoring /\ ~restoring' /\ bumps' \in {bumps, bumps + 1}
          /\ UNCHANGED <<version, clock, writer, restores>>
      BY <1>7 DEF Copies!RestoreEnds, Copies!Bounds, CacheInv, Shape
    <2>2. Wrote' = Wrote
      BY <2>1 DEF Wrote
    <2>3. cacheFaults' \in 0..MaxCacheFaults
      BY <1>0, <1>7, FaultsCount DEF Copies!RestoreEnds, Copies!Bounds
    <2>. QED
      BY <1>0, <2>1, <2>2, <2>3 DEF Changes, Unannounced
  <1>8. CASE UNCHANGED Copies!vars
    BY <1>8 DEF Copies!vars, Changes, Unannounced, Wrote
  <1>. QED
    BY <1>1, <1>2, <1>3, <1>4, <1>5, <1>6, <1>7, <1>8 DEF Copies!Next

\* Copies are of versions the row had.
LEMMA VersionsNext ==
  ASSUME CacheInv, Versions, [Copies!Next]_(Copies!vars)
  PROVE  Versions'
  <1>1. version' \in {version, version + 1} /\ version \in Nat
    BY DEF CacheInv, Shape, Copies!Next, Copies!vars, Copies!Fetch, Copies!Fill, Copies!Expire, Copies!Write,
         Copies!Answered, Copies!Poll, Copies!Compare, Copies!Restart, Copies!Bump, Copies!Restore, Copies!RestoreEnds
  <1>2. (0..version) \cup {Nothing} \subseteq (0..version') \cup {Nothing} /\ version \in 0..version
    BY <1>1
  <1>3. ASSUME NEW p \in Proc
        PROVE  /\ Copies!Fetch(p) \/ Copies!Fill(p) \/ Copies!Expire(p) => Versions'
               /\ Copies!Write(p) \/ Copies!Answered(p) \/ Copies!Poll(p) => Versions'
               /\ Copies!Compare(p) \/ Copies!Restart(p) => Versions'
    <2>1. /\ cache' \in {cache, [cache EXCEPT ![p] = reader[p]], [cache EXCEPT ![p] = Nothing]}
          /\ reader' \in {reader, [reader EXCEPT ![p] = version], [reader EXCEPT ![p] = Nothing]}
          /\ late' \subseteq late \cup {p} /\ blind' \subseteq blind \cup {p}
          => Versions'
      BY <1>2 DEF Versions
    <2>. QED
      BY <2>1 DEF Copies!Fetch, Copies!Fill, Copies!Expire, Copies!Write, Copies!Answered, Copies!Drop, Copies!Poll,
           Copies!Compare, Copies!Restart, Copies!Caches
  <1>4. CASE Copies!Bump \/ Copies!Restore \/ Copies!RestoreEnds \/ UNCHANGED Copies!vars
    BY <1>2, <1>4 DEF Copies!Bump, Copies!Restore, Copies!RestoreEnds, Copies!vars, Copies!Caches, Versions
  <1>. QED
    BY <1>3, <1>4 DEF Copies!Next

\* Every counter, copy and bump of the caches keeps its type, no bump among them that no change asked
\* for, for any number of processes, changes, restores and faults (the naturals of CacheAssumption).
THEOREM CacheTypeCorrect ==
  ASSUME Nothing \notin Nat, MaxChanges \in Nat, MaxRestores \in Nat, MaxCacheFaults \in Nat
  PROVE  Copies!Spec => []Copies!TypeOK
  <1>1. Copies!Init => CacheInv /\ Changes /\ Versions
    <2>. SUFFICES ASSUME Copies!Init PROVE CacheInv /\ Changes /\ Versions
      OBVIOUS
    <2>1. CacheInv
      BY CacheInit
    <2>2. Wrote = {}
      BY DEF Copies!Init, Copies!Everywhere, Wrote
    <2>3. Changes
      BY <2>2, FS_EmptySet DEF Copies!Init, Changes, Unannounced
    <2>4. Versions
      BY DEF Copies!Init, Copies!Everywhere, Versions
    <2>. QED
      BY <2>1, <2>3, <2>4
  <1>2. CacheInv /\ Changes /\ Versions /\ [Copies!Next]_(Copies!vars) => CacheInv' /\ Changes' /\ Versions'
    BY CacheNext, ChangesNext, VersionsNext
  <1>3. CacheInv /\ Changes /\ Versions => Copies!TypeOK
    BY CacheTypes
  <1>. QED
    BY <1>1, <1>2, <1>3, PTL DEF Copies!Spec
=============================================================================

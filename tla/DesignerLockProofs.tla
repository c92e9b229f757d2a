------------------------- MODULE DesignerLockProofs -------------------------
(***************************************************************************)
(* TypeOK, NeverStolen and ReleaseStands of DesignerLock for any number of *)
(* designers, requests and sleeps.                                         *)
(*                                                                         *)
(* The lock is read in one statement and changed in the next. What is      *)
(* carried from the one to the other is what was read: a lock about to be  *)
(* deleted was read as stale (Control), and a designer whose lock was just *)
(* released has read nothing else since (JustReleased).                    *)
(***************************************************************************)
EXTENDS DesignerLock, FiniteSetTheorems, TLAPS

Shape ==
  /\ row \in LockRow
  /\ task \in [Designer -> [Activity -> Task]]
  /\ dismissed \in [Designer -> {"no", "just", "before"}]

\* What a task at some place is there for.
Placed(t, c) ==
  /\ t.pc \in {"insert", "update"} => t.what \in {"back", "on", "save", "import"}
  /\ t.pc = "expire" => Stale(t.seen)
  /\ t.pc = "release" => t.what = "force" /\ t.seen.kind = "held"
  /\ t.what = "force" => c \in Admin
  /\ t.pc = "idle" => t.what = "none"
Control == \A c \in Designer, a \in Activity : Placed(task[c][a], c)

\* The poll of a designer whose lock was released, and nothing happened to the row since.
Unaware(t) ==
  /\ t.what \in {"none", "poll"} /\ t.pc \in {"idle", "status", "answer"}
  /\ t.pc = "answer" => t.seen = row
JustReleased ==
  \A c \in Designer : dismissed[c] = "just" => row = ReleasedOf(c) /\ Unaware(task[c]["poll"])

DesignerInv == Shape /\ Control /\ JustReleased

-----------------------------------------------------------------------------
(* Rows and tasks                                                          *)

LEMMA RowTypes ==
  /\ Free \in LockRow
  /\ \A c \in Designer : HeldBy(c) \in LockRow /\ ReleasedOf(c) \in LockRow
  BY DEF Free, HeldBy, ReleasedOf, LockRow

LEMMA KindOfRow ==
  ASSUME NEW r \in LockRow
  PROVE  /\ r = Free \/ (r.kind \in {"held", "released"} /\ r.by \in Designer /\ r.stale \in BOOLEAN)
         /\ r.kind = "free" <=> r = Free
  BY DEF LockRow, Free

LEMMA TaskTypes ==
  /\ Idle \in Task
  /\ \A w \in What : Asks(w) \in Task /\ Takes(w) \in Task
  <1>1. Idle \in Task
    BY RowTypes DEF Idle, Task, What, Pc
  <1>. QED
    BY <1>1 DEF Asks, Takes, Idle, Task, What, Pc

LEMMA TaskFields ==
  /\ Idle.what = "none" /\ Idle.pc = "idle"
  /\ \A w : /\ Asks(w).what = w /\ Asks(w).pc = "status" /\ Asks(w).before = FALSE
            /\ Takes(w).what = w /\ Takes(w).pc = "insert"
  BY DEF Idle, Asks, Takes

LEMMA BecomesType ==
  ASSUME Shape, NEW c \in Designer, NEW a \in Activity, NEW t \in Task, Becomes(c, a, t)
  PROVE  /\ task' \in [Designer -> [Activity -> Task]]
         /\ task'[c][a] = t
         /\ \A d \in Designer, b \in Activity : d # c \/ b # a => task'[d][b] = task[d][b]
  BY DEF Shape, Becomes

\* A step on one task, and perhaps on the row: what it has to show.
LEMMA StepInv ==
  ASSUME DesignerInv, NEW c \in Designer, NEW a \in Activity, NEW t \in Task, Becomes(c, a, t),
         Placed(t, c), row' \in LockRow, dismissed' \in [Designer -> {"no", "just", "before"}],
         \A d \in Designer : dismissed'[d] = "just" =>
           \/ dismissed[d] = "just" /\ row' = row /\ (d # c \/ a # "poll" \/ Unaware(t))
           \/ row' = ReleasedOf(d) /\ d # c /\ At(d, "poll", "idle")
  PROVE  DesignerInv'
  <1>0. "poll" \in Activity
    BY DEF Activity
  <1>1. /\ task' \in [Designer -> [Activity -> Task]]
        /\ task'[c][a] = t
        /\ \A d \in Designer, b \in Activity : d # c \/ b # a => task'[d][b] = task[d][b]
    BY BecomesType DEF DesignerInv
  <1>2. Shape'
    BY <1>1 DEF Shape
  <1>3. Control'
    BY <1>1 DEF DesignerInv, Control, Placed
  <1>4. JustReleased'
    <2>. SUFFICES ASSUME NEW d \in Designer, dismissed'[d] = "just"
                  PROVE  row' = ReleasedOf(d) /\ Unaware(task[d]["poll"])'
      BY DEF JustReleased
    <2>1. CASE dismissed[d] = "just" /\ row' = row /\ (d # c \/ a # "poll" \/ Unaware(t))
      <3>1. row = ReleasedOf(d) /\ Unaware(task[d]["poll"])
        BY <2>1 DEF DesignerInv, JustReleased
      <3>2. CASE d # c \/ a # "poll"
        BY <1>0, <1>1, <2>1, <3>1, <3>2 DEF Unaware
      <3>3. CASE d = c /\ a = "poll"
        BY <1>1, <2>1, <3>1, <3>3 DEF Unaware
      <3>. QED
        BY <3>2, <3>3
    <2>2. CASE row' = ReleasedOf(d) /\ d # c /\ At(d, "poll", "idle")
      <3>1. task'[d]["poll"] = task[d]["poll"]
        BY <1>0, <1>1, <2>2
      <3>2. task[d]["poll"].pc = "idle" /\ task[d]["poll"].what = "none"
        BY <1>0, <2>2 DEF DesignerInv, Control, Placed, At
      <3>. QED
        BY <2>2, <3>1, <3>2 DEF Unaware
    <2>. QED
      BY <2>1, <2>2
  <1>. QED
    BY <1>2, <1>3, <1>4 DEF DesignerInv

\* The same, when the row stays.
LEMMA TaskInv ==
  ASSUME DesignerInv, NEW c \in Designer, NEW a \in Activity, NEW t \in Task, Becomes(c, a, t),
         Placed(t, c), UNCHANGED <<row, dismissed>>,
         a = "user" \/ Unaware(t) \/ dismissed[c] # "just"
  PROVE  DesignerInv'
  <1>1. row' \in LockRow /\ dismissed' \in [Designer -> {"no", "just", "before"}]
    BY DEF DesignerInv, Shape
  <1>2. \A d \in Designer : dismissed'[d] = "just" =>
          dismissed[d] = "just" /\ row' = row /\ (d # c \/ a # "poll" \/ Unaware(t))
    BY DEF Activity
  <1>. QED
    BY <1>1, <1>2, StepInv

\* The same, when the row is written and no release was the last thing that happened to it.
LEMMA WrittenInv ==
  ASSUME DesignerInv, NEW c \in Designer, NEW a \in Activity, NEW t \in Task, Becomes(c, a, t),
         Placed(t, c), row' \in LockRow,
         \/ dismissed' = Touched
         \/ dismissed' = dismissed /\ \A d \in Designer : dismissed[d] # "just"
  PROVE  DesignerInv'
  <1>1. dismissed' \in [Designer -> {"no", "just", "before"}]
    BY DEF DesignerInv, Shape, Touched
  <1>2. \A d \in Designer : dismissed'[d] # "just"
    BY DEF DesignerInv, Shape, Touched
  <1>. QED
    BY <1>1, <1>2, StepInv

\* Nobody was just released while the row is anything but a release that was not left to age.
LEMMA NotJust ==
  ASSUME DesignerInv, row.kind # "released" \/ Stale(row)
  PROVE  \A d \in Designer : dismissed[d] # "just"
  BY DEF DesignerInv, JustReleased, ReleasedOf, Stale

LEMMA TaskOf ==
  ASSUME DesignerInv, NEW c \in Designer, NEW a \in Activity
  PROVE  /\ task[c][a] \in Task /\ Placed(task[c][a], c)
         /\ task[c][a].seen \in LockRow
         /\ a = "poll" /\ dismissed[c] = "just" => Unaware(task[c][a]) /\ row = ReleasedOf(c)
  BY DEF DesignerInv, Shape, Control, JustReleased, Task

LEMMA DesignerInit == Init => DesignerInv
  <1>. SUFFICES ASSUME Init PROVE DesignerInv
    OBVIOUS
  <1>1. Shape
    BY RowTypes, TaskTypes DEF Init, Shape
  <1>2. \A c \in Designer, a \in Activity : task[c][a] = Idle
    BY DEF Init
  <1>3. Control
    BY <1>2, TaskFields DEF Control, Placed
  <1>4. JustReleased
    BY DEF Init, JustReleased
  <1>. QED
    BY <1>1, <1>3, <1>4 DEF DesignerInv

-----------------------------------------------------------------------------
(* The statements                                                          *)

\* A lock about to be deleted was read as stale.
LEMMA SelectInv ==
  ASSUME DesignerInv, NEW c \in Designer, NEW a \in Activity, Select(c, a)
  PROVE  DesignerInv'
  <1>. DEFINE pc == IF Stale(row) THEN "expire" ELSE "answer"
              t == [task[c][a] EXCEPT !.seen = row, !.pc = pc]
  <1>0. /\ task[c][a] \in Task /\ Placed(task[c][a], c) /\ row \in LockRow /\ UNCHANGED <<row, dismissed>>
        /\ task[c][a].what \in {"poll", "off", "save", "import", "force"}
    BY TaskOf DEF DesignerInv, Shape, Select, Same
  <1>1. pc \in {"expire", "answer"} /\ (pc = "expire" => Stale(row))
    OBVIOUS
  <1>2. Becomes(c, a, t)
    BY DEF Select, Becomes, DesignerInv, Shape
  <1>. HIDE DEF pc
  <1>3. t \in Task /\ t.pc = pc /\ t.what = task[c][a].what /\ t.seen = row
    BY <1>0, <1>1 DEF Task, Pc
  <1>. HIDE DEF t
  <1>4. Placed(t, c)
    BY <1>0, <1>1, <1>3 DEF Placed
  <1>5. a = "user" \/ Unaware(t) \/ dismissed[c] # "just"
    <2>. SUFFICES ASSUME a = "poll", dismissed[c] = "just" PROVE Unaware(t)
      BY DEF Activity
    <2>1. ~Stale(row) /\ task[c][a].what \in {"none", "poll"}
      BY TaskOf DEF ReleasedOf, Stale, Unaware
    <2>. QED
      BY <1>1, <1>3, <2>1 DEF Unaware
  <1>. QED
    BY <1>0, <1>2, <1>3, <1>4, <1>5, TaskInv

LEMMA ExpireInv ==
  ASSUME DesignerInv, NEW c \in Designer, NEW a \in Activity, Expire(c, a)
  PROVE  DesignerInv'
  <1>. DEFINE now == IF Expires(task[c][a].seen) THEN Free ELSE row
              t == [task[c][a] EXCEPT !.seen = now, !.pc = "answer"]
  <1>0. /\ task[c][a] \in Task /\ Placed(task[c][a], c) /\ row \in LockRow
        /\ task[c][a].pc = "expire" /\ row' = now /\ UNCHANGED dismissed
    BY TaskOf DEF DesignerInv, Shape, Expire, At, Same
  <1>1. now \in LockRow
    BY <1>0, RowTypes
  <1>2. Becomes(c, a, t)
    BY DEF Expire, Becomes, DesignerInv, Shape
  <1>3. now = row \/ Stale(row)
    BY <1>0 DEF Expires, Placed
  <1>. HIDE DEF now
  <1>4. t \in Task /\ t.pc = "answer" /\ t.what = task[c][a].what
    BY <1>0, <1>1 DEF Task, Pc
  <1>. HIDE DEF t
  <1>5. Placed(t, c)
    BY <1>0, <1>4 DEF Placed
  <1>6. CASE now = row
    <2>1. a = "user" \/ dismissed[c] # "just"
      BY <1>0, TaskOf DEF Unaware, Activity
    <2>. QED
      BY <1>0, <1>2, <1>4, <1>5, <1>6, <2>1, TaskInv
  <1>7. CASE Stale(row)
    BY <1>0, <1>1, <1>2, <1>4, <1>5, <1>7, NotJust, WrittenInv
  <1>. QED
    BY <1>3, <1>6, <1>7

\* Where a task goes on after Lock.set.
LEMMA AfterSetTask ==
  ASSUME DesignerInv, NEW c \in Designer, NEW a \in Activity, NEW taken \in BOOLEAN,
         task[c][a].pc \in {"insert", "update"}
  PROVE  AfterSet(c, a, taken) \in Task /\ Placed(AfterSet(c, a, taken), c)
  <1>0. /\ task[c][a] \in Task /\ Placed(task[c][a], c)
        /\ task[c][a].what \in {"back", "on", "save", "import"}
    BY TaskOf DEF Placed
  <1>1. CASE task[c][a].what = "back"
    <2>1. AfterSet(c, a, taken) \in {Asks("read"), Idle}
      BY <1>1 DEF AfterSet
    <2>. QED
      BY <2>1, TaskTypes, TaskFields DEF Placed, What
  <1>2. CASE task[c][a].what = "on"
    <2>1. AfterSet(c, a, taken) \in {Asks("read"), Asks("load")}
      BY <1>2 DEF AfterSet
    <2>. QED
      BY <2>1, TaskTypes, TaskFields DEF Placed, What
  <1>3. CASE task[c][a].what \in {"save", "import"}
    <2>. DEFINE t == [task[c][a] EXCEPT !.pc = "write", !.acquired = taken]
    <2>1. AfterSet(c, a, taken) = t
      BY <1>3 DEF AfterSet
    <2>2. t \in Task /\ t.pc = "write" /\ t.what = task[c][a].what
      BY <1>0 DEF Task, Pc
    <2>. QED
      BY <1>3, <2>1, <2>2 DEF Placed
  <1>. QED
    BY <1>0, <1>1, <1>2, <1>3

\* A poll at Lock.set is not one of a designer who was just released.
LEMMA NotUnaware ==
  ASSUME DesignerInv, NEW c \in Designer, NEW a \in Activity,
         task[c][a].pc \notin {"idle", "status", "answer"} \/ task[c][a].what \notin {"none", "poll"}
  PROVE  a = "user" \/ dismissed[c] # "just"
  BY TaskOf DEF Unaware, Activity

LEMMA InsertInv ==
  ASSUME DesignerInv, NEW c \in Designer, NEW a \in Activity, Insert(c, a)
  PROVE  DesignerInv'
  <1>0. /\ task[c][a] \in Task /\ Placed(task[c][a], c) /\ task[c][a].pc = "insert"
    BY TaskOf DEF Insert, At
  <1>1. CASE row = Free
    <2>1. /\ row' = HeldBy(c) /\ Becomes(c, a, AfterSet(c, a, TRUE)) /\ dismissed' = Touched
          /\ row' \in LockRow
      BY <1>1, RowTypes DEF Insert
    <2>. QED
      BY <1>0, <2>1, AfterSetTask, WrittenInv
  <1>2. CASE row # Free
    <2>. DEFINE t == [task[c][a] EXCEPT !.pc = "update"]
    <2>1. UNCHANGED <<row, dismissed>> /\ Goes(c, a, "update")
      BY <1>2 DEF Insert
    <2>2. Becomes(c, a, t)
      BY <2>1 DEF Goes, Becomes, DesignerInv, Shape
    <2>3. t \in Task /\ t.pc = "update" /\ t.what = task[c][a].what
      BY <1>0 DEF Task, Pc
    <2>. HIDE DEF t
    <2>4. Placed(t, c)
      BY <1>0, <2>3 DEF Placed
    <2>. QED
      BY <1>0, <2>1, <2>2, <2>3, <2>4, NotUnaware, TaskInv
  <1>. QED
    BY <1>1, <1>2

LEMMA UpdateInv ==
  ASSUME DesignerInv, NEW c \in Designer, NEW a \in Activity, Update(c, a)
  PROVE  DesignerInv'
  <1>0. task[c][a].pc = "update" /\ row \in LockRow
    BY DEF Update, At, DesignerInv, Shape
  <1>1. CASE Takeable(row, c)
    <2>1. /\ row' = HeldBy(c) /\ Becomes(c, a, AfterSet(c, a, TRUE)) /\ dismissed' = Touched
          /\ row' \in LockRow
      BY <1>1, RowTypes DEF Update
    <2>. QED
      BY <1>0, <2>1, AfterSetTask, WrittenInv
  <1>2. CASE ~Takeable(row, c)
    <2>. DEFINE taken == Takeable(row, c)
    <2>0. taken \in BOOLEAN
      BY DEF Takeable, Mine
    <2>1. Becomes(c, a, AfterSet(c, a, taken))
      BY DEF Update
    <2>2. row' = (IF Stale(row) THEN Free ELSE row) /\ dismissed' = dismissed
      BY <1>2 DEF Update
    <2>3. row.kind # "released"
      BY <1>2 DEF Takeable
    <2>4. row' \in LockRow
      BY <1>0, <2>2, RowTypes
    <2>. HIDE DEF taken
    <2>. QED
      BY <1>0, <2>0, <2>1, <2>2, <2>3, <2>4, NotJust, AfterSetTask, WrittenInv
  <1>. QED
    BY <1>1, <1>2

-----------------------------------------------------------------------------
(* The designer                                                            *)

\* A task that starts or is over, the row as it was.
LEMMA BareInv ==
  ASSUME DesignerInv, NEW c \in Designer, NEW a \in Activity,
         NEW t \in {Idle} \cup {Asks(w) : w \in What \ {"force"}} \cup {Takes(w) : w \in {"back", "on"}},
         Becomes(c, a, t), UNCHANGED <<row, dismissed>>,
         a = "user" \/ t \in {Idle, Asks("poll")} \/ dismissed[c] # "just"
  PROVE  DesignerInv'
  <1>1. t \in Task
    BY TaskTypes DEF What
  <1>2. Placed(t, c)
    BY TaskFields DEF Placed
  <1>3. t \in {Idle, Asks("poll")} => Unaware(t)
    BY TaskFields DEF Unaware
  <1>. QED
    BY <1>1, <1>2, <1>3, TaskInv

LEMMA StartPollInv ==
  ASSUME DesignerInv, NEW c \in Designer, StartPoll(c)
  PROVE  DesignerInv'
  <1>0. "poll" \in What /\ "poll" \in Activity /\ UNCHANGED <<row, dismissed>>
    BY DEF What, Activity, StartPoll, Same
  <1>1. Asks("poll") \in Task /\ Asks("poll").what = "poll" /\ Asks("poll").pc = "status"
    BY <1>0, TaskTypes, TaskFields
  <1>2. PICK b \in BOOLEAN : Becomes(c, "poll", [Asks("poll") EXCEPT !.before = b])
    <2>1. (c \in match) \in BOOLEAN
      BY SMT
    <2>2. Becomes(c, "poll", [Asks("poll") EXCEPT !.before = c \in match])
      BY Zenon DEF StartPoll
    <2>. QED
      BY <2>1, <2>2, Zenon
  <1>. DEFINE t == [Asks("poll") EXCEPT !.before = b]
  <1>3. t \in Task /\ t.what = "poll" /\ t.pc = "status"
    BY <1>1 DEF Task
  <1>. HIDE DEF t
  <1>4. Placed(t, c) /\ Unaware(t)
    BY <1>3 DEF Placed, Unaware
  <1>. QED
    BY <1>0, <1>2, <1>3, <1>4, TaskInv DEF t

\* A designer that was just released reads that it was, and does not take the lock back.
LEMMA PolledInv ==
  ASSUME DesignerInv, NEW c \in Designer, Polled(c)
  PROVE  DesignerInv'
  <1>0. "poll" \in Activity /\ "back" \in What /\ UNCHANGED <<row, dismissed>>
    BY DEF Activity, What, Polled, Same
  <1>1. CASE TakesBack(c)
    <2>1. Becomes(c, "poll", Takes("back"))
      BY <1>1 DEF Polled
    <2>2. dismissed[c] # "just"
      <3>. SUFFICES ASSUME dismissed[c] = "just" PROVE FALSE
        OBVIOUS
      <3>1. task[c]["poll"].seen = ReleasedOf(c)
        BY <1>0, TaskOf DEF Polled, At, Unaware
      <3>2. Answer(c, "poll") = "released"
        BY <3>1 DEF Answer, Mine, ReleasedOf
      <3>. QED
        BY <1>1, <3>2 DEF TakesBack
    <2>. QED
      BY <1>0, <2>1, <2>2, BareInv
  <1>2. CASE ~TakesBack(c)
    <2>1. Becomes(c, "poll", Idle)
      BY <1>2 DEF Polled
    <2>. QED
      BY <1>0, <2>1, BareInv
  <1>. QED
    BY <1>1, <1>2

\* A read of the lock in one step: a stale one goes.
LEMMA ReadOnceInv ==
  ASSUME DesignerInv, NEW c \in Designer, NEW a \in Activity, Becomes(c, a, Idle),
         row' = (IF Stale(row) THEN Free ELSE row), UNCHANGED dismissed
  PROVE  DesignerInv'
  <1>1. CASE Stale(row)
    <2>1. row' \in LockRow /\ Idle \in Task /\ Placed(Idle, c)
      BY <1>1, RowTypes, TaskTypes, TaskFields DEF Placed
    <2>. QED
      BY <1>1, <2>1, NotJust, WrittenInv
  <1>2. CASE ~Stale(row)
    BY <1>2, BareInv
  <1>. QED
    BY <1>1, <1>2

LEMMA ReadsInv ==
  ASSUME DesignerInv, NEW c \in Designer, NEW a \in Activity, Reread(c, a) \/ Load(c)
  PROVE  DesignerInv'
  BY ReadOnceInv DEF Reread, Load, Same, Activity

\* What a user asks for; who turns the designer on has not been dismissed.
LEMMA AskingInv ==
  ASSUME DesignerInv, NEW c \in Designer, Asking(c)
  PROVE  DesignerInv'
  <1>0. /\ "user" \in Activity /\ UNCHANGED row
        /\ {"on", "off", "save", "import", "force"} \subseteq What
    BY DEF Activity, What, Asking, TurnOn, TurnOff, Save, Import, AskRelease
  <1>1. CASE TurnOff(c) \/ Save(c) \/ Import(c)
    BY <1>0, <1>1, BareInv DEF TurnOff, Save, Import
  <1>2. CASE AskRelease(c)
    <2>1. Asks("force") \in Task /\ Placed(Asks("force"), c)
      BY <1>0, <1>2, TaskTypes, TaskFields DEF Placed, AskRelease
    <2>. QED
      BY <1>0, <1>2, <2>1, TaskInv DEF AskRelease
  <1>3. CASE TurnOn(c)
    <2>1. Takes("on") \in Task /\ Placed(Takes("on"), c) /\ Becomes(c, "user", Takes("on"))
      BY <1>0, <1>3, TaskTypes, TaskFields DEF Placed, TurnOn
    <2>2. /\ dismissed' \in [Designer -> {"no", "just", "before"}]
          /\ \A d \in Designer : dismissed'[d] = "just" => dismissed[d] = "just"
      BY <1>3 DEF TurnOn, DesignerInv, Shape
    <2>3. row' \in LockRow
      BY <1>0 DEF DesignerInv, Shape
    <2>. QED
      BY <1>0, <2>1, <2>2, <2>3, StepInv
  <1>. QED
    BY <1>1, <1>2, <1>3 DEF Asking

-----------------------------------------------------------------------------
(* The requests on the server                                              *)

\* The user's task goes on, without its reading of the lock, or is over.
LEMMA UserGoesInv ==
  ASSUME DesignerInv, NEW c \in Designer, NEW t \in Task, Becomes(c, "user", t),
         t.what = task[c]["user"].what,
         \/ t.pc \in {"status", "answer", "write", "delete"}
         \/ t.pc = "insert" /\ t.what \in {"save", "import"}
         \/ t.pc = "release" /\ t.what = "force" /\ t.seen.kind = "held",
         UNCHANGED <<row, dismissed>>
  PROVE  DesignerInv'
  <1>0. "user" \in Activity
    BY DEF Activity
  <1>1. Placed(task[c]["user"], c)
    BY <1>0, TaskOf
  <1>2. Placed(t, c)
    BY <1>1 DEF Placed
  <1>. QED
    BY <1>0, <1>2, TaskInv

LEMMA SaveCheckedInv ==
  ASSUME DesignerInv, NEW c \in Designer, SaveChecked(c)
  PROVE  DesignerInv'
  <1>. DEFINE u == task[c]["user"]
              w == [[u EXCEPT !.seen = Free] EXCEPT !.pc = "write"]
              i == [[u EXCEPT !.seen = Free] EXCEPT !.pc = "insert"]
  <1>0. "user" \in Activity /\ UNCHANGED <<row, dismissed>> /\ u.what \in {"save", "import"}
    BY DEF Activity, SaveChecked, Same
  <1>1. u \in Task /\ Free \in LockRow
    BY <1>0, TaskOf, RowTypes
  <1>2. /\ w \in Task /\ w.what = u.what /\ w.pc = "write"
        /\ i \in Task /\ i.what = u.what /\ i.pc = "insert"
    BY <1>1 DEF Task, Pc
  <1>3. Becomes(c, "user", w) \/ Becomes(c, "user", i) \/ Becomes(c, "user", Idle)
    BY DEF SaveChecked
  <1>. HIDE DEF u, w, i
  <1>4. CASE Becomes(c, "user", Idle)
    BY <1>0, <1>4, BareInv
  <1>5. CASE Becomes(c, "user", w)
    BY <1>0, <1>2, <1>5, UserGoesInv DEF u
  <1>6. CASE Becomes(c, "user", i)
    BY <1>0, <1>2, <1>6, UserGoesInv DEF u
  <1>. QED
    BY <1>3, <1>4, <1>5, <1>6

LEMMA UserPcInv ==
  ASSUME DesignerInv, NEW c \in Designer, NEW pc \in {"write", "delete", "release"},
         Goes(c, "user", pc), UNCHANGED <<row, dismissed>>,
         pc = "release" => task[c]["user"].what = "force" /\ task[c]["user"].seen.kind = "held"
  PROVE  DesignerInv'
  <1>. DEFINE t == [task[c]["user"] EXCEPT !.pc = pc]
  <1>0. "user" \in Activity
    BY DEF Activity
  <1>1. task[c]["user"] \in Task
    BY <1>0, TaskOf
  <1>2. /\ t \in Task /\ t.what = task[c]["user"].what /\ t.pc = pc
        /\ t.seen = task[c]["user"].seen
    BY <1>1 DEF Task, Pc
  <1>3. Becomes(c, "user", t)
    BY <1>0 DEF Goes, Becomes, DesignerInv, Shape
  <1>. HIDE DEF t
  <1>. QED
    BY <1>2, <1>3, UserGoesInv

LEMMA WriteInv ==
  ASSUME DesignerInv, NEW c \in Designer, Write(c)
  PROVE  DesignerInv'
  <1>0. "user" \in Activity /\ UNCHANGED <<row, dismissed>>
    BY DEF Activity, Write
  <1>1. CASE Goes(c, "user", "delete")
    BY <1>0, <1>1, UserPcInv
  <1>2. CASE Becomes(c, "user", Idle)
    BY <1>0, <1>2, BareInv
  <1>. QED
    BY <1>1, <1>2 DEF Write

LEMMA OffCheckedInv ==
  ASSUME DesignerInv, NEW c \in Designer, OffChecked(c)
  PROVE  DesignerInv'
  <1>. DEFINE u == task[c]["user"]
              t == [u EXCEPT !.pc = "delete", !.seen = Free]
  <1>0. "user" \in Activity /\ UNCHANGED <<row, dismissed>> /\ "offread" \in What
    BY DEF Activity, What, OffChecked, Same
  <1>1. u \in Task /\ Free \in LockRow
    BY <1>0, TaskOf, RowTypes
  <1>2. t \in Task /\ t.what = u.what /\ t.pc = "delete"
    BY <1>1 DEF Task, Pc
  <1>3. CASE Becomes(c, "user", Asks("offread"))
    BY <1>0, <1>3, BareInv
  <1>4. CASE Becomes(c, "user", t)
    <2>. HIDE DEF t
    <2>. QED
      BY <1>0, <1>2, <1>4, UserGoesInv
  <1>. QED
    BY <1>3, <1>4 DEF OffChecked

LEMMA DeleteMineInv ==
  ASSUME DesignerInv, NEW c \in Designer, DeleteMine(c)
  PROVE  DesignerInv'
  <1>0. "user" \in Activity /\ "offload" \in What /\ UNCHANGED dismissed
    BY DEF Activity, What, DeleteMine, Same
  <1>1. PICK t \in {Idle, Asks("offload")} : Becomes(c, "user", t)
    BY DEF DeleteMine
  <1>2. t \in Task /\ Placed(t, c)
    BY <1>0, TaskTypes, TaskFields DEF Placed
  <1>3. CASE Mine(row, c)
    <2>1. row' \in LockRow /\ row.kind # "released"
      BY <1>3, RowTypes DEF DeleteMine, Mine
    <2>. QED
      BY <1>0, <1>1, <1>2, <2>1, NotJust, WrittenInv
  <1>4. CASE ~Mine(row, c)
    BY <1>0, <1>1, <1>2, <1>4, TaskInv DEF DeleteMine
  <1>. QED
    BY <1>3, <1>4

LEMMA ForceCheckedInv ==
  ASSUME DesignerInv, NEW c \in Designer, ForceChecked(c)
  PROVE  DesignerInv'
  <1>0. /\ "user" \in Activity /\ "read" \in What /\ UNCHANGED <<row, dismissed>>
        /\ task[c]["user"].what = "force"
    BY DEF Activity, What, ForceChecked, Same
  <1>1. CASE IsFree(c, "user") /\ Becomes(c, "user", Asks("read"))
    BY <1>0, <1>1, BareInv
  <1>2. CASE ~IsFree(c, "user") /\ Goes(c, "user", "release")
    <2>1. task[c]["user"].seen.kind = "held"
      BY <1>2 DEF IsFree, Answer, Mine
    <2>. QED
      BY <1>0, <1>2, <2>1, UserPcInv
  <1>. QED
    BY <1>1, <1>2 DEF ForceChecked

\* An admin's release: its designer's poll is idle, or the release is not the last it will see.
LEMMA ForceReleaseInv ==
  ASSUME DesignerInv, NEW c \in Designer, ForceRelease(c)
  PROVE  DesignerInv'
  <1>. DEFINE holder == task[c]["user"].seen.by
  <1>0. /\ "user" \in Activity /\ "poll" \in Activity /\ "read" \in What
        /\ task[c]["user"].pc = "release" /\ Becomes(c, "user", Asks("read"))
    BY DEF Activity, What, ForceRelease, At
  <1>1. holder \in Designer
    <2>1. task[c]["user"].seen \in LockRow /\ task[c]["user"].seen.kind = "held"
      BY <1>0, TaskOf DEF Placed
    <2>. QED
      BY <2>1, KindOfRow DEF Free
  <1>2. Asks("read") \in Task /\ Placed(Asks("read"), c)
    BY <1>0, TaskTypes, TaskFields DEF Placed
  <1>3. CASE row.kind = "held"
    <2>. DEFINE mark == IF \A a \in Activity : At(holder, a, "idle") THEN "just" ELSE "before"
    <2>1. row' = ReleasedOf(holder) /\ dismissed' = [Touched EXCEPT ![holder] = mark]
      BY <1>3 DEF ForceRelease, ReleasedRow
    <2>2. mark \in {"just", "before"} /\ (mark = "just" => holder # c /\ At(holder, "poll", "idle"))
      BY <1>0 DEF At
    <2>. HIDE DEF mark, holder
    <2>3. Touched \in [Designer -> {"no", "just", "before"}] /\ \A d \in Designer : Touched[d] # "just"
      BY DEF Touched, DesignerInv, Shape
    <2>4. /\ dismissed' \in [Designer -> {"no", "just", "before"}]
          /\ \A d \in Designer : dismissed'[d] = "just" => d = holder /\ mark = "just"
      BY <1>1, <2>1, <2>2, <2>3
    <2>5. row' \in LockRow
      BY <1>1, <2>1, RowTypes
    <2>. QED
      BY <1>0, <1>1, <1>2, <2>1, <2>2, <2>4, <2>5, StepInv
  <1>4. CASE row.kind # "held"
    BY <1>0, <1>2, <1>4, TaskInv DEF ForceRelease
  <1>. QED
    BY <1>3, <1>4

-----------------------------------------------------------------------------
(* Time                                                                    *)

LEMMA AgeInv ==
  ASSUME DesignerInv, Age
  PROVE  DesignerInv'
  <1>0. row \in LockRow /\ row # Free /\ UNCHANGED task
    BY DEF DesignerInv, Shape, Age, Free
  <1>1. row' \in LockRow
    BY <1>0 DEF Age, LockRow, Free
  <1>2. dismissed' \in [Designer -> {"no", "just", "before"}]
    BY DEF DesignerInv, Shape, Age, Touched
  <1>3. Control'
    BY <1>0 DEF DesignerInv, Control
  <1>4. \A d \in Designer : dismissed'[d] # "just"
    <2>1. CASE row.kind = "released"
      BY <2>1 DEF Age, Touched, DesignerInv, Shape
    <2>2. CASE row.kind # "released"
      BY <2>2, NotJust DEF Age
    <2>. QED
      BY <2>1, <2>2
  <1>. QED
    BY <1>0, <1>1, <1>2, <1>3, <1>4 DEF DesignerInv, Shape, JustReleased

-----------------------------------------------------------------------------
(* The theorems                                                            *)

LEMMA DesignerNext == DesignerInv /\ [Next]_vars => DesignerInv'
  <1>. SUFFICES ASSUME DesignerInv, [Next]_vars PROVE DesignerInv'
    OBVIOUS
  <1>0. "poll" \in Activity /\ "user" \in Activity
    BY DEF Activity
  <1>1. ASSUME NEW c \in Designer, PollStep(c) PROVE DesignerInv'
    BY <1>0, <1>1, SelectInv, ExpireInv, InsertInv, UpdateInv, PolledInv, ReadsInv DEF PollStep
  <1>2. ASSUME NEW c \in Designer, UserStep(c) PROVE DesignerInv'
    BY <1>0, <1>2, SelectInv, ExpireInv, InsertInv, UpdateInv, ReadsInv, SaveCheckedInv, WriteInv,
       OffCheckedInv, DeleteMineInv, ForceCheckedInv, ForceReleaseInv DEF UserStep
  <1>3. ASSUME NEW c \in Designer, StartPoll(c) \/ Asking(c) PROVE DesignerInv'
    BY <1>3, StartPollInv, AskingInv
  <1>4. CASE Age
    BY <1>4, AgeInv
  <1>5. CASE UNCHANGED <<row, task, dismissed>>
    BY <1>5 DEF DesignerInv, Shape, Control, JustReleased, Unaware
  <1>6. ASSUME NEW c \in Designer, Sleep(c) \/ Wake(c) PROVE DesignerInv'
    BY <1>5, <1>6 DEF Sleep, Wake
  <1>7. CASE UNCHANGED vars
    BY <1>5, <1>7 DEF vars
  <1>. QED
    BY <1>1, <1>2, <1>3, <1>4, <1>6, <1>7 DEF Next

LEMMA DesignerAlways == Spec => []DesignerInv
  BY DesignerInit, DesignerNext, PTL DEF Spec

\* A lock that is seen goes by its holder's own request or by an admin's, for any number of designers.
THEOREM LockNeverStolen == Spec => NeverStolen
  <1>. DEFINE Kept(c) == Mine(row, c) /\ ~row.stale /\ ~Mine(row', c) =>
                           DeleteMine(c) \/ \E a \in Admin : ForceRelease(a)
  <1>1. ASSUME DesignerInv, [Next]_vars, NEW c \in Designer, Mine(row, c), ~row.stale, ~Mine(row', c)
        PROVE  DeleteMine(c) \/ \E a \in Admin : ForceRelease(a)
    <2>0. /\ "user" \in Activity /\ "poll" \in Activity
          /\ row.kind = "held" /\ row # Free /\ ~Stale(row) /\ row' # row
      BY <1>1 DEF Activity, Mine, Stale, Free
    <2>1. ASSUME NEW d \in Designer, NEW a \in Activity, Expire(d, a) PROVE FALSE
      BY <2>0, <2>1, TaskOf, <1>1 DEF Expire, Expires, At, Placed
    <2>2. ASSUME NEW d \in Designer, NEW a \in Activity, Insert(d, a) \/ Update(d, a) PROVE FALSE
      <3>1. row' = HeldBy(d) /\ Takeable(row, d)
        BY <2>0, <2>2 DEF Insert, Update
      <3>2. d = c
        BY <1>1, <2>0, <3>1 DEF Takeable, Mine
      <3>. QED
        BY <1>1, <3>1, <3>2 DEF HeldBy, Mine
    <2>3. ASSUME NEW d \in Designer, NEW a \in Activity, Reread(d, a) \/ Load(d) PROVE FALSE
      BY <2>0, <2>3 DEF Reread, Load
    <2>4. ASSUME NEW d \in Designer, DeleteMine(d) PROVE DeleteMine(c)
      <3>1. Mine(row, d)
        BY <2>0, <2>4 DEF DeleteMine
      <3>2. d = c
        BY <1>1, <3>1 DEF Mine
      <3>. QED
        BY <2>4, <3>2
    <2>5. ASSUME NEW d \in Designer, ForceRelease(d) PROVE d \in Admin
      BY <1>1, <2>0, <2>5, TaskOf DEF ForceRelease, At, Placed
    <2>6. CASE Age
      <3>1. row' = [row EXCEPT !.stale = TRUE] /\ row \in LockRow
        BY <1>1, <2>6 DEF Age, DesignerInv, Shape
      <3>2. row'.kind = row.kind /\ row'.by = row.by
        BY <2>0, <3>1 DEF LockRow
      <3>. QED
        BY <1>1, <3>2 DEF Mine
    <2>7. ASSUME NEW d \in Designer, PollStep(d) PROVE FALSE
      BY <2>0, <2>1, <2>2, <2>3, <2>7 DEF PollStep, Select, Polled, Same
    <2>8. ASSUME NEW d \in Designer, UserStep(d) PROVE DeleteMine(c) \/ \E a \in Admin : ForceRelease(a)
      BY <2>0, <2>1, <2>2, <2>3, <2>4, <2>5, <2>8
      DEF UserStep, Select, SaveChecked, Write, OffChecked, ForceChecked, Same
    <2>9. ASSUME NEW d \in Designer, StartPoll(d) \/ Asking(d) \/ Sleep(d) \/ Wake(d) PROVE FALSE
      BY <2>0, <2>9 DEF StartPoll, Asking, TurnOn, TurnOff, Save, Import, AskRelease, Sleep, Wake, Same
    <2>. QED
      BY <1>1, <2>0, <2>6, <2>7, <2>8, <2>9 DEF Next, vars
  <1>2. DesignerInv /\ [Next]_vars => [\A c \in Designer : Kept(c)]_vars
    BY <1>1
  <1>. QED
    BY <1>2, DesignerAlways, PTL DEF Spec, NeverStolen

\* A designer whose lock was just released does not take it back by itself, for any number of designers.
THEOREM LockReleaseStands == Spec => ReleaseStands
  <1>1. DesignerInv =>
          \A c \in Designer : dismissed[c] = "just" /\ ~Mine(row, c) /\ Mine(row', c) =>
            task[c]["poll"].what # "back"
    BY DEF DesignerInv, JustReleased, Unaware
  <1>. QED
    BY <1>1, DesignerAlways, PTL DEF ReleaseStands

-----------------------------------------------------------------------------
(* The types: every version was asked for                                  *)

\* A save or an import that has yet to write the forms.
Saves(t) ==
  t.what \in {"save", "import"} /\ t.pc \in {"status", "expire", "answer", "insert", "update", "write"}
Saving == {c \in Designer : Saves(task[c]["user"])}

\* The versions saved and the saves under way are no more than what the users asked for.
Versions ==
  /\ match \subseteq Designer /\ awake \subseteq Designer
  /\ sleeps \in 0..MaxSleeps /\ asks \in 0..MaxAsks
  /\ doc \in Nat /\ buf \in [Designer -> 0..MaxAsks]
  /\ IsFiniteSet(Saving) /\ doc + Cardinality(Saving) <= asks
  /\ \A c \in Designer : task[c]["user"].pc = "write" => task[c]["user"].what \in {"save", "import"}

\* These make the type invariant of DesignerLock.
LEMMA VersionsType == ASSUME DesignerAssumption, DesignerInv, Versions PROVE TypeOK
  <1>1. Cardinality(Saving) \in Nat /\ asks \in Nat /\ MaxAsks \in Nat
    BY FS_CardinalityType DEF Versions, DesignerAssumption
  <1>2. doc \in 0..MaxAsks
    BY <1>1 DEF Versions
  <1>. QED
    BY <1>2 DEF TypeOK, Versions, DesignerInv, Shape

\* The tasks of the users, but for a save that begins: one that saves did so before.
TasksMove ==
  \A c \in Designer :
    /\ Saves(task'[c]["user"]) => Saves(task[c]["user"])
    /\ task'[c]["user"].pc = "write" => task'[c]["user"].what \in {"save", "import"}

\* A step on one task.
LEMMA OneMoves ==
  ASSUME DesignerInv, Versions, NEW c \in Designer, NEW a \in Activity, NEW t, Becomes(c, a, t),
         a = "user" => /\ Saves(t) => Saves(task[c][a])
                       /\ t.pc = "write" => t.what \in {"save", "import"}
  PROVE  TasksMove
  <1>0. "user" \in Activity
    BY DEF Activity
  <1>1. \A d \in Designer : task'[d]["user"] = IF d = c /\ a = "user" THEN t ELSE task[d]["user"]
    BY <1>0 DEF Becomes, DesignerInv, Shape
  <1>. QED
    BY <1>1 DEF TasksMove, Versions

\* A task that reads the lock, or is over.
LEMMA BareTasks ==
  /\ \A w : ~Saves(Takes(w)) \/ w \in {"save", "import"}
  /\ \A w : ~Saves(Asks(w)) \/ w \in {"save", "import"}
  /\ ~Saves(Idle) /\ Idle.pc # "write"
  /\ \A w : Asks(w).pc # "write" /\ Takes(w).pc # "write"
  BY TaskFields DEF Saves

\* The statements of Lock.status and Lock.set move a task that saves on.
LEMMA SelectMoves == ASSUME DesignerInv, Versions, NEW c \in Designer, NEW a \in Activity, Select(c, a) PROVE TasksMove
  <1>. DEFINE pc == IF Stale(row) THEN "expire" ELSE "answer"
              t == [task[c][a] EXCEPT !.seen = row, !.pc = pc]
  <1>1. task[c][a] \in Task /\ task[c][a].pc = "status" /\ pc \in {"expire", "answer"}
    BY TaskOf DEF Select, At
  <1>2. Becomes(c, a, t)
    BY DEF Select, Becomes, DesignerInv, Shape
  <1>. HIDE DEF pc
  <1>3. t.pc = pc /\ t.what = task[c][a].what
    BY <1>1 DEF Task
  <1>. HIDE DEF t
  <1>. QED
    BY <1>1, <1>2, <1>3, OneMoves DEF Saves

\* The DELETE of a stale lock.
LEMMA ExpireMoves == ASSUME DesignerInv, Versions, NEW c \in Designer, NEW a \in Activity, Expire(c, a) PROVE TasksMove
  <1>. DEFINE now == IF Expires(task[c][a].seen) THEN Free ELSE row
              t == [task[c][a] EXCEPT !.seen = now, !.pc = "answer"]
  <1>1. task[c][a] \in Task /\ task[c][a].pc = "expire"
    BY TaskOf DEF Expire, At
  <1>2. Becomes(c, a, t)
    BY DEF Expire, Becomes, DesignerInv, Shape
  <1>. HIDE DEF now
  <1>3. t.pc = "answer" /\ t.what = task[c][a].what
    BY <1>1 DEF Task
  <1>. HIDE DEF t
  <1>. QED
    BY <1>1, <1>2, <1>3, OneMoves DEF Saves

\* A step of a task that moves it on.
LEMMA GoesMoves ==
  ASSUME DesignerInv, Versions, NEW c \in Designer, NEW a \in Activity, NEW pc, Goes(c, a, pc),
         pc # "write", Saves(task[c][a]) \/ pc \in {"delete", "release"}
  PROVE  TasksMove
  <1>. DEFINE t == [task[c][a] EXCEPT !.pc = pc]
  <1>1. task[c][a] \in Task
    BY TaskOf
  <1>2. Becomes(c, a, t)
    BY DEF Goes, Becomes, DesignerInv, Shape
  <1>3. t.pc = pc
    BY <1>1 DEF Task
  <1>. HIDE DEF t
  <1>. QED
    BY <1>2, <1>3, OneMoves DEF Saves

\* Lock.set, and what comes after it.
LEMMA AfterSetMoves ==
  ASSUME DesignerInv, Versions, NEW c \in Designer, NEW a \in Activity, NEW taken \in BOOLEAN,
         task[c][a].pc \in {"insert", "update"}, Becomes(c, a, AfterSet(c, a, taken))
  PROVE  TasksMove
  <1>. DEFINE t == [task[c][a] EXCEPT !.pc = "write", !.acquired = taken]
  <1>1. task[c][a] \in Task /\ task[c][a].what \in {"back", "on", "save", "import"}
    BY TaskOf DEF Placed
  <1>2. CASE task[c][a].what \in {"save", "import"}
    <2>1. AfterSet(c, a, taken) = t
      BY <1>2 DEF AfterSet
    <2>2. t.what = task[c][a].what
      BY <1>1 DEF Task
    <2>. HIDE DEF t
    <2>. QED
      BY <1>2, <2>1, <2>2, OneMoves DEF Saves
  <1>3. CASE task[c][a].what \in {"back", "on"}
    <2>1. AfterSet(c, a, taken) \in {Asks("read"), Asks("load"), Idle}
      BY <1>3 DEF AfterSet
    <2>2. ~Saves(AfterSet(c, a, taken)) /\ AfterSet(c, a, taken).pc # "write"
      BY <2>1, BareTasks
    <2>. QED
      BY <2>2, OneMoves
  <1>. QED
    BY <1>1, <1>2, <1>3

\* The INSERT IGNORE.
LEMMA InsertMoves == ASSUME DesignerInv, Versions, NEW c \in Designer, NEW a \in Activity, Insert(c, a) PROVE TasksMove
  <1>1. CASE Becomes(c, a, AfterSet(c, a, TRUE))
    BY <1>1, AfterSetMoves DEF Insert, At
  <1>2. CASE Goes(c, a, "update")
    <2>. DEFINE t == [task[c][a] EXCEPT !.pc = "update"]
    <2>1. task[c][a] \in Task /\ task[c][a].pc = "insert"
      BY TaskOf DEF Insert, At
    <2>2. Becomes(c, a, t)
      BY <1>2 DEF Goes, Becomes, DesignerInv, Shape
    <2>3. t.pc = "update" /\ t.what = task[c][a].what
      BY <2>1 DEF Task
    <2>. HIDE DEF t
    <2>. QED
      BY <2>1, <2>2, <2>3, OneMoves DEF Saves
  <1>. QED
    BY <1>1, <1>2 DEF Insert

\* The UPDATE.
LEMMA UpdateMoves == ASSUME DesignerInv, Versions, NEW c \in Designer, NEW a \in Activity, Update(c, a) PROVE TasksMove
  <1>1. Takeable(row, c) \in BOOLEAN
    BY DEF Takeable, Mine
  <1>. QED
    BY <1>1, AfterSetMoves DEF Update, At

\* A save that was checked goes on, or is refused.
LEMMA SaveCheckedMoves == ASSUME DesignerInv, Versions, NEW c \in Designer, SaveChecked(c) PROVE TasksMove
  <1>. DEFINE u == task[c]["user"]
              w == [[u EXCEPT !.seen = Free] EXCEPT !.pc = "write"]
              i == [[u EXCEPT !.seen = Free] EXCEPT !.pc = "insert"]
  <1>0. "user" \in Activity /\ u.what \in {"save", "import"} /\ u.pc = "answer"
    BY DEF Activity, SaveChecked, At
  <1>1. u \in Task
    BY <1>0, TaskOf
  <1>2. w.what = u.what /\ i.what = u.what /\ i.pc = "insert"
    BY <1>1 DEF Task
  <1>3. Becomes(c, "user", w) \/ Becomes(c, "user", i) \/ Becomes(c, "user", Idle)
    BY DEF SaveChecked
  <1>. HIDE DEF w, i
  <1>4. Saves(u)
    BY <1>0 DEF Saves
  <1>. QED
    BY <1>0, <1>2, <1>3, <1>4, BareTasks, OneMoves

\* The steps of one designer that neither save nor ask for it.
Moves(c) ==
  \/ StartPoll(c) \/ PollStep(c) \/ Sleep(c) \/ Wake(c) \/ TurnOn(c) \/ TurnOff(c) \/ AskRelease(c)
  \/ UserStep(c) /\ ~Write(c)

\* All of them.
LEMMA StepMoves == ASSUME DesignerInv, Versions, NEW c \in Designer, Moves(c) PROVE TasksMove
  <1>0. "user" \in Activity /\ "poll" \in Activity /\ "user" # "poll"
    BY DEF Activity
  <1>1. ASSUME NEW a \in Activity, Select(c, a) \/ Expire(c, a) \/ Insert(c, a) \/ Update(c, a) PROVE TasksMove
    BY <1>1, SelectMoves, ExpireMoves, InsertMoves, UpdateMoves
  <1>2. ASSUME NEW t, Becomes(c, "poll", t) PROVE TasksMove
    BY <1>0, <1>2, OneMoves
  <1>3. ASSUME NEW t, Becomes(c, "user", t), ~Saves(t), t.pc # "write" PROVE TasksMove
    BY <1>0, <1>3, OneMoves
  <1>4. CASE StartPoll(c) \/ Polled(c) \/ Reread(c, "poll")
    BY <1>2, <1>4 DEF StartPoll, Polled, Reread
  <1>5. CASE TurnOn(c) \/ TurnOff(c) \/ AskRelease(c) \/ Reread(c, "user") \/ Load(c)
    BY <1>3, <1>5, BareTasks DEF TurnOn, TurnOff, AskRelease, Reread, Load
  <1>6. CASE OffChecked(c)
    <2>. DEFINE t == [task[c]["user"] EXCEPT !.pc = "delete", !.seen = Free]
    <2>1. t.pc = "delete"
      BY <1>0, TaskOf DEF Task
    <2>2. Becomes(c, "user", Asks("offread")) \/ Becomes(c, "user", t)
      BY <1>6 DEF OffChecked
    <2>. HIDE DEF t
    <2>. QED
      BY <1>3, <2>1, <2>2, BareTasks DEF Saves
  <1>7. CASE DeleteMine(c) \/ ForceRelease(c)
    BY <1>3, <1>7, BareTasks DEF DeleteMine, ForceRelease
  <1>8. CASE ForceChecked(c)
    BY <1>0, <1>3, <1>8, BareTasks, GoesMoves DEF ForceChecked
  <1>9. CASE Sleep(c) \/ Wake(c)
    BY <1>9 DEF Sleep, Wake, TasksMove, Versions
  <1>. QED
    BY <1>0, <1>1, <1>4, <1>5, <1>6, <1>7, <1>8, <1>9, SaveCheckedMoves DEF Moves, PollStep, UserStep

\* What holds of the versions stays when no save begins and none is written.
LEMMA VersionsStay ==
  ASSUME DesignerAssumption, Versions, TasksMove, doc' = doc, match' \subseteq Designer, awake' \subseteq Designer,
         sleeps' \in 0..MaxSleeps, asks' \in 0..MaxAsks, asks <= asks', buf' \in [Designer -> 0..MaxAsks]
  PROVE  Versions'
  <1>1. Saving' \in SUBSET Saving /\ IsFiniteSet(Saving)
    BY DEF Saving, TasksMove, Versions
  <1>2. /\ IsFiniteSet(Saving') /\ Cardinality(Saving') <= Cardinality(Saving)
        /\ Cardinality(Saving) \in Nat /\ Cardinality(Saving') \in Nat
    BY <1>1, FS_Subset, FS_CardinalityType
  <1>3. doc + Cardinality(Saving') <= asks'
    BY <1>2 DEF Versions, DesignerAssumption
  <1>. QED
    BY <1>2, <1>3 DEF Versions, TasksMove

\* So the versions stay.
LEMMA MovesVersions == ASSUME DesignerAssumption, DesignerInv, Versions, NEW c \in Designer, Moves(c) PROVE Versions'
  <1>1. TasksMove
    BY StepMoves
  <1>2. doc \in 0..MaxAsks /\ asks \in Nat /\ MaxAsks \in Nat /\ MaxSleeps \in Nat
    BY VersionsType DEF TypeOK, DesignerAssumption
  <1>3. /\ doc' = doc /\ match' \subseteq Designer /\ awake' \subseteq Designer
        /\ buf' \in [Designer -> 0..MaxAsks]
    BY <1>2 DEF Moves, StartPoll, PollStep, UserStep, Sleep, Wake, TurnOn, TurnOff, AskRelease, Select, Expire,
         Insert, Update, Polled, Reread, Load, SaveChecked, OffChecked, DeleteMine, ForceChecked, ForceRelease,
         Same, LockIs, Versions
  <1>4. sleeps' \in 0..MaxSleeps
    <2>1. sleeps' = sleeps \/ (sleeps < MaxSleeps /\ sleeps' = sleeps + 1)
      BY DEF Moves, StartPoll, PollStep, UserStep, Sleep, Wake, TurnOn, TurnOff, AskRelease, Select, Expire,
           Insert, Update, Polled, Reread, Load, SaveChecked, OffChecked, DeleteMine, ForceChecked, ForceRelease,
           Same, Acts
    <2>. QED
      BY <1>2, <2>1 DEF Versions
  <1>5. asks' \in 0..MaxAsks /\ asks <= asks'
    <2>1. asks' = asks \/ (asks < MaxAsks /\ asks' = asks + 1)
      BY DEF Moves, StartPoll, PollStep, UserStep, Sleep, Wake, TurnOn, TurnOff, AskRelease, Select, Expire,
           Insert, Update, Polled, Reread, Load, SaveChecked, OffChecked, DeleteMine, ForceChecked, ForceRelease,
           Same, Acts
    <2>. QED
      BY <1>2, <2>1 DEF Versions
  <1>. QED
    BY <1>1, <1>3, <1>4, <1>5, VersionsStay

\* A save that begins is one more request.
LEMMA SaveVersions == ASSUME DesignerAssumption, DesignerInv, Versions, NEW c \in Designer, Save(c) \/ Import(c) PROVE Versions'
  <1>0. "user" \in Activity /\ "save" \in What /\ "import" \in What
    BY DEF Activity, What
  <1>1. /\ asks < MaxAsks /\ asks' = asks + 1 /\ UNCHANGED <<match, buf, doc, awake, sleeps>>
        /\ \E w \in {"save", "import"} : Becomes(c, "user", Asks(w))
    BY DEF Save, Import, Acts
  <1>2. /\ \A d \in Designer \ {c} : task'[d]["user"] = task[d]["user"]
        /\ task'[c]["user"].pc = "status"
    BY <1>0, <1>1, TaskFields DEF Becomes, DesignerInv, Shape
  <1>3. Saving' \in SUBSET (Saving \cup {c}) /\ IsFiniteSet(Saving)
    BY <1>2 DEF Saving, Versions
  <1>4. /\ IsFiniteSet(Saving') /\ Cardinality(Saving') <= Cardinality(Saving) + 1
        /\ Cardinality(Saving) \in Nat /\ Cardinality(Saving') \in Nat
    <2>1. /\ IsFiniteSet(Saving \cup {c}) /\ Cardinality(Saving) \in Nat
          /\ Cardinality(Saving \cup {c}) <= Cardinality(Saving) + 1
      BY <1>3, FS_AddElement, FS_CardinalityType
    <2>2. /\ IsFiniteSet(Saving') /\ Cardinality(Saving') <= Cardinality(Saving \cup {c})
          /\ Cardinality(Saving') \in Nat /\ Cardinality(Saving \cup {c}) \in Nat
      BY <1>3, <2>1, FS_Subset, FS_CardinalityType
    <2>. QED
      BY <2>1, <2>2
  <1>5. doc + Cardinality(Saving') <= asks' /\ asks' \in 0..MaxAsks
    BY <1>1, <1>4 DEF Versions, DesignerAssumption
  <1>6. \A d \in Designer : task'[d]["user"].pc = "write" => task'[d]["user"].what \in {"save", "import"}
    BY <1>2 DEF Versions
  <1>. QED
    BY <1>1, <1>4, <1>5, <1>6 DEF Versions

\* A save that writes the forms is one that had yet to.
LEMMA WriteVersions == ASSUME DesignerAssumption, DesignerInv, Versions, NEW c \in Designer, Write(c) PROVE Versions'
  <1>0. "user" \in Activity
    BY DEF Activity
  <1>1. /\ task[c]["user"].pc = "write" /\ UNCHANGED <<match, awake, sleeps, asks>>
        /\ Goes(c, "user", "delete") \/ Becomes(c, "user", Idle)
    BY DEF Write, At
  <1>2. c \in Saving
    BY <1>1 DEF Saving, Saves, Versions
  <1>3. /\ \A d \in Designer \ {c} : task'[d]["user"] = task[d]["user"]
        /\ task'[c]["user"].pc \in {"delete", "idle"}
    <2>1. CASE Goes(c, "user", "delete")
      <3>. DEFINE t == [task[c]["user"] EXCEPT !.pc = "delete"]
      <3>1. t.pc = "delete"
        BY <1>0, TaskOf DEF Task
      <3>2. Becomes(c, "user", t)
        BY <1>0, <2>1 DEF Goes, Becomes, DesignerInv, Shape
      <3>. HIDE DEF t
      <3>. QED
        BY <1>0, <3>1, <3>2 DEF Becomes, DesignerInv, Shape
    <2>2. CASE Becomes(c, "user", Idle)
      BY <1>0, <2>2, TaskFields DEF Becomes, DesignerInv, Shape
    <2>. QED
      BY <1>1, <2>1, <2>2
  <1>4. Saving' = Saving \ {c} /\ IsFiniteSet(Saving)
    BY <1>3 DEF Saving, Saves, Versions
  <1>5. /\ IsFiniteSet(Saving') /\ Cardinality(Saving') = Cardinality(Saving) - 1
        /\ Cardinality(Saving) \in Nat
    BY <1>2, <1>4, FS_RemoveElement, FS_CardinalityType
  <1>6. doc' \in {doc, doc + 1} /\ buf' \in {buf, [buf EXCEPT ![c] = doc + 1]}
    BY DEF Write
  <1>7. doc' \in Nat /\ doc' + Cardinality(Saving') <= asks'
    BY <1>1, <1>5, <1>6 DEF Versions
  <1>8. doc + 1 \in 0..MaxAsks
    <2>1. Cardinality(Saving) >= 1
      <3>1. Cardinality(Saving) # 0
        BY <1>2, <1>4, FS_EmptySet
      <3>. QED
        BY <1>5, <3>1
    <2>. QED
      BY <1>5, <2>1 DEF Versions, DesignerAssumption
  <1>9. buf' \in [Designer -> 0..MaxAsks]
    BY <1>6, <1>8 DEF Versions
  <1>10. \A d \in Designer : task'[d]["user"].pc = "write" => task'[d]["user"].what \in {"save", "import"}
    BY <1>3 DEF Versions
  <1>. QED
    BY <1>1, <1>5, <1>7, <1>9, <1>10 DEF Versions

\* At first there is one version, and nobody saves.
LEMMA VersionsInit == ASSUME DesignerAssumption, Init PROVE Versions
  <1>0. "user" \in Activity
    BY DEF Activity
  <1>1. \A c \in Designer : task[c]["user"] = Idle
    <2>1. task = [c \in Designer |-> [a \in Activity |-> Idle]]
      BY DEF Init
    <2>. QED
      BY <1>0, <2>1
  <1>2. Saving = {}
    BY <1>1, BareTasks DEF Saving
  <1>. QED
    BY <1>1, <1>2, TaskFields, FS_EmptySet DEF Init, Versions, DesignerAssumption

\* Every step.
LEMMA VersionsNext == ASSUME DesignerAssumption, DesignerInv, Versions, [Next]_vars PROVE Versions'
  <1>1. ASSUME NEW c \in Designer, StartPoll(c) \/ PollStep(c) \/ UserStep(c) \/ Asking(c) \/ Sleep(c) \/ Wake(c)
        PROVE  Versions'
    BY <1>1, MovesVersions, SaveVersions, WriteVersions DEF Moves, Asking
  <1>2. CASE Age \/ UNCHANGED vars
    BY <1>2 DEF Age, vars, Versions, Saving
  <1>. QED
    BY <1>1, <1>2 DEF Next

\* Every variable of the designer lock keeps its type, no version among them that nobody asked for, for
\* any number of designers, requests and sleeps.
THEOREM DesignerTypeCorrect == Spec => []TypeOK
  <1>1. Init => DesignerInv /\ Versions
    BY DesignerInit, VersionsInit, DesignerAssumption
  <1>2. DesignerInv /\ Versions /\ [Next]_vars => DesignerInv' /\ Versions'
    BY DesignerNext, VersionsNext, DesignerAssumption
  <1>3. DesignerInv /\ Versions => TypeOK
    BY VersionsType, DesignerAssumption
  <1>. QED
    BY <1>1, <1>2, <1>3, PTL DEF Spec
=============================================================================

---------------------------- MODULE DesignerLock ----------------------------
(***************************************************************************)
(* The designer lock: one row of the database that says who edits the      *)
(* forms, the open designers that ask for it, and the requests that save.  *)
(*                                                                         *)
(* Each statement is a step. A designer has two activities at a time: the  *)
(* poll that asks for the lock and may take it back, and what its user     *)
(* does; a server request runs in the activity that sent it. What the      *)
(* forms hold is a version: a save writes the next one, and whoever saves  *)
(* from buffers of an older one throws away what was saved in between.     *)
(*                                                                         *)
(* A user is a designer: two tabs of one user are not told apart by the    *)
(* lock (Lock.status compares users), and so not by this model.            *)
(***************************************************************************)
EXTENDS Naturals

CONSTANTS Designer,   \* the users with an open designer
          Admin,      \* those who may release somebody else's lock
          Importer,   \* those who save from elsewhere: the config editor, an import, a restore
          MaxAsks,    \* how many requests the users make
          MaxSleeps   \* how often a designer is closed or its computer sleeps

ASSUME DesignerAssumption ==
  /\ Admin \subseteq Designer /\ Importer \subseteq Designer
  /\ MaxAsks \in Nat /\ MaxSleeps \in Nat

VARIABLES
  row,        \* the row of designer_lock
  task,       \* [Designer -> [Activity -> Task]] what each designer has under way
  match,      \* the designers whose lock.value says the lock is theirs
  buf,        \* [Designer -> version] the forms in the buffers
  doc,        \* the version saved last
  awake,      \* the designers that are open and poll
  sleeps,     \* how often one of them slept
  asks,       \* how many requests their users made
  dismissed   \* for the properties: [Designer -> whether an admin released their lock and they did
              \* not turn the designer on since, and whether the row was written after that]

vars == <<row, task, match, buf, doc, awake, sleeps, asks, dismissed>>

\* stale: not seen for LOCK_STALE_SECONDS
Free == [kind |-> "free"]
HeldBy(c) == [kind |-> "held", by |-> c, stale |-> FALSE]
ReleasedOf(c) == [kind |-> "released", by |-> c, stale |-> FALSE]
LockRow == {Free} \cup [kind : {"held", "released"}, by : Designer, stale : BOOLEAN]

Mine(r, c) == r.kind = "held" /\ r.by = c
Stale_Records(r) == r.kind = "released" /\ r.stale   \* only a release ages out
Stale(r) == r.kind # "free" /\ r.stale

Activity == {"poll", "user"}

\* what: the request, and what is left to do after it (back: a poll takes the lock back; read: the
\* lock is read again, load: and the forms after it, offload: the same while the user turns it off)
What == {"none", "poll", "back", "read", "on", "load", "off", "offload", "offread",
         "save", "import", "force"}
Pc == {"idle", "status", "expire", "answer", "insert", "update", "write", "delete", "release"}
Task == [what : What, pc : Pc, seen : LockRow, before : BOOLEAN, acquired : BOOLEAN]
Idle == [what |-> "none", pc |-> "idle", seen |-> Free, before |-> FALSE, acquired |-> FALSE]
Asks(what) == [Idle EXCEPT !.what = what, !.pc = "status"]
Takes(what) == [Idle EXCEPT !.what = what, !.pc = "insert"]

TypeOK ==
  /\ row \in LockRow
  /\ task \in [Designer -> [Activity -> Task]]
  /\ match \subseteq Designer /\ awake \subseteq Designer
  /\ dismissed \in [Designer -> {"no", "just", "before"}]
  /\ doc \in 0..MaxAsks /\ buf \in [Designer -> 0..MaxAsks]
  /\ sleeps \in 0..MaxSleeps /\ asks \in 0..MaxAsks

Init ==
  /\ row = Free
  /\ task = [c \in Designer |-> [a \in Activity |-> Idle]]
  /\ match = {} /\ doc = 0 /\ buf = [c \in Designer |-> 0]
  /\ awake = Designer /\ sleeps = 0 /\ asks = 0
  /\ dismissed = [c \in Designer |-> "no"]

At(c, a, pc) == task[c][a].pc = pc
Becomes(c, a, t) == task' = [task EXCEPT ![c][a] = t]
Goes(c, a, pc) == task' = [task EXCEPT ![c][a].pc = pc]
Same == UNCHANGED <<buf, doc, awake, sleeps, asks, dismissed>>
\* the release is not the last thing that happened to the row
Touched == [c \in Designer |-> IF dismissed[c] = "just" THEN "before" ELSE dismissed[c]]

-----------------------------------------------------------------------------
(* The statements of Lock.status and Lock.set                              *)

\* Lock.read : a lock not seen for long is about to be deleted; one's own is seen by this (markSeen)
Select(c, a) ==
  /\ At(c, a, "status") /\ task[c][a].what \in {"poll", "off", "save", "import", "force"}
  /\ task' = [task EXCEPT ![c][a].seen = row,
                          ![c][a].pc = IF Stale(row) THEN "expire" ELSE "answer"]
  /\ Same /\ UNCHANGED <<row, match>>

\* the DELETE matches the data that was read; if not, what is there now is answered as it is
Expires_Anyway(seen) == TRUE
Expires(seen) == row = seen

Expire(c, a) ==
  /\ At(c, a, "expire")
  /\ LET gone == Expires(task[c][a].seen)
         now == IF gone THEN Free ELSE row
     IN /\ row' = now
        /\ task' = [task EXCEPT ![c][a].seen = now, ![c][a].pc = "answer"]
  /\ Same /\ UNCHANGED match

\* Lock.status : an admin's release reads as free, and says so to the designer it was taken from
Answer(c, a) ==
  LET r == task[c][a].seen
  IN IF Mine(r, c) THEN "match"
     ELSE IF r.kind = "held" THEN "other"
     ELSE IF r.kind = "released" /\ r.by = c THEN "released" ELSE "free"
IsFree(c, a) == Answer(c, a) \in {"free", "released"}

\* after Lock.set : a save goes on whether it took the lock or not
AfterSet(c, a, taken) ==
  LET t == task[c][a]
  IN CASE t.what = "back" -> IF taken THEN Asks("read") ELSE Idle
       [] t.what = "on" -> Asks(IF taken THEN "load" ELSE "read")
       [] t.what \in {"save", "import"} -> [t EXCEPT !.pc = "write", !.acquired = taken]

\* the INSERT IGNORE
Insert(c, a) ==
  /\ At(c, a, "insert")
  /\ IF row = Free THEN row' = HeldBy(c) /\ Becomes(c, a, AfterSet(c, a, TRUE)) /\ dismissed' = Touched
                   ELSE Goes(c, a, "update") /\ UNCHANGED <<row, dismissed>>
  /\ UNCHANGED <<match, buf, doc, awake, sleeps, asks>>

\* the UPDATE of one's own lock or of an admin's release; else 423, once the holder was read
Takeable(r, c) == Mine(r, c) \/ r.kind = "released"

Update(c, a) ==
  /\ At(c, a, "update")
  /\ LET taken == Takeable(row, c)
     IN /\ row' = IF taken THEN HeldBy(c) ELSE IF Stale(row) THEN Free ELSE row
        /\ dismissed' = IF taken THEN Touched ELSE dismissed
        /\ Becomes(c, a, AfterSet(c, a, taken))
  /\ UNCHANGED <<match, buf, doc, awake, sleeps, asks>>

-----------------------------------------------------------------------------
(* The designer: its poll, and its user                                    *)

Busy(c) == task[c]["user"].what = "save"
Releasing(c) == task[c]["user"].what \in {"off", "offload", "offread"}
LockIs(c, answer) == match' = IF answer = "match" THEN match \cup {c} ELSE match \ {c}

\* the timer, or a live event: not while a save is under way
StartPoll(c) ==
  /\ c \in awake /\ At(c, "poll", "idle") /\ ~Busy(c)
  /\ Becomes(c, "poll", [Asks("poll") EXCEPT !.before = c \in match])
  /\ Same /\ UNCHANGED <<row, match>>

\* loadLock : a lock that was ours and is free is taken back, unless an admin released it or the
\* user is turning the designer off
TakesBack(c) == task[c]["poll"].before /\ Answer(c, "poll") = "free" /\ ~Releasing(c)

Polled(c) ==
  /\ At(c, "poll", "answer") /\ task[c]["poll"].what = "poll"
  /\ LockIs(c, Answer(c, "poll"))
  /\ Becomes(c, "poll", IF TakesBack(c) THEN Takes("back") ELSE Idle)
  /\ Same /\ UNCHANGED row

\* loadLock after something was done, a single step here; and loadForms: the buffers are the forms
\* as they are now
Reread(c, a) ==
  /\ At(c, a, "status") /\ task[c][a].what \in {"read", "offread"}
  /\ row' = IF Stale(row) THEN Free ELSE row
  /\ LockIs(c, IF Mine(row', c) THEN "match" ELSE "other")
  /\ Becomes(c, a, Idle)
  /\ Same

Load(c) ==
  /\ At(c, "user", "status") /\ task[c]["user"].what \in {"load", "offload"}
  /\ row' = IF Stale(row) THEN Free ELSE row
  /\ LockIs(c, IF Mine(row', c) THEN "match" ELSE "other")
  /\ buf' = [buf EXCEPT ![c] = doc]
  /\ Becomes(c, "user", Idle)
  /\ UNCHANGED <<doc, awake, sleeps, asks, dismissed>>

Acts(c) == c \in awake /\ At(c, "user", "idle") /\ asks < MaxAsks /\ asks' = asks + 1

\* setLock, releaseLock, saveForms, the config editor or an import, an admin's forceRelease
TurnOn(c) ==
  /\ Acts(c) /\ c \notin match
  /\ Becomes(c, "user", Takes("on"))
  /\ dismissed' = [dismissed EXCEPT ![c] = "no"]
  /\ UNCHANGED <<row, match, buf, doc, awake, sleeps>>

TurnOff(c) ==
  /\ Acts(c) /\ c \in match
  /\ Becomes(c, "user", Asks("off"))
  /\ UNCHANGED <<row, match, buf, doc, awake, sleeps, dismissed>>

Save(c) ==
  /\ Acts(c) /\ c \in match
  /\ Becomes(c, "user", Asks("save"))
  /\ UNCHANGED <<row, match, buf, doc, awake, sleeps, dismissed>>

Import(c) ==
  /\ Acts(c) /\ c \in Importer
  /\ Becomes(c, "user", Asks("import"))
  /\ UNCHANGED <<row, match, buf, doc, awake, sleeps, dismissed>>

AskRelease(c) ==
  /\ Acts(c) /\ c \in Admin
  /\ Becomes(c, "user", Asks("force"))
  /\ UNCHANGED <<row, match, buf, doc, awake, sleeps, dismissed>>

-----------------------------------------------------------------------------
(* The requests on the server, after Lock.status                           *)

\* the controller of config : the save goes on with one's own lock, or borrows a free one
SaveChecked(c) ==
  /\ At(c, "user", "answer") /\ task[c]["user"].what \in {"save", "import"}
  /\ LET t == [task[c]["user"] EXCEPT !.seen = Free]
     IN Becomes(c, "user", IF Answer(c, "user") = "match" THEN [t EXCEPT !.pc = "write"]
                           ELSE IF IsFree(c, "user") THEN [t EXCEPT !.pc = "insert"] ELSE Idle)
  /\ Same /\ UNCHANGED <<row, match>>

\* Form.save, which may refuse; the lock it took is given back in any case
Write(c) ==
  /\ At(c, "user", "write")
  /\ \/ /\ doc' = doc + 1
        /\ buf' = IF task[c]["user"].what = "save" THEN [buf EXCEPT ![c] = doc + 1] ELSE buf
     \/ UNCHANGED <<doc, buf>>
  /\ IF task[c]["user"].acquired THEN Goes(c, "user", "delete") ELSE Becomes(c, "user", Idle)
  /\ UNCHANGED <<row, match, awake, sleeps, asks, dismissed>>

\* the controller of the lock, delete : 423 when it is somebody else's
OffChecked(c) ==
  /\ At(c, "user", "answer") /\ task[c]["user"].what = "off"
  /\ Becomes(c, "user", IF Answer(c, "user") = "other" THEN Asks("offread")
                         ELSE [task[c]["user"] EXCEPT !.pc = "delete", !.seen = Free])
  /\ Same /\ UNCHANGED <<row, match>>

\* Lock.delete, onlyMine; the designer that was turned off reads everything again
DeleteMine(c) ==
  /\ At(c, "user", "delete")
  /\ row' = IF Mine(row, c) THEN Free ELSE row
  /\ LET off == task[c]["user"].what = "off"
     IN /\ Becomes(c, "user", IF off THEN Asks("offload") ELSE Idle)
        /\ match' = IF off THEN match \ {c} ELSE match
  /\ Same

ForceChecked(c) ==
  /\ At(c, "user", "answer") /\ task[c]["user"].what = "force"
  /\ IF IsFree(c, "user") THEN Becomes(c, "user", Asks("read")) ELSE Goes(c, "user", "release")
  /\ Same /\ UNCHANGED <<row, match>>

\* Lock.forceRelease : whoever holds it by now; the record names the holder that was read
ReleasedRow_Deleted(holder) == Free
ReleasedRow(holder) == ReleasedOf(holder)

ForceRelease(c) ==
  /\ At(c, "user", "release")
  /\ LET holder == task[c]["user"].seen.by
     IN IF row.kind = "held"
        THEN /\ row' = ReleasedRow(holder)
             /\ dismissed' = [Touched EXCEPT ![holder] =
                  IF \A a \in Activity : At(holder, a, "idle") THEN "just" ELSE "before"]
        ELSE UNCHANGED <<row, dismissed>>
  /\ Becomes(c, "user", Asks("read"))
  /\ UNCHANGED <<match, buf, doc, awake, sleeps, asks>>

-----------------------------------------------------------------------------
(* Time                                                                    *)

\* the computer sleeps, the network goes; the page and its buffers are there when it wakes
Sleep(c) ==
  /\ c \in awake /\ sleeps < MaxSleeps
  /\ \A a \in Activity : At(c, a, "idle")
  /\ awake' = awake \ {c} /\ sleeps' = sleeps + 1
  /\ UNCHANGED <<row, task, match, buf, doc, asks, dismissed>>

Wake(c) ==
  /\ c \notin awake
  /\ awake' = awake \cup {c}
  /\ UNCHANGED <<row, task, match, buf, doc, sleeps, asks, dismissed>>

\* nobody asked for the lock for LOCK_STALE_SECONDS: no open designer that has it, or had it, polls
\* (every 30 s), and no save borrows it (a request is over long before)
Age ==
  /\ row.kind # "free" /\ ~row.stale
  /\ LET c == row.by
     IN ~(c \in awake /\ c \in match) /\ \A a \in Activity : At(c, a, "idle")
  /\ row' = [row EXCEPT !.stale = TRUE]
  /\ dismissed' = IF row.kind = "released" THEN Touched ELSE dismissed
  /\ UNCHANGED <<task, match, buf, doc, awake, sleeps, asks>>

-----------------------------------------------------------------------------
PollStep(c) ==
  \/ Select(c, "poll") \/ Expire(c, "poll") \/ Insert(c, "poll")
  \/ Update(c, "poll") \/ Polled(c) \/ Reread(c, "poll")

UserStep(c) ==
  \/ Select(c, "user") \/ Expire(c, "user") \/ Insert(c, "user")
  \/ Update(c, "user") \/ Reread(c, "user") \/ Load(c) \/ SaveChecked(c) \/ Write(c)
  \/ OffChecked(c) \/ DeleteMine(c) \/ ForceChecked(c) \/ ForceRelease(c)

Asking(c) == TurnOn(c) \/ TurnOff(c) \/ Save(c) \/ Import(c) \/ AskRelease(c)

Next ==
  \/ \E c \in Designer : \/ StartPoll(c) \/ PollStep(c) \/ UserStep(c)
                         \/ Asking(c) \/ Sleep(c) \/ Wake(c)
  \/ Age

Spec == Init /\ [][Next]_vars

\* a request that was sent is answered, an open designer polls, time passes
Fairness ==
  /\ \A c \in Designer : WF_vars(PollStep(c)) /\ WF_vars(UserStep(c)) /\ WF_vars(StartPoll(c))
  /\ WF_vars(Age)

FairSpec == Spec /\ Fairness

-----------------------------------------------------------------------------
(* Properties                                                              *)

\* A lock that is seen is never taken from its holder: it goes by the holder's own request or by an
\* admin's, never by the DELETE of a reader that found it stale a moment ago, by another designer's
\* UPDATE, or by the end of somebody's save (Lock.read, Lock.set, Lock.delete).
NeverStolen ==
  [][\A c \in Designer :
       Mine(row, c) /\ ~row.stale /\ ~Mine(row', c) =>
         DeleteMine(c) \/ \E a \in Admin : ForceRelease(a)]_vars

\* A designer whose lock an admin released does not take it back by itself, as long as nobody else
\* took the lock in between and the release did not age (Lock.forceRelease, Lock.status, loadLock).
ReleaseStands ==
  [][\A c \in Designer : dismissed[c] = "just" /\ ~Mine(row, c) /\ Mine(row', c) =>
       task[c]["poll"].what # "back"]_vars

\* Nobody waits on a designer nobody has open: a lock left behind is free for those who poll.
LeftBehindFreed ==
  \A c, d \in Designer : c # d =>
    (Mine(row, c) /\ c \notin awake /\ d \in awake ~> ~Mine(row, c) \/ c \in awake \/ d \notin awake)

-----------------------------------------------------------------------------
(* What the code does not keep: see the README                            *)

\* A designer never takes back by itself a lock an admin released, whatever happened to the row since
\* (what the comment on a release in lock.model.js says it is for).
ReleaseNotUndone ==
  [][\A c \in Designer : dismissed[c] # "no" /\ ~Mine(row, c) /\ Mine(row', c) =>
       task[c]["poll"].what # "back"]_vars

\* Nobody saves over what they never saw.
NoLostUpdate ==
  [][\A c \in Designer : Write(c) /\ task[c]["user"].what = "save" /\ doc' # doc => buf[c] = doc]_vars
=============================================================================

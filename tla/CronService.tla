---------------------------- MODULE CronService ----------------------------
(***************************************************************************)
(* The scheduler of core/cron/service.py: one loop that reads the due rows *)
(* of the table cron_jobs and starts a task for each, the tasks that run   *)
(* the jobs under a semaphore, and the owner's commands (add, remove,      *)
(* on/off, update, run), which read and write the same rows.               *)
(*                                                                         *)
(* Everything runs on one asyncio event loop, so that control moves        *)
(* between actors only at an await.  A database call is one action, at the *)
(* moment the statement takes effect; what an actor does with the answer   *)
(* is part of its next action, and by then the answer may be stale.  With  *)
(* Postgres = FALSE the database is InMemoryDatabase: its coroutines never *)
(* suspend, so that an actor keeps the event loop until it awaits          *)
(* something that does (the semaphore, the agent turn, the sleep), and its *)
(* rows die with the process.                                              *)
(***************************************************************************)
EXTENDS Integers, Sequences, FiniteSets, FiniteSetsExt

CONSTANTS
    Jobs,              \* the job ids that uuid4 may hand out
    Fires,             \* slots for calls of fire() that have not returned
    OwnerFires,        \* those of them for the owner's run_now
    Callers,           \* slots for the owner's read-modify-write commands
    Schedules,         \* the schedules the owner may write
    NoRow,             \* "no row": a missing row, or no local copy of one
    MaxConcurrentRuns, \* permits of the semaphore
    MaxFailures,       \* MAX_CONSECUTIVE_FAILURES
    MissedGrace,       \* MISSED_GRACE_SEC
    RetryUnit,         \* the 60 s per failure of _mark_error
    RetryCap,          \* its ceiling of 3600 s
    TickRetry,         \* the 15 s after a failed tick
    Heartbeat,         \* _heartbeat_interval_sec, the longest sleep
    DueLimit,          \* the limit of due_cron_jobs
    Postgres,          \* PostgresDatabase (TRUE) or InMemoryDatabase (FALSE)
    DbFails,           \* whether a database call may raise
    MayCrash,          \* whether the process may be shut down or die
    MaxTime,           \* bound: the clock stops here
    FailBound          \* bound: a run of a job with this many failures succeeds

(* A schedule: at an instant or after a delay t (once), every t, or at     *)
(* each multiple of t on the calendar (a cron expression).                 *)
Schedule == [kind : {"at", "every", "cron"}, abs : BOOLEAN, t : Nat \ {0}]

Row == [id : Jobs, sched : Schedule, enabled : BOOLEAN, next : Nat, fails : Nat]

ASSUME CronAssumption ==
    /\ IsFiniteSet(Fires)
    /\ OwnerFires \subseteq Fires
    /\ Schedules \subseteq Schedule
    /\ NoRow \notin Row
    /\ MaxConcurrentRuns \in Nat \ {0}
    /\ {MaxFailures, RetryUnit, RetryCap, TickRetry} \subseteq Nat \ {0}
    /\ {MissedGrace, Heartbeat, DueLimit, MaxTime, FailBound} \subseteq Nat
    /\ {Postgres, DbFails, MayCrash} \subseteq BOOLEAN

VARIABLES
    now,       \* the clock
    db,        \* the table cron_jobs
    unused,    \* ids uuid4 has not handed out yet
    loop,      \* where _loop is
    seen,      \* the rows its last SELECT returned
    deadline,  \* when its sleep times out
    wake,      \* the Event _wake
    running,   \* the ids in _running
    sem,       \* free permits of _sem
    waiters,   \* calls waiting for a permit, first come first served
    pc,        \* where each call of fire() is
    copy,      \* its local variable job (then current)
    forced,    \* its argument force
    startedAt, \* its local variable clock
    cmd        \* the row a command is about to write back

loopVars == <<loop, seen, deadline>>
fireVars == <<running, sem, waiters, pc, copy, forced, startedAt>>
vars == <<now, db, unused, loopVars, wake, fireVars, cmd>>

TypeOK ==
    /\ now \in Nat
    /\ db \in [Jobs -> Row \cup {NoRow}]
    /\ unused \subseteq Jobs
    /\ loop \in {"down", "tick", "dispatch", "plan", "doze", "sleep"}
    /\ seen \subseteq Row
    /\ deadline \in Nat
    /\ wake \in BOOLEAN
    /\ running \subseteq Jobs
    /\ sem \in 0 .. MaxConcurrentRuns
    /\ waiters \in Seq(Fires)
    /\ pc \in [Fires -> {"idle", "called", "queued", "start", "run", "settle", "error"}]
    /\ copy \in [Fires -> Row \cup {NoRow}]
    /\ forced \in [Fires -> BOOLEAN]
    /\ startedAt \in [Fires -> Nat]
    /\ cmd \in [Callers -> Row \cup {NoRow}]

Init ==
    /\ now = 0
    /\ db = [j \in Jobs |-> NoRow]
    /\ unused = Jobs
    /\ loop = "tick"
    /\ seen = {}
    /\ deadline = 0
    /\ wake = FALSE
    /\ running = {}
    /\ sem = MaxConcurrentRuns
    /\ waiters = <<>>
    /\ pc = [f \in Fires |-> "idle"]
    /\ copy = [f \in Fires |-> NoRow]
    /\ forced = [f \in Fires |-> FALSE]
    /\ startedAt = [f \in Fires |-> 0]
    /\ cmd = [c \in Callers |-> NoRow]

-----------------------------------------------------------------------------
(* Rows and schedules.                                                     *)

Recurring(s) == s.kind \in {"every", "cron"}

\* resolve_schedule sets the flag for kind "at" and for no other kind.
DeleteAfterRun(s) == ~Recurring(s)

NextRunAt(s, clock) ==
    CASE s.kind = "at" /\ s.abs -> s.t
      [] s.kind = "cron"        -> ((clock \div s.t) + 1) * s.t
      [] OTHER                  -> clock + s.t

Rescheduled(row, s, clock) == [row EXCEPT !.sched = s, !.next = NextRunAt(s, clock)]

\* put_cron_job is an upsert: it writes the row whether or not one is there.
Put(row) == db' = [db EXCEPT ![row.id] = row]

Delete(j) == db' = [db EXCEPT ![j] = NoRow]

Due == {db[j] : j \in {i \in Jobs : db[i] # NoRow /\ db[i].enabled /\ db[i].next <= now}}

Enabled == {db[j] : j \in {i \in Jobs : db[i] # NoRow /\ db[i].enabled}}

-----------------------------------------------------------------------------
(* The event loop.                                                         *)

\* Actors that, with a database that never suspends, still hold the loop.
HoldingLoop ==
    {f \in Fires : pc[f] \in {"start", "settle", "error"} \/ (pc[f] = "called" /\ forced[f])}
    \cup {c \in Callers : cmd[c] # NoRow}
    \cup {a \in {"loop"} : loop \in {"dispatch", "plan", "doze"}}

MayMove(a) == Postgres \/ HoldingLoop \subseteq {a}

\* The tasks a tick created are ready: they start before any await returns.
TasksStarted == \A f \in Fires : pc[f] = "called" => forced[f]

Idle == {f \in Fires : pc[f] = "idle"}

-----------------------------------------------------------------------------
(* Calls of fire().                                                        *)

\* The finally clause: the call is left and its id leaves _running.
Leave(f) ==
    /\ running' = running \ {copy[f].id}
    /\ pc' = [pc EXCEPT ![f] = "idle"]
    /\ copy' = [copy EXCEPT ![f] = NoRow]
    /\ forced' = [forced EXCEPT ![f] = FALSE]
    /\ startedAt' = [startedAt EXCEPT ![f] = 0]

\* Mutant: the permit is not given back.
ReleaseWithoutPermit(f) ==
    /\ Leave(f)
    /\ UNCHANGED <<sem, waiters>>

\* The end of "async with", then the finally clause.
Release(f) ==
    /\ sem' = sem + 1
    /\ Leave(f)
    /\ UNCHANGED waiters

\* Mutant: a rejected call leaves through the finally clause.
FireRejectedInTry(f) ==
    /\ pc[f] = "called" /\ MayMove(f)
    /\ copy[f].id \in running
    /\ running' = running \ {copy[f].id}
    /\ pc' = [pc EXCEPT ![f] = "idle"]
    /\ copy' = [copy EXCEPT ![f] = NoRow]
    /\ forced' = [forced EXCEPT ![f] = FALSE]
    /\ UNCHANGED <<now, db, unused, loopVars, wake, sem, waiters, startedAt, cmd>>

\* Mutant: a rejected call gives back a permit it never had.
FireRejectedReleasing(f) ==
    /\ pc[f] = "called" /\ MayMove(f)
    /\ copy[f].id \in running
    /\ sem' = sem + 1
    /\ pc' = [pc EXCEPT ![f] = "idle"]
    /\ copy' = [copy EXCEPT ![f] = NoRow]
    /\ forced' = [forced EXCEPT ![f] = FALSE]
    /\ UNCHANGED <<now, db, unused, loopVars, wake, running, waiters, startedAt, cmd>>

\* The job is in _running already: "already running".
FireRejected(f) ==
    /\ pc[f] = "called" /\ MayMove(f)
    /\ copy[f].id \in running
    /\ pc' = [pc EXCEPT ![f] = "idle"]
    /\ copy' = [copy EXCEPT ![f] = NoRow]
    /\ forced' = [forced EXCEPT ![f] = FALSE]
    /\ UNCHANGED <<now, db, unused, loopVars, wake, running, sem, waiters, startedAt, cmd>>

\* Mutant: fire() does not look at _running, as _tick alone does.
FireEnterUnchecked(f) ==
    /\ pc[f] = "called" /\ MayMove(f)
    /\ running' = running \cup {copy[f].id}
    /\ \/ /\ sem > 0 /\ waiters = <<>>
          /\ sem' = sem - 1
          /\ pc' = [pc EXCEPT ![f] = "start"]
          /\ UNCHANGED waiters
       \/ /\ sem = 0 \/ waiters # <<>>
          /\ waiters' = Append(waiters, f)
          /\ pc' = [pc EXCEPT ![f] = "queued"]
          /\ UNCHANGED sem
    /\ UNCHANGED <<now, db, unused, loopVars, wake, copy, forced, startedAt, cmd>>

\* Mutant: a newcomer takes a permit although others wait for one.
FireEnterBarging(f) ==
    /\ pc[f] = "called" /\ MayMove(f)
    /\ copy[f].id \notin running
    /\ running' = running \cup {copy[f].id}
    /\ \/ /\ sem > 0
          /\ sem' = sem - 1
          /\ pc' = [pc EXCEPT ![f] = "start"]
          /\ UNCHANGED waiters
       \/ /\ sem = 0
          /\ waiters' = Append(waiters, f)
          /\ pc' = [pc EXCEPT ![f] = "queued"]
          /\ UNCHANGED sem
    /\ UNCHANGED <<now, db, unused, loopVars, wake, copy, forced, startedAt, cmd>>

\* The id enters _running, before the call waits for a permit.
FireEnter(f) ==
    /\ pc[f] = "called" /\ MayMove(f)
    /\ copy[f].id \notin running
    /\ running' = running \cup {copy[f].id}
    /\ \/ /\ sem > 0 /\ waiters = <<>>
          /\ sem' = sem - 1
          /\ pc' = [pc EXCEPT ![f] = "start"]
          /\ UNCHANGED waiters
       \/ /\ sem = 0 \/ waiters # <<>>
          /\ waiters' = Append(waiters, f)
          /\ pc' = [pc EXCEPT ![f] = "queued"]
          /\ UNCHANGED sem
    /\ UNCHANGED <<now, db, unused, loopVars, wake, copy, forced, startedAt, cmd>>

FireAdmitted(f) ==
    /\ pc[f] = "queued" /\ MayMove(f)
    /\ waiters # <<>> /\ f = Head(waiters)
    /\ sem > 0
    /\ sem' = sem - 1
    /\ waiters' = Tail(waiters)
    /\ pc' = [pc EXCEPT ![f] = "start"]
    /\ UNCHANGED <<now, db, unused, loopVars, wake, running, copy, forced, startedAt, cmd>>

\* Judged by the copy, which is as old as the SELECT it came from.
Missed(f) == ~forced[f] /\ now - copy[f].next > MissedGrace

FireSkip(f) ==
    /\ pc[f] = "start" /\ MayMove(f)
    /\ Missed(f)
    /\ IF DeleteAfterRun(copy[f].sched)
         THEN Delete(copy[f].id)
         ELSE Put(Rescheduled(copy[f], copy[f].sched, now))
    /\ wake' = TRUE
    /\ Release(f)
    /\ UNCHANGED <<now, unused, loopVars, cmd>>

\* A recurring job is moved on before it runs, by writing the copy back.
FireRecurring(f) ==
    LET job == Rescheduled(copy[f], copy[f].sched, now)
    IN  /\ pc[f] = "start" /\ MayMove(f)
        /\ ~Missed(f)
        /\ Recurring(copy[f].sched)
        /\ Put(job)
        /\ wake' = TRUE
        /\ copy' = [copy EXCEPT ![f] = job]
        /\ startedAt' = [startedAt EXCEPT ![f] = now]
        /\ pc' = [pc EXCEPT ![f] = "run"]
        /\ UNCHANGED <<now, unused, loopVars, running, sem, waiters, forced, cmd>>

\* A one-shot job runs with nothing written first.
FireOnce(f) ==
    /\ pc[f] = "start" /\ MayMove(f)
    /\ ~Missed(f)
    /\ ~Recurring(copy[f].sched)
    /\ startedAt' = [startedAt EXCEPT ![f] = now]
    /\ pc' = [pc EXCEPT ![f] = "run"]
    /\ UNCHANGED <<now, db, unused, loopVars, wake, running, sem, waiters, copy, forced, cmd>>

\* The agent turn returns, the row is read again; a row that is gone is left
\* alone.
RunOk(f) ==
    LET current == db[copy[f].id]
    IN  /\ pc[f] = "run" /\ MayMove(f) /\ TasksStarted
        /\ \/ /\ current = NoRow
              /\ Release(f)
           \/ /\ current # NoRow
              /\ copy' = [copy EXCEPT ![f] = [current EXCEPT !.fails = 0]]
              /\ pc' = [pc EXCEPT ![f] = "settle"]
              /\ UNCHANGED <<running, sem, waiters, forced, startedAt>>
        /\ UNCHANGED <<now, db, unused, loopVars, wake, cmd>>

\* Only the deletion wakes the loop, the write does not.
SettleWrite(f) ==
    /\ pc[f] = "settle" /\ MayMove(f)
    /\ \/ /\ DeleteAfterRun(copy[f].sched)
          /\ Delete(copy[f].id)
          /\ wake' = TRUE
       \/ /\ ~DeleteAfterRun(copy[f].sched)
          /\ Put(copy[f])
          /\ UNCHANGED wake
    /\ Release(f)
    /\ UNCHANGED <<now, unused, loopVars, cmd>>

\* _mark_error: one more failure; the delay counts from the start of the run.
Failed(row, clock) ==
    LET n == row.fails + 1
    IN  IF n >= MaxFailures
          THEN [row EXCEPT !.fails = n, !.enabled = FALSE]
          ELSE [row EXCEPT !.fails = n, !.next = clock + Min({RetryCap, RetryUnit * n})]

\* The agent turn raises, the row is read again; a row that is gone is
\* replaced by the call's own copy.
RunError(f) ==
    LET current == IF db[copy[f].id] = NoRow THEN copy[f] ELSE db[copy[f].id]
    IN  /\ pc[f] = "run" /\ MayMove(f) /\ TasksStarted
        /\ current.fails < FailBound
        /\ copy' = [copy EXCEPT ![f] = Failed(current, startedAt[f])]
        /\ pc' = [pc EXCEPT ![f] = "error"]
        /\ UNCHANGED <<now, db, unused, loopVars, wake, running, sem, waiters, forced, startedAt, cmd>>

ErrorWrite(f) ==
    /\ pc[f] = "error" /\ MayMove(f)
    /\ Put(copy[f])
    /\ wake' = TRUE
    /\ Release(f)
    /\ UNCHANGED <<now, unused, loopVars, cmd>>

\* Mutant: acquire() and release() instead of "async with": an exception
\* skips the release.
FireAbortLeaking(f) ==
    /\ DbFails
    /\ pc[f] \in {"start", "run", "settle", "error"} /\ MayMove(f) /\ TasksStarted
    /\ Leave(f)
    /\ UNCHANGED <<now, db, unused, loopVars, wake, sem, waiters, cmd>>

\* A database call of the call raises: fire() is left through its finally.
FireAbort(f) ==
    /\ DbFails
    /\ pc[f] \in {"start", "run", "settle", "error"} /\ MayMove(f) /\ TasksStarted
    /\ Release(f)
    /\ UNCHANGED <<now, db, unused, loopVars, wake, cmd>>

-----------------------------------------------------------------------------
(* Calls cut off.  The model's cron tool, which a job's own turn lacks,    *)
(* calls run_now inside the 90 s limit of the owner's turn: when the limit *)
(* passes, the call is cancelled where it waits.  CancelledError is no     *)
(* Exception: fire() is left through its finally clauses, with no error.   *)

MayBeCut(f) == forced[f] /\ MayMove(f) /\ TasksStarted

\* run_now is cut off while it reads the row: fire() is not entered.
CutReading(f) ==
    /\ Postgres
    /\ pc[f] = "called" /\ MayBeCut(f)
    /\ pc' = [pc EXCEPT ![f] = "idle"]
    /\ copy' = [copy EXCEPT ![f] = NoRow]
    /\ forced' = [forced EXCEPT ![f] = FALSE]
    /\ UNCHANGED <<now, db, unused, loopVars, wake, running, sem, waiters, startedAt, cmd>>

\* A sequence without its i-th element.
Without(s, i) == [k \in 1 .. (Len(s) - 1) |-> s[IF k < i THEN k ELSE k + 1]]

\* A call that waits for a permit leaves the queue, wherever it stands in it.
CutWaiting(f) ==
    /\ pc[f] = "queued" /\ MayBeCut(f)
    /\ \E i \in 1 .. Len(waiters) : waiters[i] = f /\ waiters' = Without(waiters, i)
    /\ Leave(f)
    /\ UNCHANGED <<now, db, unused, loopVars, wake, sem, cmd>>

\* What the database call that f waits for writes, if it writes.
PendingWrite(f) ==
    \/ /\ pc[f] = "start" /\ Recurring(copy[f].sched)
       /\ Put(Rescheduled(copy[f], copy[f].sched, now))
    \/ pc[f] = "settle" /\ DeleteAfterRun(copy[f].sched) /\ Delete(copy[f].id)
    \/ pc[f] = "settle" /\ ~DeleteAfterRun(copy[f].sched) /\ Put(copy[f])
    \/ pc[f] = "error" /\ Put(copy[f])

\* A call at work: its statement may have taken effect, the loop is not woken.
\* A database that never suspends leaves it but the agent turn to wait for.
CutRunning(f) ==
    /\ pc[f] \in {"start", "run", "settle", "error"} /\ MayBeCut(f)
    /\ Postgres \/ pc[f] = "run"
    /\ PendingWrite(f) \/ UNCHANGED db
    /\ Release(f)
    /\ UNCHANGED <<now, unused, loopVars, wake, cmd>>

-----------------------------------------------------------------------------
(* The loop.                                                               *)

\* Mutant: only the rows that become due at this instant are read.
TickReadOnEdge ==
    /\ loop = "tick" /\ MayMove("loop") /\ TasksStarted
    /\ seen' = {r \in Due : r.next = now}
    /\ loop' = "dispatch"
    /\ UNCHANGED <<now, db, unused, deadline, wake, fireVars, cmd>>

\* due_cron_jobs: the earliest DueLimit of the due rows.
TickRead ==
    /\ loop = "tick" /\ MayMove("loop") /\ TasksStarted
    /\ \E S \in SUBSET Due :
          /\ Cardinality(S) = Min({DueLimit, Cardinality(Due)})
          /\ \A r \in S, q \in Due \ S : r.next <= q.next
          /\ seen' = S
    /\ loop' = "dispatch"
    /\ UNCHANGED <<now, db, unused, deadline, wake, fireVars, cmd>>

\* One task for each row read whose id is not in _running now.
TickDispatch ==
    LET fresh == {r \in seen : r.id \notin running}
    IN  /\ loop = "dispatch" /\ MayMove("loop")
        /\ \E slot \in [fresh -> Idle \ OwnerFires] :
              /\ \A r, q \in fresh : slot[r] = slot[q] => r = q
              /\ pc' = [f \in Fires |->
                          IF \E r \in fresh : slot[r] = f THEN "called" ELSE pc[f]]
              /\ copy' = [f \in Fires |->
                            IF \E r \in fresh : slot[r] = f
                              THEN CHOOSE r \in fresh : slot[r] = f
                              ELSE copy[f]]
        /\ loop' = "plan"
        /\ seen' = {}
        /\ UNCHANGED <<now, db, unused, deadline, wake, running, sem, waiters, forced, startedAt, cmd>>

\* list_cron_jobs(enabled=True), for _seconds_until_next.
PlanRead ==
    /\ loop = "plan" /\ MayMove("loop")
    /\ seen' = Enabled
    /\ loop' = "doze"
    /\ UNCHANGED <<now, db, unused, deadline, wake, fireVars, cmd>>

\* Mutant: the longest sleep is not bounded by the heartbeat.
GoToSleepUncapped ==
    LET dues == {r.next : r \in {q \in seen : q.id \notin running}}
        soonest == Min(dues \cup {MaxTime})
    IN  /\ loop = "doze" /\ MayMove("loop")
        /\ deadline' = IF soonest < now THEN now ELSE soonest
        /\ wake' = FALSE
        /\ loop' = "sleep"
        /\ seen' = {}
        /\ UNCHANGED <<now, db, unused, fireVars, cmd>>

\* Mutant: overdue rows of the listing are dispatched without a new SELECT.
GoToSleepReusing ==
    LET overdue == {r \in seen : r.id \notin running /\ r.next <= now}
    IN  /\ loop = "doze" /\ MayMove("loop")
        /\ loop' = IF overdue = {} THEN "sleep" ELSE "dispatch"
        /\ seen' = overdue
        /\ deadline' = now + Heartbeat
        /\ wake' = FALSE
        /\ UNCHANGED <<now, db, unused, fireVars, cmd>>

\* Sleep until the soonest of the rows just listed that is not running, and
\* never longer than the heartbeat.  A wake() since the tick began is lost.
GoToSleep ==
    LET dues == {r.next : r \in {q \in seen : q.id \notin running}}
        soonest == Min(dues \cup {now + Heartbeat})
    IN  /\ loop = "doze" /\ MayMove("loop")
        /\ deadline' = IF soonest < now THEN now ELSE soonest
        /\ wake' = FALSE
        /\ loop' = "sleep"
        /\ seen' = {}
        /\ UNCHANGED <<now, db, unused, fireVars, cmd>>

\* A database call of the tick raises: the loop sleeps for TickRetry.
TickFail ==
    /\ DbFails
    /\ loop \in {"tick", "plan"} /\ MayMove("loop") /\ TasksStarted
    /\ deadline' = now + TickRetry
    /\ wake' = FALSE
    /\ loop' = "sleep"
    /\ seen' = {}
    /\ UNCHANGED <<now, db, unused, fireVars, cmd>>

LoopWake ==
    /\ loop = "sleep" /\ MayMove("loop")
    /\ wake \/ now >= deadline \/ now = MaxTime
    /\ loop' = "tick"
    /\ deadline' = 0
    /\ UNCHANGED <<now, db, unused, seen, wake, fireVars, cmd>>

-----------------------------------------------------------------------------
(* The owner's commands, from /cron and from the model's cron tool.        *)

\* Fresh ids only: a job id is never handed out twice.
Add(j, s) ==
    /\ MayMove("owner")
    /\ j \in unused
    /\ unused' = unused \ {j}
    /\ Put([id |-> j, sched |-> s, enabled |-> TRUE, next |-> NextRunAt(s, now), fails |-> 0])
    /\ wake' = TRUE
    /\ UNCHANGED <<now, loopVars, fireVars, cmd>>

Remove(j) ==
    /\ MayMove("owner")
    /\ db[j] # NoRow
    /\ Delete(j)
    /\ wake' = TRUE
    /\ UNCHANGED <<now, unused, loopVars, fireVars, cmd>>

\* set_enabled and update read the row, edit the copy ...
Edit(c, j, row) ==
    /\ MayMove("owner")
    /\ cmd[c] = NoRow
    /\ db[j] # NoRow
    /\ cmd' = [cmd EXCEPT ![c] = row]
    /\ UNCHANGED <<now, db, unused, loopVars, wake, fireVars>>

SetEnabled(c, j, on) == Edit(c, j, [db[j] EXCEPT !.enabled = on])

Update(c, j, s) == Edit(c, j, Rescheduled(db[j], s, now))

\* ... and write the whole row back.
EditWrite(c) ==
    /\ cmd[c] # NoRow /\ MayMove(c)
    /\ Put(cmd[c])
    /\ cmd' = [cmd EXCEPT ![c] = NoRow]
    /\ wake' = TRUE
    /\ UNCHANGED <<now, unused, loopVars, fireVars>>

EditFail(c) ==
    /\ DbFails
    /\ cmd[c] # NoRow /\ MayMove(c)
    /\ cmd' = [cmd EXCEPT ![c] = NoRow]
    /\ UNCHANGED <<now, db, unused, loopVars, wake, fireVars>>

\* A command of the model's tool is cut off at its write, which may have taken
\* effect: the loop is not woken.
EditCut(c) ==
    /\ Postgres
    /\ cmd[c] # NoRow
    /\ Put(cmd[c]) \/ UNCHANGED db
    /\ cmd' = [cmd EXCEPT ![c] = NoRow]
    /\ UNCHANGED <<now, unused, loopVars, wake, fireVars>>

\* run_now: read the row, then fire(force=True).
RunNow(f, j) ==
    /\ MayMove("owner")
    /\ pc[f] = "idle"
    /\ db[j] # NoRow
    /\ pc' = [pc EXCEPT ![f] = "called"]
    /\ copy' = [copy EXCEPT ![f] = db[j]]
    /\ forced' = [forced EXCEPT ![f] = TRUE]
    /\ UNCHANGED <<now, db, unused, loopVars, wake, running, sem, waiters, startedAt, cmd>>

-----------------------------------------------------------------------------
(* Time, shutdown, crash and restart.                                      *)

\* A tick is short: the clock moves only while the loop sleeps or is down.
Advance ==
    /\ now < MaxTime
    /\ MayMove("clock") /\ TasksStarted
    /\ loop = "down" \/ (loop = "sleep" /\ ~wake /\ now < deadline)
    /\ now' = now + 1
    /\ UNCHANGED <<db, unused, loopVars, wake, fireVars, cmd>>

\* stop() cancels the loop; the calls of fire() go on until the process ends.
Stop ==
    /\ MayCrash
    /\ MayMove("owner")
    /\ loop # "down"
    /\ loop' = "down"
    /\ wake' = TRUE
    /\ seen' = {}
    /\ deadline' = 0
    /\ UNCHANGED <<now, db, unused, fireVars, cmd>>

\* The process ends: only a table in Postgres survives.
Crash ==
    /\ MayCrash
    /\ db' = IF Postgres THEN db ELSE [j \in Jobs |-> NoRow]
    /\ loop' = "down"
    /\ wake' = FALSE
    /\ seen' = {}
    /\ deadline' = 0
    /\ running' = {}
    /\ sem' = MaxConcurrentRuns
    /\ waiters' = <<>>
    /\ pc' = [f \in Fires |-> "idle"]
    /\ copy' = [f \in Fires |-> NoRow]
    /\ forced' = [f \in Fires |-> FALSE]
    /\ startedAt' = [f \in Fires |-> 0]
    /\ cmd' = [c \in Callers |-> NoRow]
    /\ UNCHANGED <<now, unused>>

\* A new process: start() on a fresh service.
Start ==
    /\ loop = "down"
    /\ Idle = Fires
    /\ \A c \in Callers : cmd[c] = NoRow
    /\ loop' = "tick"
    /\ wake' = FALSE
    /\ UNCHANGED <<now, db, unused, seen, deadline, fireVars, cmd>>

-----------------------------------------------------------------------------

FireStep(f) ==
    \/ FireRejected(f) \/ FireEnter(f) \/ FireAdmitted(f)
    \/ FireSkip(f) \/ FireRecurring(f) \/ FireOnce(f)
    \/ RunOk(f) \/ SettleWrite(f)
    \/ RunError(f) \/ ErrorWrite(f)
    \/ FireAbort(f)

CutStep(f) == CutReading(f) \/ CutWaiting(f) \/ CutRunning(f)

LoopStep == TickRead \/ TickDispatch \/ PlanRead \/ GoToSleep \/ TickFail \/ LoopWake

OwnerStep ==
    \/ \E j \in Jobs, s \in Schedules : Add(j, s)
    \/ \E j \in Jobs : Remove(j)
    \/ \E c \in Callers, j \in Jobs :
          \/ \E on \in BOOLEAN : SetEnabled(c, j, on)
          \/ \E s \in Schedules : Update(c, j, s)
    \/ \E c \in Callers : EditWrite(c) \/ EditFail(c) \/ EditCut(c)
    \/ \E f \in OwnerFires, j \in Jobs : RunNow(f, j)

Next ==
    \/ \E f \in Fires : FireStep(f)
    \/ \E f \in OwnerFires : CutStep(f)
    \/ LoopStep
    \/ OwnerStep
    \/ Advance \/ Stop \/ Crash \/ Start

Spec == Init /\ [][Next]_vars

\* What the event loop and the 90 s limit on an agent turn guarantee: every
\* call of fire() and the loop go on; nothing is assumed of the owner, of
\* crashes, of failures or of calls cut off.
Fairness ==
    /\ WF_vars(LoopStep)
    /\ WF_vars(Advance)
    /\ \A f \in Fires : WF_vars(FireStep(f))

FairSpec == Spec /\ Fairness

-----------------------------------------------------------------------------
(* Correctness.                                                            *)

\* pcs of a call that holds a permit, and of a call that owns its id.
Holding == {"start", "run", "settle", "error"}
Active == Holding \cup {"queued"}

\* Two calls of fire() never work on the same job: a slash command, the
\* model's tool and the loop may all fire it at once.
OneRunPerJob ==
    \A f, g \in Fires :
        pc[f] \in Active /\ pc[g] \in Active /\ copy[f].id = copy[g].id => f = g

\* _running is exactly the set of jobs being worked on: no exit of fire(), not
\* even that of a call cut off in the queue, leaks an id, which would block its
\* job for the life of the process.
RunningExact == running = {copy[f].id : f \in {g \in Fires : pc[g] \in Active}}

\* The permits add up: none is lost by an exit of fire(), none is given twice.
PermitsExact == sem + Cardinality({f \in Fires : pc[f] \in Holding}) = MaxConcurrentRuns

\* No wait is for ever: every job that entered _running leaves it.
RunEnds == \A j \in Jobs : j \in running ~> j \notin running

\* Somebody still holds a copy of job j that a later step may write back.
InFlight(j) ==
    \/ \E f \in Fires : copy[f] # NoRow /\ copy[f].id = j
    \/ loop = "dispatch" /\ \E r \in seen : r.id = j
    \/ \E c \in Callers : cmd[c] # NoRow /\ cmd[c].id = j

\* The promise to the callers: see RunSlots.
ActiveJobs == {copy[f].id : f \in {g \in Fires : pc[g] \in Holding}}
QueuedJobs == [i \in DOMAIN waiters |-> copy[waiters[i]].id]

Slots == INSTANCE RunSlots WITH
            Permits <- MaxConcurrentRuns, active <- ActiveJobs, queue <- QueuedJobs

\* The service implements it: claims are exclusive, admitted first come first
\* served, given up by calls that are cut off while they wait, and never more
\* than the permits.
ImplementsRunSlots == Slots!Spec

\* The job's id was used, its row is gone and nobody holds a copy.
Gone(j) == j \notin unused /\ db[j] = NoRow /\ ~InFlight(j)

\* A job removed while nobody worked on it stays removed: no step of the loop,
\* of a call or of a command brings its row back, although put_cron_job is an
\* upsert and every one of them writes whole rows.
GoneForGood == [][\A j \in Jobs : Gone(j) => Gone(j)']_vars

\* A due job is served: it is taken, or it is no longer due.
DueServed ==
    \A j \in Jobs :
        (\E r \in Due : r.id = j) ~> (j \in running \/ loop = "down" \/ ~ \E r \in Due : r.id = j)

=============================================================================

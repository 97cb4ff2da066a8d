---------------------------- MODULE Commitments ----------------------------
(***************************************************************************)
(* Open commitments: core/commitments/service.py and the heartbeat of      *)
(* core/chat.py.  The heartbeat reads the commitments that are open and    *)
(* due and starts, within each owner's hourly quota, a task that says one  *)
(* to its owner and then records it as notified and as done.  Meanwhile    *)
(* the owner adds commitments and cancels them, all at once with /clear or *)
(* a few by words.                                                         *)
(*                                                                         *)
(* Control moves between actors at an await, as in CronService: a database *)
(* call is one action and its answer may be stale when it is used.  Times  *)
(* are kept as ages, so that no clock has to be bounded.                   *)
(***************************************************************************)
EXTENDS Naturals, Sequences, FiniteSets, FiniteSetsExt

CONSTANTS
    Ids,          \* the commitment ids that uuid4 may hand out
    Owners,       \* platform:user_id
    Tasks,        \* slots for follow-up tasks
    Callers,      \* slots for the owner's cancelling commands
    Delays,       \* how far ahead a commitment may fall due
    NoRow,
    MaxPerHour,   \* HEARTBEAT_MAX_PER_OWNER_HOUR
    Hour,         \* its window of 3600 s
    Cooldown,     \* NOTIFY_COOLDOWN_SEC
    Postgres,     \* PostgresDatabase (TRUE) or InMemoryDatabase (FALSE)
    DbFails,      \* whether a database call may raise
    MayCrash      \* whether the process may end

(* due: the time left; since: the age of last_notified_at, Cooldown when   *)
(* there is none or it is older.                                           *)
Row == [id : Ids, owner : Owners, status : {"open", "done", "cancelled"},
        due : Nat, since : 0 .. Cooldown]

ASSUME CommitmentAssumption ==
    /\ IsFiniteSet(Ids)
    /\ Delays \subseteq Nat
    /\ NoRow \notin Row
    /\ Tasks \cap Callers = {}
    /\ {"heartbeat", "owner", "clock"} \cap (Tasks \cup Callers) = {}
    /\ {MaxPerHour, Hour, Cooldown} \subseteq Nat \ {0}
    /\ {Postgres, DbFails, MayCrash} \subseteq BOOLEAN

VARIABLES
    db,         \* the table commitments
    unused,     \* ids not handed out yet
    hits,       \* _proactive_hits: the ages of each owner's hits
    heartbeat,  \* where heartbeat_tick is
    snap,       \* the rows its SELECT returned
    live,       \* _heartbeat_running
    pc,         \* where each follow-up task is
    item,       \* the row it works on
    todo,       \* ids a cancelling command has still to close
    held,       \* the row it is about to write back
    \* History: never read by the actions.
    said,       \* how often a commitment was delivered to its owner
    starts,     \* the ages of the follow-ups of each owner, within the hour
    cancelled,  \* ids whose cancellation was written
    failed      \* ids of which a follow-up failed

rows == <<db, unused>>
beat == <<hits, heartbeat, snap>>
tasks == <<live, pc, item>>
commands == <<todo, held>>
history == <<said, starts, cancelled, failed>>
vars == <<rows, beat, tasks, commands, history>>

CommitTypeOK ==
    /\ db \in [Ids -> Row \cup {NoRow}]
    /\ unused \subseteq Ids
    /\ hits \in [Owners -> Seq(0 .. Hour - 1)]
    /\ heartbeat \in {"idle", "read"}
    /\ snap \subseteq Row
    /\ live \subseteq Ids
    /\ pc \in [Tasks -> {"free", "turn", "mark", "marking", "close", "closing", "ended"}]
    /\ item \in [Tasks -> Row \cup {NoRow}]
    /\ todo \in [Callers -> SUBSET Ids]
    /\ held \in [Callers -> Row \cup {NoRow}]
    /\ said \in [Ids -> 0 .. 2]
    /\ starts \in [Owners -> Seq(0 .. Hour - 1)]
    /\ cancelled \subseteq Ids
    /\ failed \subseteq Ids

Init ==
    /\ db = [i \in Ids |-> NoRow]
    /\ unused = Ids
    /\ hits = [o \in Owners |-> <<>>]
    /\ heartbeat = "idle"
    /\ snap = {}
    /\ live = {}
    /\ pc = [t \in Tasks |-> "free"]
    /\ item = [t \in Tasks |-> NoRow]
    /\ todo = [c \in Callers |-> {}]
    /\ held = [c \in Callers |-> NoRow]
    /\ said = [i \in Ids |-> 0]
    /\ starts = [o \in Owners |-> <<>>]
    /\ cancelled = {}
    /\ failed = {}

-----------------------------------------------------------------------------

Put(row) == db' = [db EXCEPT ![row.id] = row]

\* Mutant: the SELECT does not look at the status.
DueAnyStatus == {db[i] : i \in {k \in Ids : db[k] # NoRow /\ db[k].due = 0}}

\* due_commitments.  Its limit of ten is not reached by the instances.
Due == {db[i] : i \in {k \in Ids : db[k] # NoRow /\ db[k].status = "open" /\ db[k].due = 0}}

\* list_commitments(status="open") of one owner.
Open(o) == {i \in Ids : db[i] # NoRow /\ db[i].owner = o /\ db[i].status = "open"}

\* Judged by the snapshot, as old as the SELECT it came from.
ShouldNotify(row) == row.status = "open" /\ row.due = 0 /\ row.since = Cooldown

\* Mutant: "at most" where the code says "fewer than".
AllowanceOffByOne(o) == MaxPerHour + 1 - Len(hits[o])

\* Hits older than the hour are pruned before each use: here, as they age.
Allowance(o) == MaxPerHour - Len(hits[o])

\* Where a task is that has had its turn and has not closed its commitment.
Late == {"mark", "marking", "close", "closing"}

\* With a database that never suspends, who keeps the event loop.
HoldingLoop ==
    {t \in Tasks : pc[t] \in Late}
    \cup {c \in Callers : todo[c] # {}}
    \cup {a \in {"heartbeat"} : heartbeat = "read"}

MayMove(a) == Postgres \/ HoldingLoop \subseteq {a}

\* Bound: one start more than the quota is enough to see it exceeded.
LastStarts(ages) == SubSeq(ages, Len(ages) - Min({Len(ages), MaxPerHour + 1}) + 1, Len(ages))

Free == {t \in Tasks : pc[t] = "free"}

-----------------------------------------------------------------------------
(* The heartbeat, called at every tick of the cron loop.                   *)

HeartbeatRead ==
    /\ heartbeat = "idle" /\ MayMove("heartbeat")
    /\ Due # {}
    /\ heartbeat' = "read"
    /\ snap' = Due
    /\ UNCHANGED <<rows, hits, tasks, commands, history>>

\* One pass over the snapshot without an await: as many of each owner's
\* commitments as the quota allows get a task, and each is a hit at once.
HeartbeatStart ==
    LET ready == {r \in snap : r.id \notin live /\ ShouldNotify(r)}
        of(S, o) == {r \in S : r.owner = o}
    IN  /\ heartbeat = "read" /\ MayMove("heartbeat")
        /\ \E S \in SUBSET ready : \E slot \in [S -> Free] :
              /\ \A o \in Owners :
                    Cardinality(of(S, o)) = Min({Cardinality(of(ready, o)), Allowance(o)})
              /\ \A r, q \in S : slot[r] = slot[q] => r = q
              /\ live' = live \cup {r.id : r \in S}
              /\ pc' = [t \in Tasks |-> IF \E r \in S : slot[r] = t THEN "turn" ELSE pc[t]]
              /\ item' = [t \in Tasks |-> IF \E r \in S : slot[r] = t
                                            THEN CHOOSE r \in S : slot[r] = t
                                            ELSE item[t]]
              /\ hits' = [o \in Owners |->
                            hits[o] \o [k \in 1 .. Cardinality(of(S, o)) |-> 0]]
              /\ starts' = [o \in Owners |-> LastStarts(
                              starts[o] \o [k \in 1 .. Cardinality(of(S, o)) |-> 0])]
        /\ heartbeat' = "idle"
        /\ snap' = {}
        /\ UNCHANGED <<rows, commands, said, cancelled, failed>>

-----------------------------------------------------------------------------
(* A follow-up task.                                                       *)

GoTo(t, l) == pc' = [pc EXCEPT ![t] = l]

\* Mutant: nothing takes an id out of _heartbeat_running.
DiscardNothing(t) == UNCHANGED live

Discard(t) == live' = live \ {item[t].id}

\* Mutant: the id leaves _heartbeat_running when the turn returns.
TurnReleasing(t) ==
    /\ pc[t] = "turn" /\ MayMove(t)
    /\ \E heard \in {0, 1} :
          said' = [said EXCEPT ![item[t].id] = Min({2, @ + heard})]
    /\ live' = live \ {item[t].id}
    /\ GoTo(t, "mark")
    /\ UNCHANGED <<rows, beat, item, commands, starts, cancelled, failed>>

\* run_cron_turn returns.  An adapter that cannot deliver returns None and
\* raises nothing, so that the turn counts as run whether or not it was heard.
Turn(t) ==
    /\ pc[t] = "turn" /\ MayMove(t)
    /\ \E heard \in {0, 1} :
          said' = [said EXCEPT ![item[t].id] = Min({2, @ + heard})]
    /\ GoTo(t, "mark")
    /\ UNCHANGED <<rows, beat, live, item, commands, starts, cancelled, failed>>

\* Mutant: the heartbeat's own copy is edited, not the row as it is now.
MarkCopy(t) ==
    /\ pc[t] = "mark" /\ MayMove(t)
    /\ item' = [item EXCEPT ![t].since = 0]
    /\ GoTo(t, "marking")
    /\ UNCHANGED <<rows, beat, live, commands, history>>

\* mark_notified: the row is read and edited ...
MarkRead(t) ==
    /\ pc[t] = "mark" /\ MayMove(t)
    /\ item' = [item EXCEPT ![t] = [db[item[t].id] EXCEPT !.since = 0]]
    /\ GoTo(t, "marking")
    /\ UNCHANGED <<rows, beat, live, commands, history>>

\* ... and written back whole.
MarkWrite(t) ==
    /\ pc[t] = "marking" /\ MayMove(t)
    /\ Put(item[t])
    /\ GoTo(t, "close")
    /\ UNCHANGED <<unused, beat, live, item, commands, history>>

\* Mutant: the status is left as it was.
CloseReadOpen(t) ==
    /\ pc[t] = "close" /\ MayMove(t)
    /\ item' = [item EXCEPT ![t] = db[item[t].id]]
    /\ GoTo(t, "closing")
    /\ UNCHANGED <<rows, beat, live, commands, history>>

\* close(status="done"), whatever the status has become.
CloseRead(t) ==
    /\ pc[t] = "close" /\ MayMove(t)
    /\ item' = [item EXCEPT ![t] = [db[item[t].id] EXCEPT !.status = "done"]]
    /\ GoTo(t, "closing")
    /\ UNCHANGED <<rows, beat, live, commands, history>>

CloseWrite(t) ==
    /\ pc[t] = "closing" /\ MayMove(t)
    /\ Put(item[t])
    /\ GoTo(t, "ended")
    /\ UNCHANGED <<unused, beat, live, item, commands, history>>

\* Mutant: a follow-up that failed does not count against the quota.
FollowUpFailsRefunding(t) ==
    /\ DbFails
    /\ pc[t] \in {"turn", "mark", "marking", "close", "closing"} /\ MayMove(t)
    /\ live' = live \ {item[t].id}
    /\ failed' = failed \cup {item[t].id}
    /\ hits' = [hits EXCEPT ![item[t].owner] = IF @ = <<>> THEN @ ELSE Tail(@)]
    /\ GoTo(t, "ended")
    /\ UNCHANGED <<rows, heartbeat, snap, item, commands, said, starts, cancelled>>

\* An exception anywhere: logged, and the id leaves _heartbeat_running.
FollowUpFails(t) ==
    /\ DbFails
    /\ pc[t] \in {"turn", "mark", "marking", "close", "closing"} /\ MayMove(t)
    /\ Discard(t)
    /\ failed' = failed \cup {item[t].id}
    /\ GoTo(t, "ended")
    /\ UNCHANGED <<rows, beat, item, commands, said, starts, cancelled>>

\* Mutant: no done callback.
DoneLeaking(t) ==
    /\ pc[t] = "ended" /\ MayMove(t)
    /\ GoTo(t, "free")
    /\ item' = [item EXCEPT ![t] = NoRow]
    /\ UNCHANGED <<rows, beat, live, commands, history>>

\* The task's done callback, which runs after the task has ended.
Done(t) ==
    /\ pc[t] = "ended" /\ MayMove(t)
    /\ Discard(t)
    /\ GoTo(t, "free")
    /\ item' = [item EXCEPT ![t] = NoRow]
    /\ UNCHANGED <<rows, beat, commands, history>>

-----------------------------------------------------------------------------
(* The owner.                                                              *)

\* Mutant: an id that was handed out before is not asked for.
AddReusing(i, o, d) ==
    /\ MayMove("owner")
    /\ unused' = unused \ {i}
    /\ Put([id |-> i, owner |-> o, status |-> "open", due |-> d, since |-> Cooldown])
    /\ UNCHANGED <<beat, tasks, commands, history>>

Add(i, o, d) ==
    /\ MayMove("owner")
    /\ i \in unused
    /\ unused' = unused \ {i}
    /\ Put([id |-> i, owner |-> o, status |-> "open", due |-> d, since |-> Cooldown])
    /\ UNCHANGED <<beat, tasks, commands, history>>

\* cancel_matching closes up to three of the owner's open commitments; /clear
\* closes all of them.  Both list first and then close one after the other.
CancelList(c, o) ==
    /\ MayMove("owner")
    /\ todo[c] = {}
    /\ \E T \in SUBSET Open(o) :
          /\ T # {}
          /\ T = Open(o) \/ Cardinality(T) <= 3
          /\ todo' = [todo EXCEPT ![c] = T]
    /\ UNCHANGED <<rows, beat, tasks, held, history>>

CancelRead(c) ==
    /\ MayMove(c)
    /\ held[c] = NoRow
    /\ \E i \in todo[c] : held' = [held EXCEPT ![c] = [db[i] EXCEPT !.status = "cancelled"]]
    /\ UNCHANGED <<rows, beat, tasks, todo, history>>

CancelWrite(c) ==
    /\ MayMove(c)
    /\ held[c] # NoRow
    /\ Put(held[c])
    /\ cancelled' = cancelled \cup {held[c].id}
    /\ todo' = [todo EXCEPT ![c] = @ \ {held[c].id}]
    /\ held' = [held EXCEPT ![c] = NoRow]
    /\ UNCHANGED <<unused, beat, tasks, said, starts, failed>>

CancelFails(c) ==
    /\ DbFails
    /\ todo[c] # {} /\ MayMove(c)
    /\ todo' = [todo EXCEPT ![c] = {}]
    /\ held' = [held EXCEPT ![c] = NoRow]
    /\ UNCHANGED <<rows, beat, tasks, history>>

-----------------------------------------------------------------------------
(* Time and restart.                                                       *)

Older(row) ==
    IF row = NoRow THEN NoRow
    ELSE [row EXCEPT !.due = IF @ = 0 THEN 0 ELSE @ - 1,
                     !.since = Min({Cooldown, @ + 1})]

\* What is left of a list of hits without the first n, a moment later.
AgedFrom(ages, n) == [k \in 1 .. Len(ages) - n |-> ages[k + n] + 1]

\* Mutant: a hit counts for one moment too long.
AgedHitsOffByOne(ages) ==
    AgedFrom(ages, Max({0} \cup {k \in DOMAIN ages : ages[k] >= Hour}))

\* Mutant: hits are never pruned.
AgedHitsNever(ages) == ages

\* Mutant: a hit is pruned one moment too early.
AgedHitsEarly(ages) ==
    AgedFrom(ages, Max({0} \cup {k \in DOMAIN ages : ages[k] + 2 >= Hour}))

\* The hits are in the order of time: those that leave the hour come first.
AgedHits(ages) ==
    AgedFrom(ages, Max({0} \cup {k \in DOMAIN ages : ages[k] + 1 >= Hour}))

\* History: the approaches of the last hour, by a count of its own, so that
\* the window of the code is held against it.
LastHour(ages) ==
    AgedFrom(ages, Max({0} \cup {k \in DOMAIN ages : ages[k] + 1 >= Hour}))

\* A tick of the loop is short: it ends before the clock moves.
Elapse ==
    /\ heartbeat = "idle" /\ MayMove("clock")
    /\ db' = [i \in Ids |-> Older(db[i])]
    /\ hits' = [o \in Owners |-> AgedHits(hits[o])]
    /\ item' = [t \in Tasks |-> Older(item[t])]
    /\ held' = [c \in Callers |-> Older(held[c])]
    /\ starts' = [o \in Owners |-> LastHour(starts[o])]
    /\ UNCHANGED <<unused, heartbeat, snap, live, pc, todo, said, cancelled, failed>>

\* The process ends and another begins: only Postgres remembers.
Restart ==
    /\ MayCrash
    /\ db' = IF Postgres THEN db ELSE [i \in Ids |-> NoRow]
    /\ hits' = [o \in Owners |-> <<>>]
    /\ heartbeat' = "idle"
    /\ snap' = {}
    /\ live' = {}
    /\ pc' = [t \in Tasks |-> "free"]
    /\ item' = [t \in Tasks |-> NoRow]
    /\ todo' = [c \in Callers |-> {}]
    /\ held' = [c \in Callers |-> NoRow]
    /\ UNCHANGED <<unused, history>>

-----------------------------------------------------------------------------

TaskStep(t) ==
    \/ Turn(t)
    \/ MarkRead(t) \/ MarkWrite(t)
    \/ CloseRead(t) \/ CloseWrite(t)
    \/ FollowUpFails(t)
    \/ Done(t)

CancelStep(c) == CancelRead(c) \/ CancelWrite(c) \/ CancelFails(c)

HeartbeatStep == HeartbeatRead \/ HeartbeatStart

OwnerStep ==
    \/ \E i \in Ids, o \in Owners, d \in Delays : Add(i, o, d)
    \/ \E c \in Callers, o \in Owners : CancelList(c, o)

Next ==
    \/ HeartbeatStep
    \/ \E t \in Tasks : TaskStep(t)
    \/ \E c \in Callers : CancelStep(c)
    \/ OwnerStep
    \/ Elapse
    \/ Restart

Spec == Init /\ [][Next]_vars

\* What the event loop, the cron loop's longest sleep of 90 s and the limit of
\* 90 s on a turn guarantee; nothing is assumed of the owner or of failures.
\* The event loop serves what is ready in the order in which it became ready,
\* and time passes between two ticks because the cron loop sleeps: a task or a
\* command that is ready again and again gets its step, and so does the clock.
Fairness ==
    /\ WF_vars(HeartbeatStep)
    /\ SF_vars(Elapse)
    /\ \A t \in Tasks : SF_vars(TaskStep(t))
    /\ \A c \in Callers : SF_vars(CancelStep(c))

FairSpec == Spec /\ Fairness

-----------------------------------------------------------------------------
(* Correctness.                                                            *)

\* In any hour an owner is approached at most MaxPerHour times, whatever
\* fails, is cancelled or falls due at the same moment.  It takes a process
\* that lives for the hour: the hits are kept in memory.
QuotaKept == \A o \in Owners : Len(starts[o]) <= MaxPerHour

\* A commitment is in the hands of at most one task, although the snapshot
\* the task was started from is stale, as long as none of its follow-ups has
\* failed: a task that fails gives up its id twice, and the second time it may
\* be its successor's.
OneFollowUp ==
    \A t, u \in Tasks :
        item[t] # NoRow /\ item[u] # NoRow /\ item[t].id = item[u].id /\ item[t].id \notin failed
            => t = u

\* _heartbeat_running names only commitments in a task's hands, and all of
\* them of which no follow-up has failed.
LiveExact ==
    LET taken == {item[t].id : t \in {u \in Tasks : item[u] # NoRow}}
    IN  taken \ failed \subseteq live /\ live \subseteq taken

\* Somebody still holds a copy of commitment i that a later step may act on.
InHand(i) ==
    \/ \E r \in snap : r.id = i
    \/ \E t \in Tasks : item[t] # NoRow /\ item[t].id = i
    \/ \E c \in Callers : i \in todo[c]

Settled(i) == db[i] # NoRow /\ db[i].status # "open" /\ ~InHand(i)

\* A commitment that is closed while nobody works on it is closed for good:
\* nothing reopens it, follows it up or cancels it again.
ClosedForGood == [][\A i \in Ids : Settled(i) => Settled(i)']_vars

\* A commitment is said to its owner once.
SaidOnce == \A i \in Ids : said[i] <= 1

\* A commitment whose cancellation was written is not open again.
CancelledStaysClosed == \A i \in cancelled : db[i] # NoRow => db[i].status # "open"

\* The promise to the owner: see CommitmentLife.
Speaking == {item[t].id : t \in {u \in Tasks : pc[u] = "turn"}}
Told == {item[t].id : t \in {u \in Tasks : pc[u] \in Late}}
Untouched(S) == {i \in Ids \ (Speaking \cup Told) : db[i] # NoRow /\ db[i].status \in S}

Life == INSTANCE CommitmentLife WITH
            unborn <- unused, open <- Untouched({"open"}), speaking <- Speaking,
            told <- Told, closed <- Untouched({"done", "cancelled"})

\* The heartbeat and the follow-ups keep it: only what is open at that moment
\* is taken up, by one task, and is said before it is closed; nothing that was
\* closed is taken up, cancelled or opened again.
ImplementsCommitmentLife == Life!Spec

\* A commitment that falls due does not stay open for ever: the quota delays
\* it by hours at most.
FollowedUp == \A i \in Ids : db[i] \in Due ~> (db[i] = NoRow \/ db[i].status # "open")

\* A commitment that is due is taken up, and after a follow-up that failed is
\* taken up again, until it is closed: neither an id left in _heartbeat_running
\* nor the quota that the failures use up nor the time since it was last said
\* stops that for ever.  Without the last disjunct it would say too much: a
\* task that is past its turn may yet close it.
TakenUpAgain ==
    \A i \in Ids :
        (db[i] \in Due /\ i \notin Speaking)
            ~> (i \in Speaking \/ db[i] = NoRow \/ db[i].status # "open")
=============================================================================

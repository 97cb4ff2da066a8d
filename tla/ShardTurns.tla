----------------------------- MODULE ShardTurns -----------------------------
(***************************************************************************)
(* A turn of the bot in one group chat: core/group_context and the group   *)
(* branch of ChatOrchestrator.handle, with /clear.  A message is routed to *)
(* a shard of its speaker, the shard a quoted message belongs to or the    *)
(* speaker's active one; the turn is then recorded in Redis, in Postgres   *)
(* and in the LangGraph thread of the shard.                               *)
(*                                                                         *)
(* An action is a stretch between two awaits, with Postgres and Redis      *)
(* behind it.  Left out, since no decision below depends on it: the text   *)
(* and its embedding, the group memory and the entity stack, the order and *)
(* the length of the stored lines, and the shard lock, which nobody waits  *)
(* for.  Messages that decide() ignores never reach a shard and are left   *)
(* out as well.                                                            *)
(***************************************************************************)
EXTENDS Naturals

CONSTANTS
    Users,
    Owners,      \* the users whose /clear is obeyed
    Messages,    \* message ids; a reply to m carries an id of its own
    Shards,      \* the shard ids that uuid4 may hand out
    None,
    MaxClears,   \* how often /clear is given
    MaxFaults    \* how often a key of Redis expires or the process crashes

ASSUME ShardAssumption ==
    /\ Owners \subseteq Users
    /\ None \notin Users \cup Shards
    /\ {MaxClears, MaxFaults} \subseteq Nat

VARIABLES
    \* Postgres
    row,        \* group_shards: user_id of each shard, None without a row
    newer,      \* the rows by updated_at: <<r, s>> if s is newer than r
    turns,      \* shard_turns
    filed,      \* group_events.shard_id of the reply to a message
    session,    \* sessions.user_id of the shard's session key
    thread,     \* the LangGraph checkpoint of the session key
    \* Redis
    active,     \* user_active
    conv,       \* conv, by user and shard
    bound,      \* msg_shard
    \* the process
    pc,         \* where the handler of each message is
    turn,       \* its local variables
    unused,     \* shard ids not handed out yet
    clr,        \* each owner's /clear
    \* outside
    sent,       \* messages whose reply was delivered
    budget,     \* how many clears and faults are left
    \* History: never read by the actions.
    wiped,      \* shards that a /clear has dropped
    last,       \* where the last turn of each user ended, if nothing disturbed it
    gone        \* lines that an undisturbed /clear has forgotten

warm == <<row, newer, turns, filed, session, thread>>
hot == <<active, conv, bound>>
process == <<pc, turn, unused, clr>>
history == <<wiped, last, gone>>
vars == <<warm, hot, process, sent, budget, history>>

\* What is said, and the message ids one can quote.
Lines == {"user", "bot"} \X Messages

Ended == {"none", "done", "failed", "lost"}
Routing == {"quote", "quoteWarm", "owner", "active", "activeWarm", "load",
            "touch", "open", "activate"}
Answering == {"session", "hear", "hearWarm", "invoke", "model", "silent",
              "send", "file", "say", "sayWarm"}

\* owner: the owner that was read; reason: the router's; direct: the message is
\* known to be addressed to the bot; held: the messages of a graph run.  alone
\* and due are history: nothing else of the user went on, and where the message
\* then belongs.
Turn == [user : Users, quote : Lines \cup {None}, direct : BOOLEAN,
         shard : Shards \cup {None}, owner : Users \cup {None},
         reason : {"", "reply_chain", "reply_foreign_shard", "user_active",
                   "topic_drift", "new_user_topic"},
         held : SUBSET Lines, alone : BOOLEAN, due : Shards \cup {None}]

\* past and calm are history: what is to be forgotten, and whether no turn
\* of the chat has been under way.
Clear == [at : {"idle", "sessions", "active", "drop", "conv", "rows", "threads"},
          shards : SUBSET Shards, threads : SUBSET Shards,
          past : SUBSET Messages, calm : BOOLEAN]

IdleClear == [at |-> "idle", shards |-> {}, threads |-> {}, past |-> {}, calm |-> FALSE]

InFlight(m) == pc[m] \notin Ended
Busy(u) == \/ \E m \in Messages : InFlight(m) /\ turn[m].user = u
           \/ u \in Owners /\ clr[u].at # "idle"

ShardTypeOK ==
    /\ row \in [Shards -> Users \cup {None}]
    /\ newer \subseteq Shards \X Shards
    /\ turns \in [Shards -> SUBSET Lines]
    /\ filed \in [Messages -> Shards \cup {None}]
    /\ session \in [Shards -> Users \cup {None}]
    /\ thread \in [Shards -> SUBSET Lines]
    /\ active \in [Users -> Shards \cup {None}]
    /\ conv \in [Users -> [Shards -> SUBSET Lines]]
    /\ bound \in [Lines -> Shards \cup {None}]
    /\ pc \in [Messages -> Ended \cup Routing \cup Answering]
    /\ \A m \in Messages : pc[m] # "none" => turn[m] \in Turn
    /\ unused \subseteq Shards
    /\ clr \in [Owners -> Clear]
    /\ sent \subseteq Messages
    /\ budget \in [clears : 0 .. MaxClears, faults : 0 .. MaxFaults]
    /\ wiped \subseteq Shards
    /\ last \in [Users -> Shards \cup {None}]
    /\ gone \subseteq Lines

Init ==
    /\ row = [s \in Shards |-> None]
    /\ newer = {}
    /\ turns = [s \in Shards |-> {}]
    /\ filed = [m \in Messages |-> None]
    /\ session = [s \in Shards |-> None]
    /\ thread = [s \in Shards |-> {}]
    /\ active = [u \in Users |-> None]
    /\ conv = [u \in Users |-> [s \in Shards |-> {}]]
    /\ bound = [l \in Lines |-> None]
    /\ pc = [m \in Messages |-> "none"]
    /\ turn = [m \in Messages |-> None]
    /\ unused = Shards
    /\ clr = [o \in Owners |-> IdleClear]
    /\ sent = {}
    /\ budget = [clears |-> MaxClears, faults |-> MaxFaults]
    /\ wiped = {}
    /\ last = [u \in Users |-> None]
    /\ gone = {}

(***************************************************************************)
(* Routing                                                                 *)
(***************************************************************************)
Move(m, at) == pc' = [pc EXCEPT ![m] = at]

\* The message a user may quote: one of the chat's, or a reply delivered to it.
Quotable == {l \in Lines : IF l[1] = "bot" THEN l[2] \in sent ELSE pc[l[2]] # "none"}

\* Where a message that comes alone belongs: with the reply of the bot to the
\* same user that it quotes, or where the user's last turn ended.
Home(u, q) ==
    CASE q = None -> last[u]
      [] q # None /\ q[1] = "bot" /\ pc[q[2]] = "done" /\ turn[q[2]].user = u
           -> turn[q[2]].shard
      [] OTHER -> None

\* A message that is to be answered; it is addressed to the bot if it quotes it.
Receive(m) ==
    /\ pc[m] = "none"
    /\ \E u \in Users, q \in Quotable \cup {None} :
         /\ turn' = [n \in Messages |->
              CASE n = m -> [user |-> u, quote |-> q, shard |-> None,
                             direct |-> q # None /\ (q[1] = "bot" \/ bound[q] # None),
                             owner |-> None, reason |-> "", held |-> {},
                             alone |-> ~Busy(u),
                             due |-> IF Busy(u) THEN None ELSE Home(u, q)]
                [] n # m /\ InFlight(n) /\ turn[n].user = u
                     -> [turn[n] EXCEPT !.alone = FALSE, !.due = None]
                [] OTHER -> turn[n]]
         /\ Move(m, IF q = None THEN "active" ELSE "quote")
    /\ clr' = [o \in Owners |-> [clr[o] EXCEPT !.calm = FALSE]]
    /\ UNCHANGED <<warm, hot, unused, sent, budget, history>>

\* The shard found in Redis or in Postgres, or on to where it is looked for next.
Found(m, s, hit, miss) ==
    /\ turn' = [turn EXCEPT ![m].shard = s]
    /\ Move(m, IF s = None THEN miss ELSE hit)
    /\ UNCHANGED <<warm, hot, unused, clr, sent, budget, history>>

QuoteHot(m) ==
    /\ pc[m] = "quote"
    /\ Found(m, bound[turn[m].quote], "owner", "quoteWarm")

QuoteWarm(m) ==
    /\ pc[m] = "quoteWarm"
    /\ LET q == turn[m].quote
       IN  Found(m, IF q[1] = "bot" THEN filed[q[2]] ELSE None, "owner", "active")

\* Mutant: whoever quotes a message continues its shard.
ForeignNever(owner, user) == FALSE

Foreign(owner, user) == owner # None /\ owner # user

\* A shard without an owner is inherited.
OwnerCheck(m) ==
    /\ pc[m] = "owner"
    /\ IF Foreign(row[turn[m].shard], turn[m].user)
       THEN /\ turn' = [turn EXCEPT ![m].reason = "reply_foreign_shard"]
            /\ Move(m, "open")
       ELSE /\ turn' = [turn EXCEPT ![m].reason = "reply_chain"]
            /\ Move(m, "load")
    /\ UNCHANGED <<warm, hot, unused, clr, sent, budget, history>>

ActiveHot(m) ==
    /\ pc[m] = "active"
    /\ Found(m, active[turn[m].user], "load", "activeWarm")

\* Mutant: no fallback when Redis has forgotten the active shard.
LatestNever(u) == {}

\* get_user_active_shard: the row of the user that was updated last, if any.
Latest(u) ==
    {s \in Shards : row[s] = u /\ \A r \in Shards : row[r] = u => <<s, r>> \notin newer}

ActiveWarm(m) ==
    /\ pc[m] = "activeWarm"
    /\ LET latest == Latest(turn[m].user)
       IN  \E s \in IF latest = {} THEN {None} ELSE latest : Found(m, s, "load", "open")

\* _load_or_touch_shard reads the row, ...
Load(m) ==
    /\ pc[m] = "load"
    /\ turn' = [turn EXCEPT ![m].owner = row[turn[m].shard]]
    /\ Move(m, "touch")
    /\ UNCHANGED <<warm, hot, unused, clr, sent, budget, history>>

\* The order of the rows once s is the newest.
Renewed(s) ==
    LET others == Shards \ {s}
    IN  (newer \cap (others \X others)) \cup ({r \in others : row[r] # None} \X {s})

\* upsert_group_shard writes user_id and moves updated_at.
Upsert(s, u) ==
    /\ row' = [row EXCEPT ![s] = u]
    /\ newer' = Renewed(s)
    /\ UNCHANGED <<turns, filed, session, thread>>

\* ... writes it back with the owner it had ...
Touch(m) ==
    /\ pc[m] = "touch"
    /\ Upsert(turn[m].shard, IF turn[m].owner = None THEN turn[m].user ELSE turn[m].owner)
    /\ Move(m, "activate")
    /\ UNCHANGED <<hot, turn, unused, clr, sent, budget, history>>

\* ... and makes it the active one.  On the active shard, a message that is
\* addressed to the bot may have drifted from the topic.
Activate(m) ==
    /\ pc[m] = "activate"
    /\ active' = [active EXCEPT ![turn[m].user] = turn[m].shard]
    /\ \/ /\ turn' = [turn EXCEPT ![m].reason = IF @ = "" THEN "user_active" ELSE @]
          /\ Move(m, "session")
       \/ /\ turn[m].reason = ""
          /\ turn' = [turn EXCEPT ![m].reason = "topic_drift", ![m].direct = TRUE]
          /\ Move(m, "open")
    /\ UNCHANGED <<warm, conv, bound, unused, clr, sent, budget, history>>

\* Mutant: the shard is made active and its row is not written.
NewShardHotOnly(m) ==
    /\ pc[m] = "open"
    /\ \E s \in unused :
         /\ unused' = unused \ {s}
         /\ turn' = [turn EXCEPT ![m].shard = s,
                                 ![m].reason = IF @ = "" THEN "new_user_topic" ELSE @]
    /\ Move(m, "activate")
    /\ UNCHANGED <<warm, hot, clr, sent, budget, history>>

\* _new_shard; it goes on to set_active_shard.
NewShard(m) ==
    /\ pc[m] = "open"
    /\ \E s \in unused :
         /\ Upsert(s, turn[m].user)
         /\ unused' = unused \ {s}
         /\ turn' = [turn EXCEPT ![m].shard = s,
                                 ![m].reason = IF @ = "" THEN "new_user_topic" ELSE @]
    /\ Move(m, "activate")
    /\ UNCHANGED <<hot, clr, sent, budget, history>>

(***************************************************************************)
(* The turn                                                                *)
(***************************************************************************)

\* The context is assembled and the session is recorded as the speaker's.
EnsureSession(m) ==
    /\ pc[m] = "session"
    /\ session' = [session EXCEPT ![turn[m].shard] = turn[m].user]
    /\ turn' = [turn EXCEPT ![m].due = None, ![m].owner = None, ![m].reason = ""]
    /\ Move(m, "hear")
    /\ UNCHANGED <<row, newer, turns, filed, thread, hot, unused, clr, sent, budget, history>>

\* append_turn: the line, the active shard and the binding of the message id.
AppendHot(m, line, at) ==
    LET t == turn[m]
    IN  /\ conv' = [conv EXCEPT ![t.user][t.shard] = @ \cup {line}]
        /\ active' = [active EXCEPT ![t.user] = t.shard]
        /\ bound' = [bound EXCEPT ![line] = t.shard]
        /\ Move(m, at)
        /\ UNCHANGED <<warm, turn, unused, clr, sent, budget, history>>

\* The handler is over; the history keeps where, if the user did nothing else.
Finish(m, at) ==
    /\ Move(m, at)
    /\ turn' = [turn EXCEPT ![m].held = {}, ![m].quote = None, ![m].alone = FALSE,
                            ![m].direct = FALSE]
    /\ last' = [last EXCEPT ![turn[m].user] =
                  IF turn[m].alone /\ at = "done" THEN turn[m].shard ELSE None]
    /\ UNCHANGED <<wiped, gone>>

\* Mutant: what the user says goes to Redis only.
AppendWarmReplies(m, line) ==
    /\ row[turn[m].shard] # None
    /\ turns' = [turns EXCEPT ![turn[m].shard] = @ \cup ({line} \cap ({"bot"} \X Messages))]
    /\ UNCHANGED <<row, newer, filed, session, thread>>

\* append_shard_turn: a foreign key wants the shard's row.
AppendWarm(m, line) ==
    /\ row[turn[m].shard] # None
    /\ turns' = [turns EXCEPT ![turn[m].shard] = @ \cup {line}]
    /\ UNCHANGED <<row, newer, filed, session, thread>>

\* Without it the exception ends handle().
RowGone(m) ==
    /\ pc[m] \in {"hearWarm", "sayWarm"}
    /\ row[turn[m].shard] = None
    /\ Finish(m, "failed")
    /\ UNCHANGED <<warm, hot, unused, clr, sent, budget>>

Hear(m) ==
    /\ pc[m] = "hear"
    /\ AppendHot(m, <<"user", m>>, "hearWarm")

HearWarm(m) ==
    /\ pc[m] = "hearWarm"
    /\ AppendWarm(m, <<"user", m>>)
    /\ Move(m, "invoke")
    /\ UNCHANGED <<hot, turn, unused, clr, sent, budget, history>>

\* LangGraph loads the thread and saves it with the message, ...
Invoke(m) ==
    /\ pc[m] = "invoke"
    /\ LET s == turn[m].shard
       IN  /\ turn' = [turn EXCEPT ![m].held = thread[s] \cup {<<"user", m>>}]
           /\ thread' = [thread EXCEPT ![s] = @ \cup {<<"user", m>>}]
    /\ Move(m, "model")
    /\ UNCHANGED <<row, newer, turns, filed, session, hot, unused, clr, sent, budget, history>>

\* ... and when the model has answered it saves all the messages it holds.
\* A message that is not addressed to the bot may be met with silence.  A call that fails or times out
\* leaves the thread as it is and is answered with a stock phrase.
Model(m) ==
    /\ pc[m] = "model"
    /\ \/ /\ thread' = [thread EXCEPT ![turn[m].shard] = turn[m].held \cup {<<"bot", m>>}]
          /\ \/ Move(m, "send")
             \/ ~turn[m].direct /\ Move(m, "silent")
       \/ UNCHANGED thread /\ Move(m, "send")
    /\ UNCHANGED <<row, newer, turns, filed, session, hot, turn, unused, clr, sent, budget,
                   history>>

\* _drop_silence_ai
Silent(m) ==
    /\ pc[m] = "silent"
    /\ thread' = [thread EXCEPT ![turn[m].shard] = @ \ {<<"bot", m>>}]
    /\ Finish(m, "done")
    /\ UNCHANGED <<row, newer, turns, filed, session, hot, unused, clr, sent, budget>>

\* The adapter returns the id of what it sent.  A reply that is not delivered has
\* none and is then in the place of one that nobody quotes.
Send(m) ==
    /\ pc[m] = "send"
    /\ sent' = sent \cup {m}
    /\ Move(m, "file")
    /\ UNCHANGED <<warm, hot, turn, unused, clr, budget, history>>

\* ingest_background files the reply under its shard.
File(m) ==
    /\ pc[m] = "file"
    /\ filed' = [filed EXCEPT ![m] = turn[m].shard]
    /\ Move(m, "say")
    /\ UNCHANGED <<row, newer, turns, session, thread, hot, turn, unused, clr, sent, budget,
                   history>>

Say(m) ==
    /\ pc[m] = "say"
    /\ AppendHot(m, <<"bot", m>>, "sayWarm")

SayWarm(m) ==
    /\ pc[m] = "sayWarm"
    /\ AppendWarm(m, <<"bot", m>>)
    /\ Finish(m, "done")
    /\ UNCHANGED <<hot, unused, clr, sent, budget>>

(***************************************************************************)
(* /clear: _clear_owner_memory                                             *)
(***************************************************************************)
Past(o) == {m \in Messages : pc[m] \in Ended \ {"none"} /\ turn[m].user = o
                             /\ turn[m].shard \notin wiped}

\* Mutant: a user without an active shard is not thought of.
ClearBeginsUnchecked(o) ==
    /\ clr[o].at = "idle"
    /\ budget.clears > 0
    /\ budget' = [budget EXCEPT !.clears = @ - 1]
    /\ clr' = [clr EXCEPT ![o] = [at |-> "sessions", shards |-> {}, threads |-> {active[o]},
                                  past |-> Past(o), calm |-> FALSE]]
    /\ UNCHANGED <<warm, hot, pc, turn, unused, sent, history>>

\* _collect_clear_thread_ids begins with the thread of the active shard, ...
ClearBegins(o) ==
    /\ clr[o].at = "idle"
    /\ budget.clears > 0
    /\ budget' = [budget EXCEPT !.clears = @ - 1]
    /\ clr' = [clr EXCEPT ![o] = [at |-> "sessions", shards |-> {},
                                  threads |-> {active[o]} \ {None}, past |-> Past(o),
                                  calm |-> ~\E m \in Messages : InFlight(m)]]
    /\ turn' = [m \in Messages |-> IF InFlight(m) /\ turn[m].user = o
                  THEN [turn[m] EXCEPT !.alone = FALSE, !.due = None] ELSE turn[m]]
    /\ last' = [last EXCEPT ![o] = None]
    /\ UNCHANGED <<warm, hot, pc, unused, sent, wiped, gone>>

ClearStep(o, at, next) ==
    /\ clr[o].at = at
    /\ clr' = [clr EXCEPT ![o] = next]
    /\ UNCHANGED <<pc, turn, unused, sent, budget>>

\* Mutant: only the active shard is cleared.
ClearSessionsActive(o) ==
    /\ ClearStep(o, "sessions", [clr[o] EXCEPT !.at = "active", !.shards = clr[o].threads])
    /\ UNCHANGED <<warm, hot, history>>

\* ... and goes on with the sessions of the user.
ClearSessions(o) ==
    LET known == clr[o].threads \cup {s \in Shards : session[s] = o}
    IN  /\ ClearStep(o, "sessions",
              [clr[o] EXCEPT !.at = "active", !.threads = known, !.shards = known])
        /\ UNCHANGED <<warm, hot, history>>

ClearActive(o) ==
    /\ ClearStep(o, "active",
          [clr[o] EXCEPT !.at = "drop", !.shards = @ \cup ({active[o]} \ {None})])
    /\ UNCHANGED <<warm, hot, history>>

\* clear_user_context
ClearDrop(o) ==
    /\ ClearStep(o, "drop", [clr[o] EXCEPT !.at = "conv"])
    /\ active' = [active EXCEPT ![o] = None]
    /\ UNCHANGED <<warm, conv, bound, history>>

ClearConv(o) ==
    \/ \E s \in clr[o].shards :
         /\ ClearStep(o, "conv", [clr[o] EXCEPT !.shards = @ \ {s}])
         /\ conv' = [conv EXCEPT ![o][s] = {}]
         /\ UNCHANGED <<warm, active, bound, history>>
    \/ /\ clr[o].shards = {}
       /\ ClearStep(o, "conv", [clr[o] EXCEPT !.at = "rows"])
       /\ UNCHANGED <<warm, hot, history>>

\* clear_user_group_shards; the turns of a shard go with its row.
ClearRows(o) ==
    LET dropped == {s \in Shards : row[s] = o}
    IN  /\ ClearStep(o, "rows", [clr[o] EXCEPT !.at = "threads", !.threads = @ \cup dropped])
        /\ row' = [s \in Shards |-> IF s \in dropped THEN None ELSE row[s]]
        /\ newer' = newer \cap ((Shards \ dropped) \X (Shards \ dropped))
        /\ turns' = [s \in Shards |-> IF s \in dropped THEN {} ELSE turns[s]]
        /\ wiped' = wiped \cup dropped \cup clr[o].threads
        /\ UNCHANGED <<filed, session, thread, hot, last, gone>>

LinesOf(ms) == {"user", "bot"} \X ms

\* _wipe_graph_thread, one thread after the other
ClearThreads(o) ==
    \/ \E s \in clr[o].threads :
         /\ ClearStep(o, "threads", [clr[o] EXCEPT !.threads = @ \ {s}])
         /\ thread' = [thread EXCEPT ![s] = {}]
         /\ UNCHANGED <<row, newer, turns, filed, session, hot, history>>
    \/ /\ clr[o].threads = {}
       /\ ClearStep(o, "threads", IdleClear)
       /\ gone' = IF clr[o].calm THEN gone \cup LinesOf(clr[o].past) ELSE gone
       /\ UNCHANGED <<warm, hot, wiped, last>>

(***************************************************************************)
(* Keys of Redis expire, and the process may end and come back.  That the  *)
(* lines of a shard expire as well is left out: no decision reads them.    *)
(***************************************************************************)
Expire ==
    /\ budget.faults > 0
    /\ budget' = [budget EXCEPT !.faults = @ - 1]
    /\ \/ \E u \in Users : /\ active[u] # None
                           /\ active' = [active EXCEPT ![u] = None]
                           /\ UNCHANGED bound
       \/ \E l \in Lines : /\ bound[l] # None
                           /\ bound' = [bound EXCEPT ![l] = None]
                           /\ UNCHANGED active
    /\ UNCHANGED <<warm, conv, process, sent, history>>

Crash ==
    /\ budget.faults > 0
    /\ budget' = [budget EXCEPT !.faults = @ - 1]
    /\ pc' = [m \in Messages |-> IF InFlight(m) THEN "lost" ELSE pc[m]]
    /\ turn' = [m \in Messages |-> IF InFlight(m)
                  THEN [turn[m] EXCEPT !.held = {}, !.quote = None, !.owner = None,
                                       !.reason = "", !.direct = FALSE, !.alone = FALSE, !.due = None]
                  ELSE turn[m]]
    /\ clr' = [o \in Owners |-> IdleClear]
    /\ last' = [u \in Users |-> IF \E m \in Messages : InFlight(m) /\ turn[m].user = u
                                THEN None ELSE last[u]]
    /\ UNCHANGED <<warm, hot, unused, sent, wiped, gone>>

Route(m) == \/ QuoteHot(m) \/ QuoteWarm(m) \/ OwnerCheck(m) \/ ActiveHot(m) \/ ActiveWarm(m)
            \/ Load(m) \/ Touch(m) \/ Activate(m) \/ NewShard(m)

Answer(m) == \/ EnsureSession(m) \/ Hear(m) \/ HearWarm(m) \/ RowGone(m) \/ Invoke(m) \/ Model(m)
             \/ Silent(m) \/ Send(m) \/ File(m) \/ Say(m) \/ SayWarm(m)

Clearing(o) == \/ ClearBegins(o) \/ ClearSessions(o) \/ ClearActive(o) \/ ClearDrop(o)
               \/ ClearConv(o) \/ ClearRows(o) \/ ClearThreads(o)

Next == \/ \E m \in Messages : Receive(m) \/ Route(m) \/ Answer(m)
        \/ \E o \in Owners : Clearing(o)
        \/ Expire
        \/ Crash

Spec == Init /\ [][Next]_vars

(***************************************************************************)
(* Properties                                                              *)
(***************************************************************************)
Routed(m) == pc[m] \in Answering

Placed(m) == pc[m] \in Answering \cup {"done", "failed"}

\* Two speakers never talk in one shard, whose thread the model is shown as
\* the present conversation, unless a /clear has dropped the shard in between:
\* the router checks the owner of a quoted shard (router.py:66-75).
OwnShard ==
    \A m, n \in Messages :
        Placed(m) /\ Placed(n) /\ turn[m].shard = turn[n].shard
            => turn[m].user = turn[n].user \/ turn[m].shard \in wiped

\* The same without the exception, as docs/architecture.md:67 has it: a quote
\* inherits a shard from the same speaker only.
InheritsOwnOnly ==
    \A m, n \in Messages :
        Placed(m) /\ Placed(n) /\ turn[m].shard = turn[n].shard => turn[m].user = turn[n].user

\* A turn that comes alone continues where the user's last turn ended, or where
\* the reply that it quotes was given, whether or not Redis still knows
\* (router.py:61-88): the fallback to Postgres agrees with the cache.  Only a
\* shard that a turn has brought back to life after a /clear may come in between.
RoutedHome ==
    \A m \in Messages :
        LET t == turn[m]
        IN  pc[m] = "session" /\ t.alone /\ t.reason # "topic_drift"
              /\ t.due # None /\ {t.due, t.shard} \cap wiped = {}
            => t.shard = t.due

\* What Redis shows of a shard is also in Postgres, except for the line being
\* written, a line whose writer was cut off, and shards that were dropped
\* (pipeline.py:246-254).
HotWithinWarm ==
    \A u \in Users, s \in Shards \ wiped : \A l \in conv[u][s] \ turns[s] :
        \/ pc[l[2]] = "lost"
        \/ pc[l[2]] = IF l[1] = "user" THEN "hearWarm" ELSE "sayWarm"

\* A turn breaks off on the foreign key only if its shard was dropped under it.
FailsOnlyWhenCleared ==
    \A m \in Messages : pc[m] = "failed" => turn[m].shard \in wiped

\* After a /clear during which no turn of the chat was under way, nothing of
\* what the user had said or heard is left in the shards' lists of Redis
\* (turns, conv), in shard_turns or in a LangGraph thread, and no later step
\* brings it back (chat.py:386-412).  group_events and the group's memory,
\* which everybody's lines share, are not what /clear empties.
Forgotten ==
    \A l \in gone : /\ \A s \in Shards : l \notin turns[s] \cup thread[s]
                    /\ \A u \in Users, s \in Shards : l \notin conv[u][s]
=============================================================================

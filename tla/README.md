# Luopita in TLA+

Luopita is a chat bot for QQ groups and private chats: FastAPI in front, LangGraph agents behind, Redis and
Postgres below, all of it on one asyncio event loop. This directory models the parts of it whose correctness
depends on the order in which things happen. TLC checks the models on small instances. TLAPS proves for every
instance each safety property that the runs find to hold: of the scheduler (how late its loop may be, and that it implements an
abstract queue of runs, included), of commitments (and that they implement an abstract life of a commitment), of a group chat's
shards and stores, of the runtime configuration, of the graph of a turn and its window, of speakers' cards, of the owner's
scratchpad and of the bot's manners in a group.

Paths are relative to the repository. `docs/` is the project's own documentation, in Chinese.

## 1. Inventory

One process, one event loop. An inbound message (webhook, TUI socket, admin API) becomes an `InboundMessage` and
runs `ChatOrchestrator.handle` as a task of its own; the cron loop, every cron job, every commitment follow-up and
every profile refresh are further tasks. Nothing is locked except by the semaphore of the cron service and the shard
lock in Redis. Control moves from one task to another only at an `await` that suspends: with Postgres and Redis that
is every database call, with `memory://` none of them.

| component | state it keeps | operations | talks to | what is hard | what makes it correct |
|---|---|---|---|---|---|
| cron scheduler `core/cron/` | table `cron_jobs`; `_running`, `_sem`, `_wake` | `_loop`/`_tick`, `fire`, `add`, `remove`, `set_enabled`, `update`, `run_now`, `start`, `stop` | database, `run_cron_turn`, heartbeat | stale rows, whole-row writes, three ways to fire one job, exits by exception, lost wake-ups | one run per job, no leaked id or permit, fair queue, due jobs are served on time, deletion is final |
| commitments `core/commitments/`, heartbeat in `core/chat.py` | table `commitments`; `_proactive_hits`, `_heartbeat_running` | `heartbeat_tick`, follow-up, `add`, `cancel_matching`, `/clear` | database, `run_cron_turn`, cron loop | stale snapshot, whole-row writes against `/clear`, failure and retry, quota in memory | hourly quota, one task per commitment, said once, closed stays closed, nothing starves |
| group context `core/group_context/` | Redis: turns, active shard, message→shard, summaries, locks; tables `group_shards`, `shard_turns` | `route`, `prepare_reply`, `write_turn`, `ingest_background`, `clear_user_context` | Redis, database | hot and warm copies, `/clear` against a turn in flight, a lock without owner, a row read before it is written | a speaker never continues another's shard; what was cleared stays cleared |
| group talk `core/group_talk.py`, `trigger.py` | the engagement of a chat and its last reply, in memory | `decide_trigger`, `score_group_reply`, `_engagement`, `_note_group_sent` | chat | read on arrival, noted a model call later, by many messages at once | the cooldown and the quota of follow-ups are exceeded by no more than the messages on their way |
| chat turn `core/chat.py` | — | `handle`, `_after_owner_turn`, `_clear_owner_memory`, `_park_unreplied` | everything | many awaits in one handler | a turn leaves all stores agreeing |
| prompt window and graph `core/window.py`, `graph.py` | the thread of a session in LangGraph's checkpoint | `trim_short_term`, `call_model`, tools, `drop_silence_ai` | LangGraph, model | turns that end inside their tools, two limits on rounds, a window that is cut while they are counted | a provider accepts the window; the model is asked for an answer before the graph is stopped |
| agent tools `agent/tools.py`, `core/agent_runtime.py` | per-turn shell budget, role (context variables) | `run_shell`, `cron`, `qq_*` | cron, adapters | context variables across tasks | owner-only, bounded |
| profiles `core/group_context/profile.py` | table `user_profiles` | `maybe_refresh_profile`, `merge_profile`, `DELETE /api/profiles`, `/clear` | database, model | slow extraction between read and whole-row write | a refresh adds and takes nothing away |
| memory, scratchpad `core/memory.py`, `scratchpad.py`, `reflect.py` | `long_term_memories`, `owner_scratchpads` | `remember_turn`, `recall`, `touch_scratchpad_after_turn`, `mark_proactive` | database | whole-row writes by three writers | a writer leaves alone what it has nothing to say about |
| identity and configuration `core/identity.py`, `utils/config.py`, `app/` | two YAML files, a row of `bot_settings`, the live `AppConfig`, what adapters and graphs were built with | `start`, `sync_disk_settings`, `apply_update`, `apply_identity`, `toggle_platform` | disk, database, people who edit the files | edits between any two reads, requests that overlap in an await, secrets that are shown masked and sent back | no edit overlooked, no mask stored, adapters and row follow the configuration |
| adapters, model clients, media, text cleaning, prompts, web and terminal UI | sockets | I/O, formatting | outside | — | not modelled: no protocol state of their own |

`PROJECT.json` lists every component with its status, and the hazards of the code line by line.

## 2. Plan

| # | module | component | state |
|---|---|---|---|
| 1 | `CronService`, `RunSlots` (what it promises), `CronHistory` (history variables); `CronServiceProofs`, `CronHistoryProofs` | scheduler | modelled, checked, every safety property and the refinement proved |
| 2 | `Commitments`, `CommitmentLife` (what it promises); `CommitmentsProofs` | commitments and heartbeat | modelled, checked, every safety property and the refinement proved |
| 3 | `ShardTurns`; `ShardTurnsProofs` (who may be where), `ShardStoresProofs` (what is stored where) | a group chat's turn: router, hot and warm store, pipeline, thread, `/clear` | modelled, checked, every safety property proved |
| 4 | `GroupTalk`; `DialogueProofs` | when the bot speaks up in a group | modelled, checked, proved |
| 5 | `RuntimeConfig`; `RuntimeConfigProofs` | files, settings row, live configuration, console | modelled, checked, proved |
| 6 | `OwnerPad`; `DialogueProofs` | the owner's scratchpad and its three writers | modelled, checked, proved |
| 7 | `ToolLoop`; `ToolLoopProofs` | the graph of a turn and the window of each call | modelled, checked, proved |
| 8 | `SpeakerCards`; `DialogueProofs` | profiles and their refresh jobs | modelled, checked, proved |
| | the calendar search of `next_cron`, the shell budget of a turn, the group's memory | | left out (section 6) |

Each module takes its instance as CONSTANTS with named assumptions, has one action per stretch of code between two
awaits, and states its invariants as conjunctions of named parts, so that it can be proved about. Modules 4, 6, 7 and 8 share no
state with each other, and `MCDialogue` checks them side by side in one run; the others have an MC module each. Most runs take
seconds; `settings`, `commit_faults`, `dialogue`, `shard_turns` and the larger ones of the scheduler take one to three minutes. What remains of
the plan: an abstract specification of a group's stores (a speaker's dialogue, which a `/clear` ends) for `ShardTurns` to
implement.

## 3. How the code is read

* **An action is a stretch of one task between two suspensions.** A database call is one action, at the moment its
  statement takes effect. What the task does with the answer belongs to its next action, and by then the answer may
  be stale. So `current = await self.get(id)`, edit, `await self.db.put(...)` is two actions with a local copy
  (`copy`, `cmd`, `item`, `held`) in between.
* **Backends.** `Postgres = TRUE`: every database call suspends. `Postgres = FALSE` (`memory://`): the coroutines of
  `InMemoryDatabase` never suspend, so an actor between two of its database calls keeps the loop (`HoldingLoop`,
  `MayMove`), and the rows die with the process.
* **Data.** A schedule is its kind and one number; a prompt, a reply and a delivery target are left out, since no
  decision of these components depends on them. Ownership checks (`owned_by`) select the rows a command may name.
* **Time.** The scheduler has a clock up to `MaxTime`; it stands still while a tick is under way (a tick awaits only
  short database calls, and the heartbeat only creates tasks). `Commitments` keeps ages instead of instants and
  needs no bound.

### CronService

| variable | code |
|---|---|
| `db` | rows of `cron_jobs`: `sched` (kind, schedule, `delete_after_run`), `enabled`, `next` (`next_run_at`), `fails` (`consecutive_failures`) |
| `loop`, `seen`, `deadline`, `wake` | where `_loop` is; rows of its last SELECT; the timeout of `wait_for`; the event `_wake` |
| `running`, `sem`, `waiters` | `_running`; the semaphore's value and its FIFO of waiters |
| `pc`, `copy`, `forced`, `startedAt` | each call of `fire()`: its place, its `job` or `current`, `force`, `clock` |
| `cmd` | the row that `set_enabled` or `update` is about to write |

A call of `fire()` goes *called* (task created or awaited), *queued*, *start* (has the permit), *run* (the agent
turn), *settle* or *error* (about to write the row). The loop goes *tick* (SELECT due), *dispatch* (create tasks),
*plan* (list enabled rows), *doze* (compute the sleep, clear `_wake`), *sleep*.

Points where the model decides something the reader may want to check against the code:

* Tasks that a tick creates are in the ready queue before any answer from outside can be: they start before any turn
  or database call returns (`TasksStarted`).
* `delete_after_run` is set by `resolve_schedule` for kind `at` and for no other, so it is a function of the kind, and
  `if current.kind == "at"` after it (service.py:241) is dead code. The branch for a missing runner (service.py:220) is
  unreachable too: `app/runtime.py` attaches it before `start()`.
* `run_cron_turn` turns an exception of the agent or its 90 s timeout into a reply. `RunError` stands for what does
  escape it: an adapter or a database call that raises. `FireAbort` is a database call of `fire()` itself that raises.
* The owner's turn has 90 s (`asyncio.wait_for` around the graph, chat.py:1214-1234), and the graph's `cron` tool awaits `run_now` and the
  commands. When the time is up, the `CancelledError` reaches `fire()` where it waits, and is no `Exception`: only the finally clauses run and no
  error is marked. `CutReading` is a call that still reads its row, `CutWaiting` one that waits for a permit and leaves the queue from wherever it
  stands, `CutRunning` one at work, whose last database call may have taken effect or not. `EditCut` is a command at its write.
  Only calls of the owner are cut off so: the graph of scheduled turns has no `cron` tool (app/runtime.py:175), so that no job
  awaits another. A cut-off command or call does not wake the loop.
* `wait_for(..., max(0.2, wait))`: the shortest sleep is no time at all on the model's clock; `GoToSleep` then sets a
  deadline that has passed, and `LoopWake` follows without a tick of the clock.
* A crash loses everything but Postgres. `Stop` is `stop()`: the loop is cancelled, calls of `fire()` go on until the
  process ends or `Start` makes a new service.

`RunSlots` is the promise to the callers, without rows, clock or loop: claims are exclusive, at most `Permits` jobs are
active, the rest are admitted in the order in which they came, unless their call is cut off while it waits (`Withdraw`). `ImplementsRunSlots` is its
specification under the mapping `active` = jobs of calls that hold a permit, `queue` = jobs of the waiters.

`CronHistory` adds history variables that no action reads: removals confirmed to the owner, and the time for which a
due job has been in nobody's hands.

### Commitments

`heartbeat_tick` reads the due rows (`HeartbeatRead`), then judges them in one pass without an await and creates the
tasks (`HeartbeatStart`): the quota is checked and noted for each in turn, so that an owner gets as many as its allowance.
A follow-up task goes *turn* (`run_cron_turn`), *mark*/*marking* (`mark_notified`: read, write), *close*/*closing*
(`close`: read, write), *ended* (its done callback has not run yet). An exception anywhere leads to *ended* with the id
given up early, as `_safe_commitment_followup` does; it is given up again in the callback (`Discard`, twice). `/clear` and `cancel_matching` list first and then close one by one.
`said`, `starts`, `cancelled` and `failed` are history variables. `starts` is cut at the hour by `LastHour`, apart from the `AgedHits` of the
code's window, so that a slip at the window's edge shows. The limit of ten rows is not reached by the instances, and
the scratchpad's `mark_proactive`, whose exceptions are swallowed, is an action of `OwnerPad`. Hits are noted in the order of time, so
that those older than an hour are dropped from the front.

`CommitmentLife` is the promise to the owner: a commitment is written down, and then it is either cancelled, or taken up, said and
closed. `ImplementsCommitmentLife` is its specification under the mapping `unborn` = ids not handed out, `speaking` and
`told` = commitments of tasks before and after their turn, `open` and `closed` = rows that no such task works on, by their status. A cancellation
that comes while the bot is at it changes nothing in the abstract life, and that is what happens: the commitment is said, and
the row ends as done. The refinement holds with the in-memory database and without failures. On Postgres `commit_clear` refutes it, and a
follow-up that fails may be tried again while its successor is under way (see *What the properties leave out*).

### ShardTurns

One group chat, with Postgres and Redis behind it, so that every call of either suspends.

| variable | code |
|---|---|
| `row`, `newer` | `group_shards`: the owner of each shard; the order of `updated_at`, as pairs of an older and a newer row |
| `turns`, `filed`, `session`, `thread` | `shard_turns`; `group_events.shard_id` of the bot's replies; `sessions.user_id`; the LangGraph checkpoint of the shard's session key |
| `active`, `conv`, `bound` | the Redis keys `user_active`, `conv`, `msg_shard` |
| `pc`, `turn` | each message's `handle()`: its place and its local variables |
| `unused`, `clr` | what `uuid4` may still return; each owner's `_clear_owner_memory` |

A message goes through the router (*quote*, *quoteWarm*, *owner* or *active*, *activeWarm*, then *load*, *touch* and
*activate*, with *open* for a new shard), records its session, is appended to Redis and to Postgres (*hear*,
*hearWarm*), runs the graph (*invoke*, *model*), and the reply is delivered, filed as an event and appended again (*send*, *file*,
*say*, *sayWarm*), or taken back out of the thread (*silent*). Every other message and `/clear` may come between any two of these.

* Left out, because no decision in the model depends on it: text, embeddings, summaries, entities, the group's memory, the
  order and number of stored lines and their expiry. Where a text decides (has the topic drifted, is there anything to
  say) both outcomes are possible.
* A reply has one bubble, a message quotes at most one other. A reply that is not delivered has no message id, and
  is in the place of one that nobody quotes. A message that `decide` ignores never reaches a shard.
* The run of a graph reads its thread when it starts, and writes what it read with the reply when it ends.
* The three Redis calls of `append_turn` are one action. They only set keys for the shard the turn is in. Another
  step that reads one of them in between reads what it would have read before or after.
* The shard lock is left out: `prepare_reply` goes on whether or not it got it, and nothing else asks for it.
* A `/clear` is obeyed only when it comes from an owner, so only `Owners` clear.
* `alone`, `due`, `past`, `calm`, `wiped`, `last` and `gone` are history.

### GroupTalk

| variable | code |
|---|---|
| `left`, `lastUser`, `repliesLeft` | a chat's engagement: `engaged_until`, `last_user_id`, `replies_left` |
| `quiet` | the time since `_last_group_reply` |
| `hearing` | what `handle()` of each message on its way has read: its decision and whether the chat was engaged |

`Receive` is the arrival with `decide_trigger`, `Answer` is the reply with `_note_group_sent`, `Unnoted` a turn that ends
without the note; any number of messages may be between the two. Time is kept as what is left of the engagement and what has passed
of the cooldown. A text is a record of what the policy asks of it (is it filler, technical, a question, long, near to a shard);
which texts are, is not modelled. Scores and bars are whole numbers in units of 1/10000.

* `docs/configuration.md:92` calls the engagement a window for the *same* speaker. Bystanders are scored lower, but with a
  question, a picture or a technical text they reach the bar as well (`Score`, 7800 against 5000).
* A reply that was sent is recorded nowhere when the turn raises before the note (`Unnoted`): the cooldown does not start.

### ToolLoop

`thread` is the checkpoint's list of messages, each reduced to its kind (a human's, an answer, one that calls tools, a tool's
result). `Invoke` starts a turn, `CallModel` calls the model on the window that `trim_short_term` and
`drop_trailing_extra_humans` leave of the thread and appends its answer, `RunTools` appends the results, `Replies` ends the turn
and takes a silent answer back out. `steps` counts LangGraph's supersteps, each of which is checked against the recursion limit. A turn may be
interrupted at any superstep (the 90 s timeout, an exception), and the thread keeps what it held. `Caps` are the sizes of window that
may be configured, as `trim_short_term` takes them: a 0 there means `SHORT_TERM_MAX`.

* One turn at a time: turns that overlap in one thread are a matter of `ShardTurns`. The size of the window may be set anew at any moment.
* Results of a round are stored all at once or not at all: LangGraph writes the checkpoint after a superstep.
* The provider refuses a window that holds a call without results (`ModelRefuses`), which is its rule and not in `src/`.
* What the tools do, and the shell budget that some of them share, is left out.

### SpeakerCards

`row` and `age` are the row of `user_profiles` and the time since it was put; `job` and `card` are each refresh job's place and the
card in its hands. `ReadCard` reads, `Extracted` is the model's answer merged into what was read, `PutCard` puts the whole card;
another job, `DELETE /api/profiles` and `/clear` come in between. `recent` stands for the fields where the newest text wins (address,
preference of reply, evidence). A job on its way restores a card that is deleted under it: that is what the code does.

### OwnerPad

`pad` is the row of `owner_scratchpads`; `at` and `draft` are each writer's place and the row it will put. A writer reads the row
(`EndTurn`, `MarkProactive`), reads it again in `save_scratchpad` (`Reload`) and puts all four fields (`Save`). Nothing ever reads
`last_proactive_at` but `save_scratchpad` itself. `open_summary or existing` keeps the summary of an item that has been
closed: with nothing left open, the old summary stays.

### RuntimeConfig

| variable | code |
|---|---|
| `identityFile`, `personaFile`, `stamped` | the two files; whether `_settings_stamp` equals their modification times |
| `identity`, `config` | `IdentityStore.settings`, `Runtime.config` |
| `row`, `env` | the row of `bot_settings`; what the `LUOPITA_*` variables name, which every start puts on top of the row |
| `built` | what adapters, graphs and orchestrator were given last |
| `phase`, `reading`, `reader`, `touched` | where `start()` and `sync_disk_settings` are, who called the latter, whether it found a change |
| `flight`, `payload` | each request of the console: its place, and the row it puts |

A handler keeps the event loop until it awaits the database, so that requests overlap only there. People who edit the files are no task of
the loop: `HandEdit` may come between any two reads. Modification times are compared for equality and for nothing else.

* `enabled` stands for the plain fields of the sections (`llm`, `napcat`, `tui`, `agent`) and for `log_level`, `token` for their secrets,
  `policy` for the fields of `identity.yaml` other than the owners. The environment overrides fields of both kinds (`Overridden`).
  `port` stands for `host` and `port`: a PUT makes them live and answers for them, but `runtime_payload` leaves them out, so that the next start does not know them.
  `config.identity`, a copy of the store's settings, is left out. With `memory://` the row dies with
  the process, which `Start` without a row covers.
* Writes of the files fail too. `apply_update` changes the live configuration before `save_persona` (runtime.py:328-332), so
  `PersonaNotSaved` leaves a new card in memory beside the older file and a stamp that still matches it; the file may also be cut short, since it is
  written in place. `IdentityStore.save` is called before the settings in memory change (`IdentityNotSaved`). `load` of a
  missing `identity.yaml` creates it, and `ReadFails` covers that this fails.
* `Start` and `Started` are a start that succeeds. One that raises leaves a process that is down, and files as hands may leave them.
* The value of a card is what its file means, so that an empty name is the default's.
* A PUT of one field of the identity writes back all the owners it has in memory, over an edit by hand that was not yet read.

## 4. Runs

| run | asks | bounds |
|---|---|---|
| `cron_edits` | stale copies: one recurring job, the loop, two calls of `fire()` and a command, Postgres, failures, a turn of the owner's that runs out of time, shutdown, crash | two instants beyond 0: a run, its successor and a missed one all occur |
| `cron_contention` | two jobs, one permit, three calls, one of them the owner's and cut off anywhere: exclusion, permits, finality of deletion, and that the service implements `RunSlots` | three calls, so that one holds, one waits and one comes |
| `cron_live` | liveness, with turns that fail and retry | two one-shot jobs, one of them overdue when it is added |
| `cron_prompt` | how late the loop may be; sleeps of two, lost wake-ups, restarts, calendar schedules | four instants: two full sleeps |
| `cron_removed` | a finding: see below | one job, one call |
| `commit_faults` | races and failures on Postgres, and that a commitment whose follow-ups fail is taken up again | two tasks, so that a follow-up and its successor overlap; quota one, an hour of two units: the quota fills, empties and fills again |
| `commit_memory` | the in-memory backend: said once, stays cancelled, the refinement of `CommitmentLife`, and liveness | two commitments for a quota of one |
| `commit_clear` | a finding: see below | one commitment, one `/clear` |
| `shard_turns` | who continues which shard, whether Redis and Postgres agree on it, and what a `/clear` leaves | two users, one of them the owner, a message each or both from one, two shards, one `/clear`, one expiry or crash: enough for a turn and its successor with anything in between, or two turns at once |
| `shard_inherit` | a finding: see below | the same without faults |
| `settings` | owners, secrets, adapters, the stored row and the hot reload, with requests that overlap and fail, edits by hand and restarts | two requests at once, the console and one more user, two cards, one secret, an environment that names nothing or, as `docker-compose.yml` does, a switch and a secret; four acts of people and two starts: a request overlaps another with an edit before and after, and a restart finds the row of a former process, perhaps with another environment |
| `dialogue` | `GroupTalk`, `ToolLoop`, `SpeakerCards` and `OwnerPad` side by side; the initial state says which of them moves | three messages at once, with quota, engagement and cooldown of two, so that each runs out while messages are on their way; windows of 1, 4 and 8 with the code's own 6 rounds and 16 supersteps, threads up to 14 messages; two jobs on a card; two turns, a follow-up and `/clear` on a pad |

The state is finite without constraints: `MaxTime` stops the clock (`LoopWake` then ends every sleep, as if time went
on), `FailBound` bounds how often a job fails, ids are handed out once, and `LastStarts` keeps one start more than the
quota, which is enough to see it exceeded. Slots for calls and tasks suffice in every instance: `TickDispatch` and
`HeartbeatStart` need a slot for each task they create, and an instance that lacked one would deadlock, which is checked.
Slots of the owner's `run_now` are apart (`OwnerFires`), so that the owner cannot use up the loop's. Symmetry is used
only where no liveness is checked. `shard_turns` and `shard_inherit` do not check for deadlock: the instance is at its
end when its messages are handled and its `/clear` is given. Neither does `settings`, which is at its end when all acts and starts are used
up, nor `dialogue`, where a pad is at its end when its writers are. `MCDialogue` and `MCRuntimeConfig` narrow some inputs (`FewTexts`: at most two
traits of a text; `FewCards`: a model learns one field at a time; `PadMove`: a turn notes its text or nothing; `FewPatches`: one field, or a section as it was
shown, and no port; `FewIdentities`: no edit by hand touches `policy`): more at once sets the same variables to the same kinds of values, and no property tells ports apart. The proofs have no such limit.

**Fairness.** Of the scheduler: weak fairness of the loop, of each call of `fire()` and of the clock. The event loop
runs whatever is ready; a turn ends because `INVOKE_TIMEOUT_SEC` is 90 s; database calls return or raise. Of the
commitments: weak fairness of the heartbeat (the cron loop calls it at every tick), strong fairness of each task, each
command and the clock: with the in-memory backend a task is disabled whenever another actor keeps the loop, and the
event loop's ready queue is first come first served, so being ready again and again is enough. On Postgres (`commit_faults`) a step
of a task includes that its database call fails: calls return or raise. Time is strong because a tick
interrupts it for an instant only. Nothing is assumed of the owner, of crashes or of failures. The other modules state safety only and assume no fairness: their code promises no
progress beyond that of the event loop, and a model call may always fail.

**What the properties leave out.** `OneFollowUp` and `LiveExact` make an exception for a commitment of which a
follow-up has failed: its id is discarded in the exception handler and again in the done callback, and in between it
may have passed to a new task (chat.py:826 and 811). `QuotaKept` is a property of one process: the hits live in memory, and with
`Restart` an owner can be approached more often within the hour. `TakenUpAgain` asks that a commitment is taken up after each failure, and not that
it is ever closed: a database that fails every time keeps it open. That a commitment recorded as done was heard is not a property
of the code: adapters report a failed delivery as `None`, and `run_commitment_followup` does not look.

`OwnShard` and `HotWithinWarm` make an exception for shards that a `/clear` has dropped: a turn that is under way
writes the row of such a shard anew, with whoever comes next as its owner. For the same reason `RoutedHome` makes one for a message whose
due shard, or the shard it came to, was dropped. `Forgotten` is claimed only of a `/clear` during which
no turn of the chat is under way, for the same reason: `write_turn` and the graph put back what they hold.

`AdaptersFollow` and `RowKeepsUp` make an exception after a request that failed halfway: the configuration is live, the adapters
are not rebuilt, and the row may not have been written. `RowKeepsUp` also excepts requests that overlapped: both await `put_settings`, and the row may take the older of the two. It is about the sections
and about what is in the row, not about what the next start makes of it: `apply_env_overrides` comes last (utils/config.py), so that what the environment names wins over the
row at every start. `docker-compose.yml:71` names `LUOPITA_NAPCAT_ENABLED`, and a platform that was switched in the console, and acknowledged, is switched back when that
deployment starts again; `docs/configuration.md:3` gives the environment this rank. `host` and `port` are acknowledged and in no row at all.
`EditsPickedUp` excepts an edit that fell between a read and the stamp taken after it, which is overlooked until the next edit,
a card that could not be saved (it is in memory, and the stamp matches the older file), and files that cannot be read or created, whose stamp `get_config` takes all the same.
(`docs/configuration.md:61` promises a hot reload by modification time, without these exceptions.)

`FollowUpsBounded` and `OpeningsBounded` allow one more for each message that was on its way: the quota and the cooldown are checked
on arrival and noted after the turn. `CardOnlyGrows` excepts a job that another put or a deletion overtook, `OwnFieldsOnly` a field that another
put after the writer had read it; there the code loses what was put. `RefusalsEnd` does not say that no window is refused: a turn that ends inside its tools does leave
a call without results, and later turns are refused until it has moved out of the window.

### Findings

* `cron_removed`: `_mark_error` falls back on its own copy (`await self.get(job.id) or job`) and writes it. A job removed
  while its turn runs comes back when the turn fails. The trace needs no stale read, it happens with `memory://` as well.
* `commit_clear`: `mark_notified` writes back the whole row it read before. A `/clear` in between is undone.
* `shard_inherit`: `docs/architecture.md:67` has a quote inherit a shard from the same speaker only. After a `/clear` the bindings
  from message ids to shards are still there and the rows are not. The router takes a shard without a row for one
  that anybody may inherit (router.py:64-75), and `_load_or_touch_shard` makes the quoting user its owner.

Not a finding of a run, but seen while reading: the compression of long shards (architecture.md:69) never happens. The assembler loads
at most `SHORT_TURNS` turns of a shard and `needs_compression` asks for more than `SHORT_TURNS`, so that summaries are never written.

A whole row written back after an await, as in `commit_clear`, makes two more statements false that no run repeats: a job
switched off while it waits for a permit is switched on again when it is moved on (service.py:214-217), and a one-shot
can be fired again from a SELECT that is older than its deletion (service.py:299-304). `GoneForGood` is what does hold: once nobody
holds a copy, nothing comes back. It says nothing of the copies themselves, and neither do `ClosedForGood` of the rows in somebody's hands and `CardOnlyGrows` of
jobs that were overtaken: those races are listed as hazards, and what they lose is what the code loses.

## 5. Proofs

Every safety property of a module that a run finds to hold is a theorem as well, for every value of the constants that meets the
assumptions of its module: `CronAssumption`, `CommitmentAssumption`, `ShardAssumption`, `TalkAssumption`, `LoopAssumption`,
`RoundsAssumption`, `CardsAssumption`, `PadAssumption` and `RuntimeAssumption`. They ask for finitely many slots where slots are counted,
numbers that are naturals, `NoRow` and its like outside of what they stand apart from, and for `ToolLoop` that finitely many sizes of window
are ever configured and that two supersteps for each round of tools stay below the recursion limit (6 rounds, 16 supersteps in
core/window.py and core/graph.py). TLC evaluates each of them in the runs. Theorems that need more say so.

### Scheduler: `CronServiceProofs`, `CronHistoryProofs`

| theorem | states |
|---|---|
| `Invariance` | `Spec => []IInv` |
| `TypeCorrect`, `Exclusion`, `NoLeakedId`, `NoLeakedPermit` | `TypeOK`, `OneRunPerJob`, `RunningExact`, `PermitsExact` always hold |
| `DeletionIsFinal` | `Spec => GoneForGood` |
| `Implementation` | `Spec => ImplementsRunSlots` |
| `HistoryTyped`, `TakenInTime` | `HTypeOK` and `TakenWithinOneSleep` always hold, for finitely many jobs |

`IInv` is `Typing /\ Bookkeeping`. `TypeOK` alone is not inductive: `sem + 1` stays below the ceiling only because a call
that releases holds a permit, and a step that writes `copy[f]` needs to know that it is a row. So `Typing` adds what each
call knows of its own row and that a row is stored under its own id, and `Bookkeeping` relates `_running`, the semaphore
and its queue to the places of the calls. That each of these is needed shows in the proof: `PermitsExact` needs
`QueueExact`, which says that the waiters are the calls at *queued*, each once (a call admitted from the queue held nothing before), `RunningExact` needs `OneRunPerJob` (what a call
discards is nobody else's). The induction step has one case per action. Since many actions move a call in the same way,
the shape lemmas (`ReleaseShape`, `GrantShape`, `EnterShape`, `AdmitShape`, `WithdrawShape`, `SameShape`, `FreshShape`) state once what
each kind of move does to the bookkeeping. A call that is cut off while it waits (`WithdrawShape`) takes a waiter out of the middle: `WithoutOne` says what is left of the
sequence, and that `f` stood in it once is what keeps `QueueExact`. The refinement uses the invariant as well: the semaphore has a free permit exactly when
`RunSlots` has a free slot (`ActiveCount`), which is `PermitsExact` and `OneRunPerJob` together.

The time bound is about every state of the loop, so `WaitBound` follows it around: while it sleeps, what is left of the
sleep and what a job has waited make up the longest sleep at most; a tick finds every job that has waited in its rows; and between its
dispatch and its sleep nothing has waited. It holds when a tick sees every due row and no call of the database fails, which is the
property's own condition.

### Commitments: `CommitmentsProofs`

| theorem | states | needs |
|---|---|---|
| `CommitTypeCorrect`, `OneAtATime`, `RunningIsExact` | `CommitTypeOK`, `OneFollowUp`, `LiveExact` always hold | |
| `QuotaHolds` | `QuotaKept` always holds | `~MayCrash`: the hits live in memory |
| `ClosedIsFinal` | `Spec => ClosedForGood` | `Postgres \/ ~MayCrash`: a crash of the in-memory database loses the rows |
| `LifeImplemented` | `Spec => ImplementsCommitmentLife` | the in-memory database, without failures |
| `NeverSaidTwice`, `CancelledIsClosed` | `SaidOnce`, `CancelledStaysClosed` always hold | the in-memory database, without failures; on Postgres `commit_clear` refutes the second |

`IInv` adds to the types that a row is stored under its id (`Stored`), that tasks, snapshot and commands hold rows of commitments
that exist (`Grounded`), and that no list of hits is longer than the quota (`Within`). The last is what makes `CommitTypeOK` inductive. For the quota, `starts = hits`
is kept by every step but a restart (`Counted`). For the in-memory database `MemoryInv` adds that no two actors are between two calls at
once, that a commitment that was said is closed or in the hands of the task that said it (`SaidInv`), and that what is about to be written reopens
nothing (`CancelInv`). The refinement follows from `MemoryInv` and `LiveExact`, one lemma per action: what the heartbeat takes up is open, because
`Alone` keeps its snapshot fresh, and in nobody's hands, because `_heartbeat_running` is exact; what a command writes is the row of a commitment
that it closes, or that is in a task's hands. `LastHourAged` is the one lemma on the window's edge: the history's hour and the code's are the same.

### Group context: `ShardTurnsProofs`, `ShardStoresProofs`

| theorem | states |
|---|---|
| `Routable` | `Spec => []IInv` |
| `NobodyElse`, `OnlyCleared` | `OwnShard` and `FailsOnlyWhenCleared` always hold |
| `Kept` | `Spec => []StoresInv` |
| `ShardsTyped`, `CacheAgrees`, `ForgottenForGood`, `ReturnsHome` | `ShardTypeOK`, `HotWithinWarm`, `Forgotten` and `RoutedHome` always hold |

`OwnShard` says nothing of the
stores that lead a message to its shard, so `IInv` does: a shard that was handed out keeps its row until a `/clear` drops it
(`RowsKept`), the keys of Redis and the filed events name only shards that were handed out, and a user's active shard
is the user's own (`KeysOpen`), and a message past the owner check is where it may be (`CallsOpen`). The last needs that
the owner `_load_or_touch_shard` is about to write back is still the user: it was read one await earlier. Dropped shards
are exempt throughout, and `wiped` only grows, so a `/clear` can never make `CallsOpen` false for another call. `LocalMove` and
`OpenMove` state once what a step of one message leaves alone, each action then shows that its message may be where it goes.

`ShardStoresProofs` goes from the shards to what is in them.

* `Located`: every line that is stored, or held by a run of the graph, is in the shard of its message; and whoever speaks in a
  shard has its session (`SessionsKept`). With it `HotWithinWarm` is inductive.
* `Sweeping`: a `/clear` that nothing disturbs has all that remains of its owner on its lists, whatever part of them it has worked
  off. So when it ends, no store holds one of the owner's lines, and since no turn holds one either, none comes back (`Free`).
* `HomeInv`, for `RoutedHome`. A turn that comes alone is looked at on its whole way through the router (`Homely`): at each place it is led to
  its due shard, or that shard or the one it came to was dropped. `Ordered` says that any set of rows has a newest, so that the router's second
  source has one answer; `Replied` says that a delivered reply is filed and bound to its shard, so that quoting it leads there; `Resting` says that both the key
  in Redis, if it is there, and the newest row of a user name the shard of the last turn. It is `Resting` that a turn under way, a `/clear` or
  an expired key could break, and each of them is shown not to.

### The graph of a turn: `ToolLoopProofs`

| theorem | states |
|---|---|
| `LoopTypeCorrect` | `LoopTypeOK` always holds |
| `WindowIsWellFormed` | `WindowWellFormed` always holds, for any sizes of the window |
| `AnswersStayWithinLimit` | `AnswersWithinLimit` always holds |
| `RefusalsComeToAnEnd` | `RefusalsEnd` always holds |

The three properties are about the window, which is computed from the thread, and so about what a thread may look like. `LoopInv` says it: a
thread starts with a human's message and no result is without its call, and while a turn is under way its messages hold at most
the allowed rounds, its supersteps are two for each round, and only a call at the very end may still lack its results. The lemmas follow a
thread through `trim_messages`, `_align_start` and `drop_trailing_extra_humans`: where the kept tail starts, that it starts with a human's
message, and that it contains the last human's message with all that follows. So the rounds counted in the window are the rounds of the turn, and
with `RoundsAssumption` the superstep of the answer is still below the limit. `TailInv`, for the refusals: each invocation in a row that was
refused has left a human's message at the end of the thread, and nothing else since. A window that consists of such messages alone holds no call, so
that there are fewer of them than the largest window has places. Neither lists nor windows are bounded in the proofs.

### The composition: `DialogueProofs`

| theorem | states |
|---|---|
| `PartsImplemented` | `MCSpec => TalkSpec /\ LoopSpec /\ CardsSpec /\ PadSpec`: what is proved of a part holds of the composition that `dialogue` checks |
| `DialogueTypeCorrect` | `DialogueTypeOK` always holds in the composition |
| `TalkTypeCorrect`, `FollowUpsStayBounded`, `OpeningsStayBounded` | `TalkTypeOK`, `FollowUpsBounded` and `OpeningsBounded` always hold, for any finite number of messages at once |
| `CardsTypeCorrect`, `CardsOnlyGrow` | `CardsTypeOK` always holds, `CardsSpec => CardOnlyGrows` |
| `PadTypeCorrect`, `OwnFieldsKept` | `PadTypeOK` always holds, `PadSpec => OwnFieldsOnly` |

* `FollowInv`: while replies are left, follow-ups and replies left make up the quota at most; with none left nobody joins the messages that
  are to follow up, so that follow-ups and those on their way stay below the quota and the number of slots. `OpenInv` is the same for openings and the cooldown.
* `CardsInv`: a job that nobody has overtaken holds the stored card until the model answers, and from then on a card that adds to the stored one, and it had
  a reason to start. It needs that every stored stack is without repetitions: only then is a stack a prefix of what `_norm_stack` makes
  of it and the new entries. That is shown without induction, by counting: entry `n` of the result is the entry at the position of rank `n` among
  those that come first (`RankTaken`, `RankUnique`).
* `DraftInv`: what a writer is about to put holds, in every field that nobody has put since, what the writer means to say of it. It tells the first
  reading, which does not yet know the stamp, from the second.

### The runtime: `RuntimeConfigProofs`

`TypeCorrect`, `ConsoleKept`, `NoMaskKept`, `AdaptersKept`, `RowKept` and `EditsKept` state that the six invariants of `RuntimeConfig` always hold.

* `AloneInv`: unless it is recorded that two requests overlapped, at most one is on its way, and what it puts is the configuration of now. `FilesInv`:
  each place of `sync_disk_settings` and of `start()` knows which files it has read, unless an edit raced with it; a card that could not be saved (`unsaved`) stays
  apart from its file until the file is read or written again. `LoopInv` keeps the two apart.
* `RowKept` is about what the sections and the row say. Which of them the next start takes is `BootSections`, where the environment comes on top.

### Only model-checked

Liveness: `RunEnds`, `DueServed`, `FollowedUp` and `TakenUpAgain`. The prover has no rules for fairness and `ENABLED`. No module uses a
RECURSIVE operator, and no theorem is about what a recursive definition computes.

## 6. Not modelled

* Parsing and rendering (schedules, commands, commitments in prose), media, outbound text, prompts, voice examples, adapters,
  model clients and user interfaces have no state whose order matters here; the effect they have on a turn is part of the action that
  calls them.
* `next_cron`'s search in the calendar is a function of a text and an instant. `NextRunAt` takes what it yields; that it may yield nothing is
  listed as a hazard without a property.
* Long-term memory and the memory of the whole group are appended to and searched; no decision in these models reads them. The entity stack only
  helps to resolve pronouns in a prompt. Summaries are never written (section 4). The in-memory group stores repeat the Redis ones without awaits.
* The shell budget is a list of the commands of one turn, in a context variable that is set anew for each.
* The endpoints of the admin API that only read, and chat over HTTP, which goes through the same `handle()`.

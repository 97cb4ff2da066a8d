-------------------------- MODULE ShardTurnsProofs --------------------------
(***************************************************************************)
(* Nobody continues another user's shard (OwnShard), and no turn breaks    *)
(* off but in a dropped shard (FailsOnlyWhenCleared), for any number of    *)
(* users, messages and shards.                                             *)
(***************************************************************************)
EXTENDS ShardTurns, TLAPS

(***************************************************************************)
(* The inductive invariant                                                 *)
(***************************************************************************)
StoresTyped ==
    /\ row \in [Shards -> Users \cup {None}]
    /\ filed \in [Messages -> Shards \cup {None}]
    /\ thread \in [Shards -> SUBSET Lines]
    /\ active \in [Users -> Shards \cup {None}]
    /\ bound \in [Lines -> Shards \cup {None}]
    /\ unused \in SUBSET Shards
    /\ last \in [Users -> Shards \cup {None}]

CallsTyped ==
    /\ pc \in [Messages -> Ended \cup Routing \cup Answering]
    /\ turn \in [Messages -> Turn \cup {None}]
    /\ \A m \in Messages : pc[m] # "none" => turn[m] \in Turn
    /\ \A m \in Messages : pc[m] \in {"quote", "quoteWarm"} => turn[m].quote \in Lines

\* A message that is past the owner check.
Checked == {"load", "touch", "activate"} \cup Answering \cup {"done", "failed"}

\* A shard where u may go on: its own, or one that was dropped.
Open(s, u) == s \in wiped \/ row[s] = u

\* A shard that was not handed out has no row, and one that was loses it to a
\* /clear only.
RowsKept == \A s \in Shards : IF s \in unused THEN row[s] = None
                              ELSE row[s] # None \/ s \in wiped

\* Redis and the table of events know shards that were handed out, and Redis
\* sends a user to an open one.
KeysOpen ==
    /\ \A l \in Lines : bound[l] \notin unused
    /\ \A m \in Messages : filed[m] \notin unused
    /\ \A u \in Users : /\ active[u] \notin unused
                        /\ active[u] # None => Open(active[u], u)

\* A message at "at" with the local variables t: past the check it is in an open
\* shard, the owner it is about to write back is its user, and it breaks off in a
\* dropped shard only.
Allowed(at, t) ==
    /\ at # "none" => t.shard \notin unused
    /\ at = "owner" => t.shard \in Shards
    /\ at \in Checked => t.shard \in Shards /\ Open(t.shard, t.user)
    /\ at = "touch" => t.shard \in wiped \/ t.owner = t.user
    /\ at = "failed" => t.shard \in wiped

CallsOpen == \A m \in Messages : Allowed(pc[m], turn[m])

Typing == StoresTyped /\ CallsTyped
Ownership == RowsKept /\ KeysOpen /\ CallsOpen
IInv == Typing /\ Ownership

-----------------------------------------------------------------------------
(***************************************************************************)
(* What a step does to what it does not touch                              *)
(***************************************************************************)

\* A call that moves on with local variables of the right type.
LEMMA MoveTyped ==
    ASSUME CallsTyped, NEW m \in Messages, NEW t \in Turn,
           NEW at \in Ended \cup Routing \cup Answering,
           at \in {"quote", "quoteWarm"} => t.quote \in Lines,
           pc' = [pc EXCEPT ![m] = at], turn' = [turn EXCEPT ![m] = t]
    PROVE  CallsTyped'
BY DEF CallsTyped

\* A call that moves on and keeps its local variables.
LEMMA StepTyped ==
    ASSUME CallsTyped, NEW m \in Messages,
           NEW at \in (Ended \cup Routing \cup Answering) \ {"quote", "quoteWarm"},
           pc[m] # "none", pc' = [pc EXCEPT ![m] = at], turn' = turn
    PROVE  CallsTyped'
BY DEF CallsTyped

\* Shards that are handed out and open stay so.
StayOpen ==
    /\ unused' \subseteq unused
    /\ wiped \subseteq wiped'
    /\ \A s \in Shards \ unused, u \in Users : Open(s, u) => s \in wiped' \/ row'[s] = u

\* A step that leaves the rows, the unused names and wiped alone keeps what is open.
LEMMA NothingMoved ==
    ASSUME UNCHANGED <<row, unused, wiped>>
    PROVE  StayOpen
BY DEF StayOpen, Open

\* A step that leaves the keys and the filed events alone keeps them in open shards.
LEMMA KeysStay ==
    ASSUME StoresTyped, KeysOpen, StayOpen, UNCHANGED <<active, bound, filed>>
    PROVE  KeysOpen'
BY ShardAssumption DEF StoresTyped, KeysOpen, StayOpen, Open

\* One call moves, to a place where it is allowed; the others stay.
LEMMA CallMoves ==
    ASSUME CallsTyped, CallsOpen, StayOpen, NEW m \in Messages,
           \A n \in Messages \ {m} : pc'[n] = pc[n] /\ turn'[n] = turn[n],
           Allowed(pc[m], turn[m])'
    PROVE  CallsOpen'
<1> SUFFICES ASSUME NEW n \in Messages \ {m} PROVE Allowed(pc[n], turn[n])'
  BY DEF CallsOpen
<1>1. Allowed(pc[n], turn[n])
  BY DEF CallsOpen
<1>2. pc[n] # "none" => turn[n].user \in Users
  BY DEF CallsTyped, Turn
<1>3. pc[n] \in Checked => pc[n] # "none"
  BY DEF Checked, Answering
<1>5. "touch" \in Checked
  BY DEF Checked
<1> QED
  BY <1>1, <1>2, <1>3, <1>5 DEF Allowed, StayOpen, Open

\* Calls stay where they are, or are cut off, with the shard they had.
LEMMA CallsStay ==
    ASSUME CallsTyped, CallsOpen, StayOpen,
           \A n \in Messages :
              /\ pc'[n] = pc[n] \/ (pc'[n] = "lost" /\ pc[n] # "none")
              /\ pc[n] # "none" => /\ turn'[n].shard = turn[n].shard
                                   /\ turn'[n].user = turn[n].user
                                   /\ pc'[n] = "touch" => turn'[n].owner = turn[n].owner
    PROVE  CallsOpen'
<1> SUFFICES ASSUME NEW n \in Messages PROVE Allowed(pc[n], turn[n])'
  BY DEF CallsOpen
<1>1. Allowed(pc[n], turn[n])
  BY DEF CallsOpen
<1>2. pc[n] # "none" => turn[n].user \in Users
  BY DEF CallsTyped, Turn
<1>3. pc[n] \in Checked => pc[n] # "none"
  BY DEF Checked, Answering
<1>4. "lost" \notin Checked
  BY DEF Checked, Answering
<1> QED
  BY <1>1, <1>2, <1>3, <1>4 DEF Allowed, StayOpen, Open

\* One call moves, and the shards, the keys of Redis and the events are in order.
LEMMA OpenMove ==
    ASSUME IInv, NEW m \in Messages, NEW t \in Turn,
           NEW at \in Ended \cup Routing \cup Answering,
           at \in {"quote", "quoteWarm"} => t.quote \in Lines,
           pc' = [pc EXCEPT ![m] = at], turn' = [turn EXCEPT ![m] = t],
           StoresTyped', RowsKept', KeysOpen', StayOpen,
           Allowed(pc[m], turn[m])'
    PROVE  IInv'
<1>1. CallsTyped'
  BY MoveTyped DEF IInv, Typing
<1>2. \A n \in Messages \ {m} : pc'[n] = pc[n] /\ turn'[n] = turn[n]
  BY DEF IInv, Typing, CallsTyped
<1>3. CallsOpen'
  BY <1>2, CallMoves DEF IInv, Typing, Ownership
<1> QED
  BY <1>1, <1>3 DEF IInv, Typing, Ownership

\* One call moves, and what the others can see of Redis and of the shards stays.
LEMMA LocalMove ==
    ASSUME IInv, NEW m \in Messages, NEW t \in Turn,
           NEW at \in Ended \cup Routing \cup Answering,
           at \in {"quote", "quoteWarm"} => t.quote \in Lines,
           Allowed(at, t),
           pc' = [pc EXCEPT ![m] = at], turn' = [turn EXCEPT ![m] = t],
           StoresTyped',
           UNCHANGED <<row, filed, active, bound, unused, wiped>>
    PROVE  IInv'
<1>1. StayOpen
  BY NothingMoved
<1>2. RowsKept' /\ KeysOpen'
  BY <1>1, KeysStay DEF IInv, Typing, Ownership, RowsKept
<1>3. pc'[m] = at /\ turn'[m] = t
  BY DEF IInv, Typing, CallsTyped
<1>4. Allowed(pc[m], turn[m])'
  BY <1>3 DEF Allowed, Open
<1> QED
  BY <1>1, <1>2, <1>4, OpenMove

\* What is known of a call that is somewhere.
LEMMA Known ==
    ASSUME IInv, NEW m \in Messages, pc[m] # "none"
    PROVE  /\ turn[m] \in Turn
           /\ turn[m].user \in Users
           /\ turn[m].shard \in (Shards \cup {None}) \ unused
           /\ pc[m] \in {"quote", "quoteWarm"} => turn[m].quote \in Lines
           /\ pc[m] = "owner" => turn[m].shard \in Shards
           /\ pc[m] \in Checked => turn[m].shard \in Shards /\ Open(turn[m].shard, turn[m].user)
           /\ pc[m] = "touch" => turn[m].shard \in wiped \/ turn[m].owner = turn[m].user
<1>1. turn[m] \in Turn /\ Allowed(pc[m], turn[m])
  BY DEF IInv, Typing, Ownership, CallsTyped, CallsOpen
<1>2. pc[m] \in {"quote", "quoteWarm"} => turn[m].quote \in Lines
  BY DEF IInv, Typing, CallsTyped
<1> QED
  BY <1>1, <1>2 DEF Allowed, Turn

-----------------------------------------------------------------------------
(***************************************************************************)
(* Routing                                                                 *)
(***************************************************************************)

\* A lookup that finds a shard that was handed out, or none.
LEMMA FoundOwned ==
    ASSUME IInv, NEW m \in Messages, pc[m] # "none",
           NEW s \in (Shards \cup {None}) \ unused,
           NEW hit \in {"owner", "load"}, NEW miss \in {"quoteWarm", "active", "activeWarm", "open"},
           miss = "quoteWarm" => turn[m].quote \in Lines,
           s # None /\ hit = "load" => Open(s, turn[m].user),
           Found(m, s, hit, miss)
    PROVE  IInv'
<1> DEFINE t == [turn[m] EXCEPT !.shard = s]
           at == IF s = None THEN miss ELSE hit
<1>1. turn[m] \in Turn
  BY Known
<1>2. t \in Turn /\ t.shard = s /\ t.user = turn[m].user /\ t.quote = turn[m].quote
  BY <1>1 DEF Turn
<1>3. /\ at \in Ended \cup Routing \cup Answering
      /\ at \in {"quote", "quoteWarm"} => t.quote \in Lines
  BY <1>2 DEF Routing
<1>4. Allowed(at, t)
  BY <1>2 DEF Allowed, Checked, Answering
<1>5. pc' = [pc EXCEPT ![m] = at] /\ turn' = [turn EXCEPT ![m] = t]
  BY DEF Found, Move
<1>6. UNCHANGED <<row, filed, active, bound, unused, wiped, thread, last>>
  BY DEF Found, warm, hot, history
<1>7. StoresTyped'
  BY <1>6 DEF IInv, Typing, StoresTyped
<1> HIDE DEF t, at
<1> QED
  BY <1>2, <1>3, <1>4, <1>5, <1>6, <1>7, LocalMove

\* A quote that Redis knows leads to a shard that was handed out.
LEMMA QuoteHotOwned ==
    ASSUME IInv, NEW m \in Messages, QuoteHot(m) PROVE IInv'
<1>1. pc[m] = "quote" /\ turn[m].quote \in Lines
  BY Known DEF QuoteHot
<1>2. bound[turn[m].quote] \in (Shards \cup {None}) \ unused
  BY <1>1 DEF IInv, Typing, StoresTyped, Ownership, KeysOpen
<1> QED
  BY <1>1, <1>2, FoundOwned DEF QuoteHot

\* A quote that only Postgres knows leads to a shard that was handed out.
LEMMA QuoteWarmOwned ==
    ASSUME IInv, NEW m \in Messages, QuoteWarm(m) PROVE IInv'
<1> DEFINE s == LET q == turn[m].quote IN IF q[1] = "bot" THEN filed[q[2]] ELSE None
<1>1. pc[m] = "quoteWarm" /\ turn[m].quote \in Lines
  BY Known DEF QuoteWarm
<1>2. s \in (Shards \cup {None}) \ unused
  BY <1>1, ShardAssumption DEF IInv, Typing, StoresTyped, Ownership, KeysOpen, Lines
<1>3. Found(m, s, "owner", "active")
  BY DEF QuoteWarm
<1> HIDE DEF s
<1> QED
  BY <1>1, <1>2, <1>3, FoundOwned

\* The active shard that Redis names is the user's own.
LEMMA ActiveHotOwned ==
    ASSUME IInv, NEW m \in Messages, ActiveHot(m) PROVE IInv'
<1>1. pc[m] = "active" /\ turn[m].user \in Users
  BY Known DEF ActiveHot
<1>2. /\ active[turn[m].user] \in (Shards \cup {None}) \ unused
      /\ active[turn[m].user] # None => Open(active[turn[m].user], turn[m].user)
  BY <1>1 DEF IInv, Typing, StoresTyped, Ownership, KeysOpen
<1> QED
  BY <1>1, <1>2, FoundOwned DEF ActiveHot

\* The latest of a user's rows is the user's own.
LEMMA ActiveWarmOwned ==
    ASSUME IInv, NEW m \in Messages, ActiveWarm(m) PROVE IInv'
<1>1. pc[m] = "activeWarm" /\ turn[m].user \in Users
  BY Known DEF ActiveWarm
<1>2. PICK s \in (IF Latest(turn[m].user) = {} THEN {None} ELSE Latest(turn[m].user)) :
        Found(m, s, "load", "open")
  BY DEF ActiveWarm
<1>3. s = None \/ (s \in Shards /\ row[s] = turn[m].user)
  BY <1>2 DEF Latest
<1>4. s \in (Shards \cup {None}) \ unused /\ (s # None => Open(s, turn[m].user))
  BY <1>1, <1>3, ShardAssumption DEF IInv, Typing, StoresTyped, Ownership, RowsKept, Open
<1> QED
  BY <1>1, <1>2, <1>4, FoundOwned

\* A quoted shard without an owner was dropped, for it was handed out.
LEMMA OwnerCheckOwned ==
    ASSUME IInv, NEW m \in Messages, OwnerCheck(m) PROVE IInv'
<1> DEFINE foreign == Foreign(row[turn[m].shard], turn[m].user)
           t == [turn[m] EXCEPT !.reason = IF foreign THEN "reply_foreign_shard"
                                           ELSE "reply_chain"]
           at == IF foreign THEN "open" ELSE "load"
<1>1. /\ pc[m] = "owner" /\ turn[m] \in Turn
      /\ turn[m].shard \in Shards \ unused
  BY Known DEF OwnerCheck
<1>2. t \in Turn /\ t.shard = turn[m].shard /\ t.user = turn[m].user
  BY <1>1 DEF Turn
<1>3. at \in Ended \cup Routing \cup Answering /\ at \notin {"quote", "quoteWarm"}
  BY DEF Routing
<1>4. ~foreign => Open(turn[m].shard, turn[m].user)
  BY <1>1 DEF Foreign, Open, IInv, Ownership, RowsKept
<1>5. Allowed(at, t)
  BY <1>1, <1>2, <1>4 DEF Allowed, Checked, Answering
<1>6. pc' = [pc EXCEPT ![m] = at] /\ turn' = [turn EXCEPT ![m] = t]
  BY DEF OwnerCheck, Move
<1>7. UNCHANGED <<row, filed, active, bound, unused, wiped, thread, last>>
  BY DEF OwnerCheck, warm, hot, history
<1>8. StoresTyped'
  BY <1>7 DEF IInv, Typing, StoresTyped
<1> HIDE DEF foreign, t, at
<1> QED
  BY <1>2, <1>3, <1>5, <1>6, <1>7, <1>8, LocalMove

\* The owner that is read for a shard is its user, or the shard was dropped.
LEMMA LoadOwned ==
    ASSUME IInv, NEW m \in Messages, Load(m) PROVE IInv'
<1> DEFINE t == [turn[m] EXCEPT !.owner = row[turn[m].shard]]
<1>1. /\ pc[m] = "load" /\ turn[m] \in Turn
      /\ turn[m].shard \in Shards \ unused /\ Open(turn[m].shard, turn[m].user)
  BY Known DEF Load, Checked
<1>2. /\ t \in Turn /\ t.shard = turn[m].shard /\ t.user = turn[m].user
      /\ t.owner = row[turn[m].shard]
  BY <1>1 DEF Turn, IInv, Typing, StoresTyped
<1>3. Allowed("touch", t)
  BY <1>1, <1>2 DEF Allowed, Open
<1>4. pc' = [pc EXCEPT ![m] = "touch"] /\ turn' = [turn EXCEPT ![m] = t]
  BY DEF Load, Move
<1>5. UNCHANGED <<row, filed, active, bound, unused, wiped, thread, last>>
  BY DEF Load, warm, hot, history
<1>6. StoresTyped'
  BY <1>5 DEF IInv, Typing, StoresTyped
<1> HIDE DEF t
<1> QED
  BY <1>2, <1>3, <1>4, <1>5, <1>6, LocalMove DEF Routing

-----------------------------------------------------------------------------
(***************************************************************************)
(* The turn                                                                *)
(***************************************************************************)

\* A call past the check that keeps its local variables.
LEMMA StepOwned ==
    ASSUME IInv, NEW m \in Messages, pc[m] \in Checked,
           NEW at \in Answering, pc' = [pc EXCEPT ![m] = at], turn' = turn,
           StoresTyped', UNCHANGED <<row, filed, active, bound, unused, wiped>>
    PROVE  IInv'
<1>1. pc[m] # "none" /\ at \notin {"none", "failed", "owner", "touch", "quote", "quoteWarm"}
  BY DEF Checked, Answering
<1>2. /\ turn[m] \in Turn /\ turn[m].shard \in Shards \ unused
      /\ Open(turn[m].shard, turn[m].user)
  BY <1>1, Known
<1>3. Allowed(at, turn[m])
  BY <1>1, <1>2 DEF Allowed
<1>4. turn' = [turn EXCEPT ![m] = turn[m]]
  BY DEF IInv, Typing, CallsTyped
<1> QED
  BY <1>1, <1>2, <1>3, <1>4, LocalMove

\* A handler that ends.
LEMMA FinishOwned ==
    ASSUME IInv, NEW m \in Messages, pc[m] \in Answering, NEW at \in {"done", "failed"},
           at = "failed" => turn[m].shard \in wiped,
           Finish(m, at), thread' \in [Shards -> SUBSET Lines],
           UNCHANGED <<row, filed, active, bound, unused>>
    PROVE  IInv'
<1> DEFINE t == [turn[m] EXCEPT !.held = {}, !.quote = None, !.alone = FALSE,
                                !.direct = FALSE]
<1>1. pc[m] # "none" /\ pc[m] \in Checked
  BY DEF Checked, Answering
<1>2. /\ turn[m] \in Turn /\ turn[m].shard \in Shards \ unused /\ turn[m].user \in Users
      /\ Open(turn[m].shard, turn[m].user)
  BY <1>1, Known
<1>3. t \in Turn /\ t.shard = turn[m].shard /\ t.user = turn[m].user
  BY <1>2 DEF Turn
<1>4. Allowed(at, t)
  BY <1>2, <1>3 DEF Allowed
<1>5. pc' = [pc EXCEPT ![m] = at] /\ UNCHANGED wiped
  BY DEF Finish, Move
<1>6. turn' = [turn EXCEPT ![m] = t]
  BY DEF Finish
<1>7. last' \in [Users -> Shards \cup {None}]
  BY <1>2 DEF Finish, IInv, Typing, StoresTyped
<1>8. StoresTyped'
  BY <1>7 DEF IInv, Typing, StoresTyped
<1>9. at \in Ended \cup Routing \cup Answering /\ at \notin {"quote", "quoteWarm"}
  BY DEF Ended
<1> HIDE DEF t
<1> QED
  BY <1>3, <1>4, <1>5, <1>6, <1>8, <1>9, LocalMove

\* Recording the session moves the message and nothing the invariant names.
LEMMA EnsureSessionOwned ==
    ASSUME IInv, NEW m \in Messages, EnsureSession(m) PROVE IInv'
<1> DEFINE t == [turn[m] EXCEPT !.due = None, !.owner = None, !.reason = ""]
<1>1. /\ turn[m] \in Turn /\ turn[m].shard \in Shards \ unused
      /\ Open(turn[m].shard, turn[m].user)
  BY Known DEF EnsureSession, Checked, Answering
<1>2. t \in Turn /\ t.shard = turn[m].shard /\ t.user = turn[m].user
  BY <1>1 DEF Turn
<1>3. Allowed("hear", t)
  BY <1>1, <1>2 DEF Allowed
<1>4. pc' = [pc EXCEPT ![m] = "hear"] /\ turn' = [turn EXCEPT ![m] = t]
  BY DEF EnsureSession, Move
<1>5. UNCHANGED <<row, filed, active, bound, unused, wiped, thread, last>>
  BY DEF EnsureSession, hot, history
<1>6. StoresTyped'
  BY <1>5 DEF IInv, Typing, StoresTyped
<1> HIDE DEF t
<1> QED
  BY <1>2, <1>3, <1>4, <1>5, <1>6, LocalMove DEF Answering

\* A run of the graph starts in the shard the message is in.
LEMMA InvokeOwned ==
    ASSUME IInv, NEW m \in Messages, Invoke(m) PROVE IInv'
<1> DEFINE t == [turn[m] EXCEPT !.held = thread[turn[m].shard] \cup {<<"user", m>>}]
<1>1. /\ turn[m] \in Turn /\ turn[m].shard \in Shards \ unused
      /\ Open(turn[m].shard, turn[m].user)
  BY Known DEF Invoke, Checked, Answering
<1>2. thread[turn[m].shard] \cup {<<"user", m>>} \in SUBSET Lines
  BY <1>1 DEF IInv, Typing, StoresTyped, Lines
<1>3. t \in Turn /\ t.shard = turn[m].shard /\ t.user = turn[m].user
  BY <1>1, <1>2 DEF Turn
<1>4. Allowed("model", t)
  BY <1>1, <1>3 DEF Allowed
<1>5. /\ pc' = [pc EXCEPT ![m] = "model"] /\ turn' = [turn EXCEPT ![m] = t]
      /\ thread' = [thread EXCEPT ![turn[m].shard] = @ \cup {<<"user", m>>}]
  BY DEF Invoke, Move
<1>6. UNCHANGED <<row, filed, active, bound, unused, wiped, last>>
  BY DEF Invoke, hot, history
<1>7. StoresTyped'
  BY <1>1, <1>2, <1>5, <1>6 DEF IInv, Typing, StoresTyped
<1> HIDE DEF t
<1> QED
  BY <1>3, <1>4, <1>5, <1>6, <1>7, LocalMove DEF Answering

\* A run of the graph ends in the shard the message is in.
LEMMA ModelOwned ==
    ASSUME IInv, NEW m \in Messages, Model(m) PROVE IInv'
<1>1. pc[m] \in Checked /\ turn[m] \in Turn /\ turn[m].shard \in Shards
  BY Known DEF Model, Checked, Answering
<1>2. /\ UNCHANGED <<row, filed, active, bound, unused, wiped, last, turn>>
      /\ \/ UNCHANGED thread
         \/ thread' = [thread EXCEPT ![turn[m].shard] = turn[m].held \cup {<<"bot", m>>}]
      /\ \E at \in {"send", "silent"} : pc' = [pc EXCEPT ![m] = at]
  BY DEF Model, Move, hot, history
<1>3. turn[m].held \in SUBSET Lines /\ <<"bot", m>> \in Lines
  <2>1. turn[m].held \in SUBSET Lines
    BY <1>1 DEF Turn
  <2>2. <<"bot", m>> \in Lines
    BY DEF Lines
  <2> QED
    BY <2>1, <2>2
<1>4. StoresTyped'
  BY <1>1, <1>2, <1>3 DEF IInv, Typing, StoresTyped
<1> QED
  BY <1>1, <1>2, <1>4, StepOwned DEF Answering

\* The other steps of the answer that leave the routing alone.
LEMMA QuietOwned ==
    ASSUME IInv, NEW m \in Messages,
           HearWarm(m) \/ RowGone(m) \/ Silent(m) \/ Send(m) \/ SayWarm(m)
    PROVE  IInv'
<1>1. CASE HearWarm(m)
  <2>1. /\ pc[m] \in Checked /\ pc' = [pc EXCEPT ![m] = "invoke"]
        /\ UNCHANGED <<row, filed, active, bound, unused, wiped, thread, last, turn>>
    BY <1>1 DEF HearWarm, AppendWarm, Move, hot, history, Checked, Answering
  <2>2. StoresTyped'
    BY <2>1 DEF IInv, Typing, StoresTyped
  <2> QED
    BY <2>1, <2>2, StepOwned DEF Answering
<1>2. CASE Send(m)
  <2>1. /\ pc[m] \in Checked /\ pc' = [pc EXCEPT ![m] = "file"]
        /\ UNCHANGED <<row, filed, active, bound, unused, wiped, thread, last, turn>>
    BY <1>2 DEF Send, Move, warm, hot, history, Checked, Answering
  <2>2. StoresTyped'
    BY <2>1 DEF IInv, Typing, StoresTyped
  <2> QED
    BY <2>1, <2>2, StepOwned DEF Answering
<1>3. CASE RowGone(m)
  <2>1. /\ pc[m] \in Answering /\ Finish(m, "failed")
        /\ UNCHANGED <<row, filed, active, bound, unused, thread>>
    BY <1>3 DEF RowGone, warm, hot, Answering
  <2>2. turn[m].shard \in Shards \ unused
    BY <2>1, Known DEF Checked, Answering
  <2>3. turn[m].shard \in wiped
    BY <1>3, <2>2 DEF RowGone, IInv, Ownership, RowsKept
  <2> QED
    BY <2>1, <2>3, FinishOwned DEF IInv, Typing, StoresTyped
<1>4. CASE SayWarm(m)
  <2>1. /\ pc[m] \in Answering /\ Finish(m, "done")
        /\ UNCHANGED <<row, filed, active, bound, unused, thread>>
    BY <1>4 DEF SayWarm, AppendWarm, hot, Answering
  <2> QED
    BY <2>1, FinishOwned DEF IInv, Typing, StoresTyped
<1>5. CASE Silent(m)
  <2>1. /\ pc[m] \in Answering /\ Finish(m, "done")
        /\ UNCHANGED <<row, filed, active, bound, unused>>
        /\ thread' = [thread EXCEPT ![turn[m].shard] = @ \ {<<"bot", m>>}]
    BY <1>5 DEF Silent, hot, Answering
  <2>2. thread' \in [Shards -> SUBSET Lines]
    BY <2>1 DEF IInv, Typing, StoresTyped
  <2> QED
    BY <2>1, <2>2, FinishOwned
<1> QED
  BY <1>1, <1>2, <1>3, <1>4, <1>5

-----------------------------------------------------------------------------
(***************************************************************************)
(* Steps that write a shard or a key                                       *)
(***************************************************************************)

\* The owner that is written back is the user, unless the shard was dropped.
LEMMA TouchOwned ==
    ASSUME IInv, NEW m \in Messages, Touch(m) PROVE IInv'
<1> DEFINE t == turn[m]
           o == IF t.owner = None THEN t.user ELSE t.owner
<1>1. /\ pc[m] = "touch" /\ t \in Turn /\ t.user \in Users /\ t.shard \in Shards \ unused
      /\ Open(t.shard, t.user) /\ (t.shard \in wiped \/ t.owner = t.user)
  BY Known DEF Touch, Checked
<1>2. o \in Users /\ o # None /\ (t.shard \in wiped \/ o = t.user)
  BY <1>1, ShardAssumption DEF Turn
<1>3. /\ row' = [row EXCEPT ![t.shard] = o]
      /\ UNCHANGED <<filed, active, bound, unused, wiped, thread, last, turn>>
      /\ pc' = [pc EXCEPT ![m] = "activate"]
  BY DEF Touch, Upsert, Move, hot, history
<1> HIDE DEF o
<1>4. StoresTyped'
  BY <1>2, <1>3 DEF IInv, Typing, StoresTyped
<1>5. StayOpen
  BY <1>1, <1>2, <1>3 DEF StayOpen, Open, IInv, Typing, StoresTyped
<1>6. RowsKept'
  BY <1>1, <1>2, <1>3 DEF RowsKept, IInv, Typing, StoresTyped, Ownership
<1>7. KeysOpen'
  BY <1>3, <1>5, KeysStay DEF IInv, Typing, Ownership
<1>8. pc'[m] = "activate" /\ turn'[m] = turn[m] /\ turn' = [turn EXCEPT ![m] = turn[m]]
  BY <1>3 DEF IInv, Typing, CallsTyped
<1>9. Allowed(pc[m], turn[m])'
  BY <1>1, <1>2, <1>3, <1>5, <1>8 DEF Allowed, StayOpen, Open
<1> QED
  BY <1>1, <1>3, <1>4, <1>5, <1>6, <1>7, <1>8, <1>9, OpenMove DEF Routing

\* The shard that becomes active is the user's own.
LEMMA ActivateOwned ==
    ASSUME IInv, NEW m \in Messages, Activate(m) PROVE IInv'
<1>1. /\ pc[m] = "activate" /\ turn[m] \in Turn /\ turn[m].user \in Users
      /\ turn[m].shard \in Shards \ unused /\ Open(turn[m].shard, turn[m].user)
  BY Known DEF Activate, Checked
<1>2. /\ active' = [active EXCEPT ![turn[m].user] = turn[m].shard]
      /\ UNCHANGED <<row, filed, bound, unused, wiped, thread, last>>
  BY DEF Activate, warm, history
<1>3. StoresTyped'
  BY <1>1, <1>2 DEF IInv, Typing, StoresTyped
<1>4. StayOpen /\ RowsKept'
  BY <1>2, NothingMoved DEF RowsKept, IInv, Ownership
<1>5. KeysOpen'
  BY <1>1, <1>2 DEF KeysOpen, Open, IInv, Typing, StoresTyped, Ownership
<1>6. CASE /\ turn' = [turn EXCEPT ![m].reason = IF @ = "" THEN "user_active" ELSE @]
           /\ Move(m, "session")
  <2> DEFINE t == [turn[m] EXCEPT !.reason = IF @ = "" THEN "user_active" ELSE @]
  <2>1. t \in Turn /\ t.shard = turn[m].shard /\ t.user = turn[m].user
    BY <1>1 DEF Turn
  <2>2. pc' = [pc EXCEPT ![m] = "session"] /\ turn' = [turn EXCEPT ![m] = t]
    BY <1>6 DEF Move
  <2> HIDE DEF t
  <2>3. pc'[m] = "session" /\ turn'[m] = t
    BY <2>2 DEF IInv, Typing, CallsTyped
  <2>4. Allowed(pc[m], turn[m])'
    BY <1>1, <1>2, <2>1, <2>3 DEF Allowed, Open
  <2> QED
    BY <1>3, <1>4, <1>5, <2>1, <2>2, <2>4, OpenMove DEF Answering
<1>7. CASE /\ turn' = [turn EXCEPT ![m].reason = "topic_drift", ![m].direct = TRUE]
           /\ Move(m, "open")
  <2> DEFINE t == [turn[m] EXCEPT !.reason = "topic_drift", !.direct = TRUE]
  <2>1. t \in Turn /\ t.shard = turn[m].shard /\ t.user = turn[m].user
    BY <1>1 DEF Turn
  <2>2. pc' = [pc EXCEPT ![m] = "open"] /\ turn' = [turn EXCEPT ![m] = t]
    BY <1>7 DEF Move
  <2> HIDE DEF t
  <2>3. pc'[m] = "open" /\ turn'[m] = t
    BY <2>2 DEF IInv, Typing, CallsTyped
  <2>4. Allowed(pc[m], turn[m])'
    BY <1>1, <1>2, <2>1, <2>3 DEF Allowed, Open
  <2> QED
    BY <1>3, <1>4, <1>5, <2>1, <2>2, <2>4, OpenMove DEF Routing
<1> QED
  BY <1>6, <1>7 DEF Activate

\* A new shard belongs to the user it was opened for.
LEMMA NewShardOwned ==
    ASSUME IInv, NEW m \in Messages, NewShard(m) PROVE IInv'
<1>1. pc[m] = "open" /\ turn[m] \in Turn /\ turn[m].user \in Users
  BY Known DEF NewShard
<1>2. PICK s \in unused :
        /\ Upsert(s, turn[m].user)
        /\ unused' = unused \ {s}
        /\ turn' = [turn EXCEPT ![m].shard = s,
                                ![m].reason = IF @ = "" THEN "new_user_topic" ELSE @]
  BY DEF NewShard
<1> DEFINE t == [turn[m] EXCEPT !.shard = s,
                                !.reason = IF @ = "" THEN "new_user_topic" ELSE @]
<1>3. s \in Shards
  BY DEF IInv, Typing, StoresTyped
<1>4. t \in Turn /\ t.shard = s /\ t.user = turn[m].user
  BY <1>1, <1>3 DEF Turn
<1>5. /\ row' = [row EXCEPT ![s] = turn[m].user]
      /\ UNCHANGED <<filed, active, bound, wiped, thread, last>>
      /\ pc' = [pc EXCEPT ![m] = "activate"] /\ turn' = [turn EXCEPT ![m] = t]
  BY <1>2 DEF NewShard, Upsert, Move, hot, history
<1> HIDE DEF t
<1>6. StoresTyped'
  BY <1>1, <1>2, <1>3, <1>5 DEF IInv, Typing, StoresTyped
<1>7. StayOpen
  BY <1>2, <1>3, <1>5 DEF StayOpen, Open, IInv, Typing, StoresTyped
<1>8. RowsKept'
  BY <1>1, <1>2, <1>3, <1>5, ShardAssumption
     DEF RowsKept, IInv, Typing, StoresTyped, Ownership
<1>9. KeysOpen'
  BY <1>5, <1>7, KeysStay DEF IInv, Typing, Ownership
<1>10. pc'[m] = "activate" /\ turn'[m] = t /\ row'[s] = turn[m].user
  BY <1>3, <1>5 DEF IInv, Typing, CallsTyped, StoresTyped
<1>11. s \notin unused'
  BY <1>2
<1>12. Allowed(pc[m], turn[m])'
  BY <1>3, <1>4, <1>10, <1>11 DEF Allowed, Open
<1> QED
  BY <1>4, <1>5, <1>6, <1>7, <1>8, <1>9, <1>12, OpenMove DEF Routing

\* A line is bound to the shard its message is in.
LEMMA AppendHotOwned ==
    ASSUME IInv, NEW m \in Messages, NEW line \in Lines, pc[m] \in Answering,
           NEW at \in {"hearWarm", "sayWarm"}, AppendHot(m, line, at)
    PROVE  IInv'
<1>1. /\ turn[m] \in Turn /\ turn[m].user \in Users /\ turn[m].shard \in Shards \ unused
      /\ Open(turn[m].shard, turn[m].user)
  BY Known DEF Checked, Answering
<1>2. /\ active' = [active EXCEPT ![turn[m].user] = turn[m].shard]
      /\ bound' = [bound EXCEPT ![line] = turn[m].shard]
      /\ pc' = [pc EXCEPT ![m] = at]
      /\ UNCHANGED <<row, filed, unused, wiped, thread, last, turn>>
  BY DEF AppendHot, Move, warm, history
<1>3. StoresTyped'
  BY <1>1, <1>2 DEF IInv, Typing, StoresTyped
<1>4. StayOpen /\ RowsKept'
  BY <1>2, NothingMoved DEF RowsKept, IInv, Ownership
<1>5. KeysOpen'
  BY <1>1, <1>2 DEF KeysOpen, Open, IInv, Typing, StoresTyped, Ownership
<1>6. pc'[m] = at /\ turn'[m] = turn[m] /\ turn' = [turn EXCEPT ![m] = turn[m]]
  BY <1>2 DEF IInv, Typing, CallsTyped
<1>7. Allowed(pc[m], turn[m])'
  BY <1>1, <1>2, <1>6 DEF Allowed, Open
<1>8. at \in Answering /\ at \notin {"quote", "quoteWarm"}
  BY DEF Answering
<1> QED
  BY <1>1, <1>2, <1>3, <1>4, <1>5, <1>6, <1>7, <1>8, OpenMove

\* A reply is filed under the shard its message is in.
LEMMA FileOwned ==
    ASSUME IInv, NEW m \in Messages, File(m) PROVE IInv'
<1>1. /\ turn[m] \in Turn /\ turn[m].user \in Users /\ turn[m].shard \in Shards \ unused
      /\ Open(turn[m].shard, turn[m].user)
  BY Known DEF File, Checked, Answering
<1>2. /\ filed' = [filed EXCEPT ![m] = turn[m].shard]
      /\ pc' = [pc EXCEPT ![m] = "say"]
      /\ UNCHANGED <<row, active, bound, unused, wiped, thread, last, turn>>
  BY DEF File, Move, hot, history
<1>3. StoresTyped'
  BY <1>1, <1>2 DEF IInv, Typing, StoresTyped
<1>4. StayOpen /\ RowsKept'
  BY <1>2, NothingMoved DEF RowsKept, IInv, Ownership
<1>5. KeysOpen'
  BY <1>1, <1>2 DEF KeysOpen, Open, IInv, Typing, StoresTyped, Ownership
<1>6. pc'[m] = "say" /\ turn'[m] = turn[m] /\ turn' = [turn EXCEPT ![m] = turn[m]]
  BY <1>2 DEF IInv, Typing, CallsTyped
<1>7. Allowed(pc[m], turn[m])'
  BY <1>1, <1>2, <1>6 DEF Allowed, Open
<1> QED
  BY <1>1, <1>2, <1>3, <1>4, <1>5, <1>6, <1>7, OpenMove DEF Answering

-----------------------------------------------------------------------------
(***************************************************************************)
(* Messages that come, /clear and faults                                   *)
(***************************************************************************)

\* A message that comes has no shard yet; the calls of its user keep theirs.
LEMMA ReceiveOwned ==
    ASSUME IInv, NEW m \in Messages, Receive(m) PROVE IInv'
<1>1. PICK u \in Users, q \in Quotable \cup {None} :
         /\ turn' = [n \in Messages |->
              CASE n = m -> [user |-> u, quote |-> q, shard |-> None,
                             direct |-> q # None /\ (q[1] = "bot" \/ bound[q] # None),
                             owner |-> None, reason |-> "", held |-> {},
                             alone |-> ~Busy(u),
                             due |-> IF Busy(u) THEN None ELSE Home(u, q)]
                [] n # m /\ InFlight(n) /\ turn[n].user = u
                     -> [turn[n] EXCEPT !.alone = FALSE, !.due = None]
                [] OTHER -> turn[n]]
         /\ Move(m, IF q = None THEN "active" ELSE "quote")
  BY DEF Receive
<1> DEFINE at == IF q = None THEN "active" ELSE "quote"
<1>2. pc[m] = "none" /\ pc' = [pc EXCEPT ![m] = at]
  BY <1>1 DEF Receive, Move
<1>3. UNCHANGED <<row, filed, active, bound, unused, wiped, thread, last>>
  BY DEF Receive, warm, hot, history
<1>4. Home(u, q) \in Shards \cup {None}
  <2>1. CASE q = None
    BY <2>1 DEF Home, IInv, Typing, StoresTyped
  <2>2. CASE q # None /\ q[1] = "bot" /\ pc[q[2]] = "done" /\ turn[q[2]].user = u
    <3>1. q[2] \in Messages
      BY <2>2 DEF Quotable, Lines
    <3>2. turn[q[2]].shard \in Shards \cup {None}
      BY <2>2, <3>1, Known
    <3> QED
      BY <2>2, <3>2 DEF Home
  <2> QED
    BY <2>1, <2>2 DEF Home
<1>5. /\ turn'[m] \in Turn /\ turn'[m].shard = None /\ turn'[m].quote = q
      /\ pc'[m] = at
  <2> DEFINE b == q # None /\ (q[1] = "bot" \/ bound[q] # None)
             a == ~Busy(u)
             d == IF Busy(u) THEN None ELSE Home(u, q)
  <2>1. b \in BOOLEAN /\ a \in BOOLEAN /\ d \in Shards \cup {None}
    BY <1>4
  <2>2. turn'[m] = [user |-> u, quote |-> q, shard |-> None, direct |-> b, owner |-> None,
                    reason |-> "", held |-> {}, alone |-> a, due |-> d]
    BY <1>1
  <2> HIDE DEF a, b, d
  <2>3. q \in Lines \cup {None}
    BY DEF Quotable
  <2>4. pc'[m] = at
    BY <1>2 DEF IInv, Typing, CallsTyped
  <2>5. PICK c \in BOOLEAN, e \in BOOLEAN, f \in Shards \cup {None},
              t \in {turn'[m]} :
           t = [user |-> u, quote |-> q, shard |-> None, direct |-> c, owner |-> None,
                reason |-> "", held |-> {}, alone |-> e, due |-> f]
    BY <2>1, <2>2, Zenon
  <2>6. t = [user |-> u, quote |-> q, shard |-> None, direct |-> c, owner |-> None,
             reason |-> "", held |-> {}, alone |-> e, due |-> f]
    BY <2>5, Zenon
  <2>7. t \in Turn /\ t.shard = None /\ t.quote = q
    BY ONLY <2>3, <2>6, u \in Users, c \in BOOLEAN, e \in BOOLEAN, f \in Shards \cup {None} DEF Turn
  <2> QED
    BY <2>4, <2>5, <2>7, Zenon
<1> DEFINE Kept(n) == /\ turn'[n] \in Turn
                      /\ turn'[n].shard = turn[n].shard
                      /\ turn'[n].user = turn[n].user
                      /\ turn'[n].owner = turn[n].owner
                      /\ turn'[n].quote = turn[n].quote
<1>6. ASSUME NEW n \in Messages \ {m}
      PROVE  /\ pc'[n] = pc[n]
             /\ turn'[n] = turn[n] \/ (pc[n] # "none" /\ Kept(n))
  <2>1. pc'[n] = pc[n]
    BY <1>2 DEF IInv, Typing, CallsTyped
  <2>2. CASE InFlight(n) /\ turn[n].user = u
    <3>1. turn'[n] = [turn[n] EXCEPT !.alone = FALSE, !.due = None]
      BY <1>1, <2>2
    <3>2. pc[n] # "none"
      BY <2>2 DEF InFlight, Ended
    <3>3. turn[n] \in Turn
      BY <3>2, Known
    <3> QED
      BY <2>1, <3>1, <3>2, <3>3 DEF Turn
  <2>3. CASE ~(InFlight(n) /\ turn[n].user = u)
    <3>1. turn'[n] = turn[n]
      BY <1>1, <2>3
    <3> QED
      BY <2>1, <3>1
  <2> QED
    BY <2>2, <2>3
<1>7. CallsTyped'
  <2>1. pc' \in [Messages -> Ended \cup Routing \cup Answering]
    BY <1>2 DEF Routing, IInv, Typing, CallsTyped
  <2>2. at = "quote" => q \in Lines
    BY DEF Quotable
  <2>3. \A n \in Messages :
          /\ turn'[n] \in Turn \cup {None}
          /\ pc'[n] # "none" => turn'[n] \in Turn
          /\ pc'[n] \in {"quote", "quoteWarm"} => turn'[n].quote \in Lines
    <3> SUFFICES ASSUME NEW n \in Messages
        PROVE  /\ turn'[n] \in Turn \cup {None}
               /\ pc'[n] # "none" => turn'[n] \in Turn
               /\ pc'[n] \in {"quote", "quoteWarm"} => turn'[n].quote \in Lines
      OBVIOUS
    <3>1. CASE n = m
      BY <3>1, <1>5, <2>2
    <3>2. CASE n # m
      BY <3>2, <1>6 DEF IInv, Typing, CallsTyped
    <3> QED
      BY <3>1, <3>2
  <2>4. turn' = [n \in Messages |-> turn'[n]]
    BY <1>1
  <2>5. turn' \in [Messages -> Turn \cup {None}]
    BY <2>3, <2>4
  <2> QED
    BY <2>1, <2>3, <2>5 DEF CallsTyped
<1>8. CallsOpen'
  <2> SUFFICES ASSUME NEW n \in Messages PROVE Allowed(pc[n], turn[n])'
    BY DEF CallsOpen
  <2>1. CASE n = m
    BY <2>1, <1>3, <1>5, ShardAssumption
       DEF Allowed, Checked, Answering, IInv, Typing, StoresTyped
  <2>2. CASE n # m
    <3>1. Allowed(pc[n], turn[n])
      BY DEF IInv, Ownership, CallsOpen
    <3>2. /\ pc'[n] = pc[n] /\ (turn'[n] = turn[n] \/ Kept(n))
      BY <1>6, <2>2
    <3> HIDE DEF at
    <3>3. UNCHANGED <<row, unused, wiped>>
      BY <1>3
    <3> QED
      BY <3>1, <3>2, <3>3 DEF Allowed, Open
  <2> QED
    BY <2>1, <2>2
<1> QED
  BY <1>3, <1>7, <1>8 DEF IInv, Typing, StoresTyped, Ownership, RowsKept, KeysOpen, Open

\* A /clear and the faults do not move a call, other than to cut it off.
LEMMA NoCallMoves ==
    ASSUME IInv, StayOpen, StoresTyped', UNCHANGED <<pc, turn>>
    PROVE  CallsTyped' /\ CallsOpen'
<1>1. CallsTyped'
  BY DEF IInv, Typing, CallsTyped
<1>2. CallsOpen'
  BY CallsStay DEF IInv, Typing, Ownership
<1> QED
  BY <1>1, <1>2

\* The bookkeeping of a user's turns touches the history only.
LEMMA ClearBeginsOwned ==
    ASSUME IInv, NEW o \in Owners, ClearBegins(o) PROVE IInv'
<1>1. /\ UNCHANGED <<row, filed, active, bound, unused, wiped, thread, pc>>
      /\ last' = [last EXCEPT ![o] = None]
      /\ turn' = [m \in Messages |-> IF InFlight(m) /\ turn[m].user = o
                     THEN [turn[m] EXCEPT !.alone = FALSE, !.due = None] ELSE turn[m]]
  BY DEF ClearBegins, warm, hot
<1>2. StoresTyped'
  BY <1>1 DEF IInv, Typing, StoresTyped
<1>3. StayOpen /\ RowsKept'
  BY <1>1, NothingMoved DEF RowsKept, IInv, Ownership
<1>4. KeysOpen'
  BY <1>1, <1>3, KeysStay DEF IInv, Typing, Ownership
<1>5. ASSUME NEW m \in Messages
      PROVE  \/ turn'[m] = turn[m]
             \/ /\ turn'[m] \in Turn /\ pc[m] # "none"
                /\ turn'[m].shard = turn[m].shard /\ turn'[m].user = turn[m].user
                /\ turn'[m].owner = turn[m].owner /\ turn'[m].quote = turn[m].quote
  <2>1. CASE InFlight(m) /\ turn[m].user = o
    <3>1. turn'[m] = [turn[m] EXCEPT !.alone = FALSE, !.due = None]
      BY <1>1, <2>1
    <3>2. pc[m] # "none"
      BY <2>1 DEF InFlight, Ended
    <3>3. turn[m] \in Turn
      BY <3>2, Known
    <3> QED
      BY <3>1, <3>2, <3>3 DEF Turn
  <2>2. CASE ~(InFlight(m) /\ turn[m].user = o)
    BY <1>1, <2>2
  <2> QED
    BY <2>1, <2>2
<1>6. CallsTyped'
  <2>1. /\ turn' = [m \in Messages |-> turn'[m]]
        /\ \A m \in Messages : turn'[m] \in Turn \cup {None}
    BY <1>1, <1>5 DEF IInv, Typing, CallsTyped
  <2>2. turn' \in [Messages -> Turn \cup {None}]
    BY <2>1
  <2> QED
    BY <1>1, <1>5, <2>2 DEF IInv, Typing, CallsTyped
<1>7. CallsOpen'
  BY <1>1, <1>3, <1>5, CallsStay DEF IInv, Typing, Ownership
<1> QED
  BY <1>2, <1>3, <1>4, <1>6, <1>7 DEF IInv, Typing, Ownership

\* The rows a /clear drops belong to shards that are now dropped.
LEMMA ClearRowsOwned ==
    ASSUME IInv, NEW o \in Owners, ClearRows(o) PROVE IInv'
<1> DEFINE dropped == {s \in Shards : row[s] = o}
<1>1. /\ row' = [s \in Shards |-> IF s \in dropped THEN None ELSE row[s]]
      /\ wiped' = wiped \cup dropped \cup clr[o].threads
      /\ UNCHANGED <<filed, active, bound, unused, thread, last, pc, turn>>
  BY DEF ClearRows, ClearStep, hot
<1>2. StoresTyped'
  BY <1>1 DEF IInv, Typing, StoresTyped
<1>3. StayOpen
  BY <1>1 DEF StayOpen, Open
<1>4. RowsKept'
  BY <1>1 DEF RowsKept, IInv, Ownership
<1>5. KeysOpen'
  BY <1>1, <1>3, KeysStay DEF IInv, Typing, Ownership
<1>6. CallsTyped' /\ CallsOpen'
  BY <1>1, <1>2, <1>3, NoCallMoves
<1> QED
  BY <1>2, <1>4, <1>5, <1>6 DEF IInv, Typing, Ownership

\* The other steps of a /clear, and keys that expire: Redis knows less.
LEMMA LessKnownOwned ==
    ASSUME IInv, UNCHANGED <<row, filed, unused, wiped, last, pc, turn>>,
           thread' \in [Shards -> SUBSET Lines],
           \/ UNCHANGED <<active, bound>>
           \/ \E u \in Users : active' = [active EXCEPT ![u] = None] /\ UNCHANGED bound
           \/ \E l \in Lines : bound' = [bound EXCEPT ![l] = None] /\ UNCHANGED active
    PROVE  IInv'
<1>1. StoresTyped'
  BY DEF IInv, Typing, StoresTyped
<1>2. StayOpen /\ RowsKept'
  BY NothingMoved DEF RowsKept, IInv, Ownership
<1>3. None \notin unused
  BY ShardAssumption DEF IInv, Typing, StoresTyped
<1>4. KeysOpen'
  BY <1>3 DEF KeysOpen, Open, IInv, Typing, StoresTyped, Ownership
<1>5. CallsTyped' /\ CallsOpen'
  BY <1>1, <1>2, NoCallMoves
<1> QED
  BY <1>1, <1>2, <1>4, <1>5 DEF IInv, Typing, Ownership

\* A step of /clear drops shards and keys, and gives none to anybody.
LEMMA ClearingOwned ==
    ASSUME IInv, NEW o \in Owners, Clearing(o) PROVE IInv'
<1>1. thread \in [Shards -> SUBSET Lines] /\ o \in Users
  BY ShardAssumption DEF IInv, Typing, StoresTyped
<1>2. CASE ClearSessions(o) \/ ClearActive(o) \/ ClearConv(o)
  <2>1. UNCHANGED <<row, filed, unused, wiped, last, pc, turn, thread, active, bound>>
    BY <1>2 DEF ClearSessions, ClearActive, ClearConv, ClearStep, warm, hot, history
  <2> QED
    BY <1>1, <2>1, LessKnownOwned
<1>3. CASE ClearDrop(o)
  <2>1. /\ UNCHANGED <<row, filed, unused, wiped, last, pc, turn, thread, bound>>
        /\ active' = [active EXCEPT ![o] = None]
    BY <1>3 DEF ClearDrop, ClearStep, warm, history
  <2> QED
    BY <1>1, <2>1, LessKnownOwned
<1>4. CASE ClearThreads(o)
  <2>1. /\ UNCHANGED <<row, filed, unused, wiped, last, pc, turn, active, bound>>
        /\ thread' = thread \/ \E s \in clr[o].threads : thread' = [thread EXCEPT ![s] = {}]
    BY <1>4 DEF ClearThreads, ClearStep, warm, hot, history
  <2>2. thread' \in [Shards -> SUBSET Lines]
    BY <1>1, <2>1
  <2> QED
    BY <2>1, <2>2, LessKnownOwned
<1> QED
  BY <1>2, <1>3, <1>4, ClearBeginsOwned, ClearRowsOwned DEF Clearing

\* A key that expires leads nowhere.
LEMMA ExpireOwned ==
    ASSUME IInv, Expire PROVE IInv'
<1>1. /\ UNCHANGED <<row, filed, unused, wiped, last, pc, turn, thread>>
      /\ \/ \E u \in Users : active' = [active EXCEPT ![u] = None] /\ UNCHANGED bound
         \/ \E l \in Lines : bound' = [bound EXCEPT ![l] = None] /\ UNCHANGED active
  BY DEF Expire, warm, process, history
<1>2. thread' \in [Shards -> SUBSET Lines]
  BY <1>1 DEF IInv, Typing, StoresTyped
<1> QED
  BY <1>1, <1>2, LessKnownOwned

\* A call that a crash cuts off keeps the shard it had.
LEMMA CrashOwned ==
    ASSUME IInv, Crash PROVE IInv'
<1> DEFINE cut(m) == [turn[m] EXCEPT !.held = {}, !.quote = None, !.owner = None,
                                     !.reason = "", !.direct = FALSE, !.alone = FALSE,
                                     !.due = None]
<1>1. /\ UNCHANGED <<row, filed, active, bound, unused, wiped, thread>>
      /\ pc' = [m \in Messages |-> IF InFlight(m) THEN "lost" ELSE pc[m]]
  BY DEF Crash, warm, hot
<1>2. turn' = [m \in Messages |-> IF InFlight(m) THEN cut(m) ELSE turn[m]]
  BY DEF Crash
<1>3. StoresTyped'
  <2>1. last' = [u \in Users |-> IF \E m \in Messages : InFlight(m) /\ turn[m].user = u
                                  THEN None ELSE last[u]]
    BY DEF Crash
  <2>2. last' \in [Users -> Shards \cup {None}]
    BY <2>1 DEF IInv, Typing, StoresTyped
  <2> QED
    BY <1>1, <2>2 DEF IInv, Typing, StoresTyped
<1>4. StayOpen /\ RowsKept'
  BY <1>1, NothingMoved DEF RowsKept, IInv, Ownership
<1>5. KeysOpen'
  BY <1>1, <1>4, KeysStay DEF IInv, Typing, Ownership
<1>6. ASSUME NEW m \in Messages
      PROVE  \/ turn'[m] = turn[m] /\ pc'[m] = pc[m] /\ pc[m] \in Ended
             \/ /\ pc'[m] = "lost" /\ pc[m] # "none" /\ turn'[m] \in Turn
                /\ turn'[m].shard = turn[m].shard /\ turn'[m].user = turn[m].user
  <2>1. CASE InFlight(m)
    <3>1. turn'[m] = cut(m) /\ pc'[m] = "lost"
      BY <1>1, <1>2, <2>1
    <3>2. pc[m] # "none"
      BY <2>1 DEF InFlight, Ended
    <3>3. turn[m] \in Turn
      BY <3>2, Known
    <3>4. cut(m) \in Turn /\ cut(m).shard = turn[m].shard /\ cut(m).user = turn[m].user
      BY <3>3 DEF Turn
    <3> HIDE DEF cut
    <3> QED
      BY <3>1, <3>2, <3>4
  <2>2. CASE ~InFlight(m)
    BY <1>1, <1>2, <2>2 DEF InFlight
  <2> QED
    BY <2>1, <2>2
<1>7. CallsTyped'
  <2>1. turn' = [m \in Messages |-> turn'[m]] /\ pc' = [m \in Messages |-> pc'[m]]
    BY <1>1, <1>2
  <2>2. \A m \in Messages : /\ turn'[m] \in Turn \cup {None}
                            /\ pc'[m] # "none" => turn'[m] \in Turn
                            /\ pc'[m] \in Ended
    BY <1>6 DEF Ended, IInv, Typing, CallsTyped
  <2>3. turn' \in [Messages -> Turn \cup {None}]
    BY <2>1, <2>2
  <2>4. pc' \in [Messages -> Ended \cup Routing \cup Answering]
    BY <2>1, <2>2
  <2>5. {"quote", "quoteWarm"} \cap Ended = {}
    BY DEF Ended
  <2> QED
    BY <2>2, <2>3, <2>4, <2>5 DEF CallsTyped
<1>8. CallsOpen'
  <2>1. \A m \in Messages :
           /\ pc'[m] = pc[m] \/ (pc'[m] = "lost" /\ pc[m] # "none")
           /\ pc[m] # "none" => /\ turn'[m].shard = turn[m].shard
                                /\ turn'[m].user = turn[m].user
                                /\ pc'[m] = "touch" => turn'[m].owner = turn[m].owner
    BY <1>6 DEF Ended
  <2> QED
    BY <2>1, <1>4, CallsStay DEF IInv, Typing, Ownership
<1> QED
  BY <1>3, <1>4, <1>5, <1>7, <1>8 DEF IInv, Typing, Ownership

-----------------------------------------------------------------------------
(***************************************************************************)
(* The theorems                                                            *)
(***************************************************************************)

\* Nothing is handed out at first.
LEMMA InitOwned == Init => IInv
<1> SUFFICES ASSUME Init PROVE IInv
  OBVIOUS
<1>1. StoresTyped
  BY DEF Init, StoresTyped
<1>2. CallsTyped
  BY DEF Init, CallsTyped, Ended
<1>3. RowsKept /\ KeysOpen
  BY ShardAssumption DEF Init, RowsKept, KeysOpen
<1>4. CallsOpen
  BY DEF Init, CallsOpen, Allowed, Checked, Answering
<1> QED
  BY <1>1, <1>2, <1>3, <1>4 DEF IInv, Typing, Ownership

\* A routing step keeps the invariant.
LEMMA RouteOwned ==
    ASSUME IInv, NEW m \in Messages, Route(m) PROVE IInv'
BY QuoteHotOwned, QuoteWarmOwned, OwnerCheckOwned, ActiveHotOwned, ActiveWarmOwned,
   LoadOwned, TouchOwned, ActivateOwned, NewShardOwned DEF Route

\* A step of the answer keeps the invariant.
LEMMA AnswerOwned ==
    ASSUME IInv, NEW m \in Messages, Answer(m) PROVE IInv'
<1>1. CASE Hear(m)
  <2>1. pc[m] \in Answering /\ <<"user", m>> \in Lines
    BY <1>1 DEF Hear, Answering, Lines
  <2> QED
    BY <1>1, <2>1, AppendHotOwned DEF Hear
<1>2. CASE Say(m)
  <2>1. pc[m] \in Answering /\ <<"bot", m>> \in Lines
    BY <1>2 DEF Say, Answering, Lines
  <2> QED
    BY <1>2, <2>1, AppendHotOwned DEF Say
<1> QED
  BY <1>1, <1>2, EnsureSessionOwned, InvokeOwned, ModelOwned, QuietOwned, FileOwned DEF Answer

\* Every step keeps the inductive invariant.
LEMMA StepInvariant == IInv /\ [Next]_vars => IInv'
<1> SUFFICES ASSUME IInv, [Next]_vars PROVE IInv'
  OBVIOUS
<1>1. CASE UNCHANGED vars
  <2>1. UNCHANGED <<row, filed, thread, active, bound, unused, last, pc, turn, wiped>>
    BY <1>1 DEF vars, warm, hot, process, history
  <2>2. Typing'
    BY <2>1 DEF IInv, Typing, StoresTyped, CallsTyped
  <2>3. Ownership'
    BY <2>1 DEF IInv, Ownership, RowsKept, KeysOpen, CallsOpen, Allowed, Open
  <2> QED
    BY <2>2, <2>3 DEF IInv
<1>2. CASE Next
  BY <1>2, ReceiveOwned, RouteOwned, AnswerOwned, ClearingOwned, ExpireOwned, CrashOwned
     DEF Next
<1> QED
  BY <1>1, <1>2

\* In every state that can be reached a message past the owner check is in a shard
\* that is its user's or was dropped, and so is every user's active shard.
THEOREM Routable == Spec => []IInv
<1> QED
  BY InitOwned, StepInvariant, PTL DEF Spec

\* Two calls in one shard that was not dropped both have its owner as their user.
LEMMA OwnShardHolds == IInv => OwnShard
<1> SUFFICES ASSUME IInv, NEW m \in Messages, NEW n \in Messages,
                    Placed(m), Placed(n), turn[m].shard = turn[n].shard,
                    turn[m].shard \notin wiped
             PROVE  turn[m].user = turn[n].user
  BY DEF OwnShard
<1>1. \A k \in {m, n} : pc[k] \in Checked /\ pc[k] # "none"
  BY DEF Placed, Checked, Answering
<1>2. Open(turn[m].shard, turn[m].user) /\ Open(turn[n].shard, turn[n].user)
  BY <1>1, Known
<1> QED
  BY <1>2 DEF Open

\* Nobody ever takes a turn in another user's shard, whatever is quoted, forgotten
\* by Redis or cut off, unless a /clear dropped the shard (router.py:61-110).
THEOREM NobodyElse == Spec => []OwnShard
BY Routable, OwnShardHolds, PTL

\* A turn breaks off on the foreign key only when a /clear has dropped its shard,
\* never because Redis or another turn led it to a shard without a row.
THEOREM OnlyCleared == Spec => []FailsOnlyWhenCleared
<1>1. IInv => FailsOnlyWhenCleared
  BY DEF IInv, Ownership, CallsOpen, Allowed, FailsOnlyWhenCleared
<1> QED
  BY <1>1, Routable, PTL
=============================================================================

------------------------- MODULE ShardStoresProofs -------------------------
(***************************************************************************)
(* What the stores of a group chat know of a turn, for any number of       *)
(* users, messages, shards, clears and faults: the cache shows nothing     *)
(* that Postgres lacks (HotWithinWarm), an undisturbed /clear forgets for  *)
(* good (Forgotten), and a message that comes alone is led to the shard    *)
(* where it belongs (RoutedHome).                                          *)
(*                                                                         *)
(* All three rest on Located: every stored line, and every line that a run *)
(* of the graph holds, is in the shard of its message, which is its        *)
(* user's or was dropped.  Sweeping follows a /clear from list to list,    *)
(* and HomeInv a message from its arrival to the end of its turn.          *)
(***************************************************************************)
EXTENDS ShardTurnsProofs

(***************************************************************************)
(* The types of the rest                                                   *)
(***************************************************************************)
rest == <<newer, turns, session, conv, clr, sent, budget, wiped, gone>>

RestTyped ==
    /\ newer \subseteq Shards \X Shards
    /\ turns \in [Shards -> SUBSET Lines]
    /\ session \in [Shards -> Users \cup {None}]
    /\ conv \in [Users -> [Shards -> SUBSET Lines]]
    /\ clr \in [Owners -> Clear]
    /\ sent \subseteq Messages
    /\ budget \in [clears : 0 .. MaxClears, faults : 0 .. MaxFaults]
    /\ wiped \subseteq Shards
    /\ gone \subseteq Lines

\* Steps of a message that touch none of it.
Plain(m) ==
    \/ QuoteHot(m) \/ QuoteWarm(m) \/ OwnerCheck(m) \/ ActiveHot(m) \/ ActiveWarm(m)
    \/ Load(m) \/ Activate(m) \/ RowGone(m) \/ File(m) \/ Invoke(m) \/ Model(m) \/ Silent(m)

\* They touch none of it.
LEMMA PlainRest == ASSUME NEW m \in Messages, Plain(m) PROVE UNCHANGED rest
BY DEF Plain, QuoteHot, QuoteWarm, OwnerCheck, ActiveHot, ActiveWarm, Load, Activate, RowGone,
       File, Invoke, Model, Silent, Found, Finish, rest, warm, hot, history

\* The order of the rows stays one of shards.
LEMMA RenewedTyped ==
    ASSUME newer \subseteq Shards \X Shards, NEW s \in Shards
    PROVE  Renewed(s) \subseteq Shards \X Shards
BY DEF Renewed

\* Routing keeps the types.
LEMMA RouteTyped ==
    ASSUME IInv, RestTyped, NEW m \in Messages, Route(m) PROVE RestTyped'
<1>1. CASE Touch(m)
  <2>1. pc[m] = "touch" /\ turn[m].shard \in Shards
    BY <1>1, Known DEF Touch, Checked
  <2>2. /\ newer' = Renewed(turn[m].shard)
        /\ UNCHANGED <<turns, session, conv, clr, sent, budget, wiped, gone>>
    BY <1>1 DEF Touch, Upsert, hot, history
  <2> QED
    BY <2>1, <2>2, RenewedTyped DEF RestTyped
<1>2. CASE NewShard(m)
  <2>1. PICK s \in unused : Upsert(s, turn[m].user)
    BY <1>2 DEF NewShard
  <2>2. /\ newer' = Renewed(s) /\ s \in Shards
        /\ UNCHANGED <<turns, session, conv, clr, sent, budget, wiped, gone>>
    BY <1>2, <2>1 DEF NewShard, Upsert, hot, history, IInv, Typing, StoresTyped
  <2> QED
    BY <2>2, RenewedTyped DEF RestTyped
<1>3. CASE Plain(m)
  BY <1>3, PlainRest DEF RestTyped, rest
<1> QED
  BY <1>1, <1>2, <1>3 DEF Route, Plain

\* So does the turn itself.
LEMMA AnswerTyped ==
    ASSUME IInv, RestTyped, NEW m \in Messages, Answer(m) PROVE RestTyped'
<1>1. <<"user", m>> \in Lines /\ <<"bot", m>> \in Lines
  BY DEF Lines
<1>2. pc[m] \in Answering => turn[m].user \in Users /\ turn[m].shard \in Shards
  BY Known DEF Checked, Answering
<1>3. CASE EnsureSession(m)
  <2>1. /\ session' = [session EXCEPT ![turn[m].shard] = turn[m].user]
        /\ UNCHANGED <<newer, turns, conv, clr, sent, budget, wiped, gone>>
    BY <1>3 DEF EnsureSession, hot, history
  <2>2. pc[m] \in Answering
    BY <1>3 DEF EnsureSession, Answering
  <2> QED
    BY <1>2, <2>1, <2>2 DEF RestTyped
<1>4. ASSUME NEW line \in Lines, NEW at \in {"hearWarm", "sayWarm"}, AppendHot(m, line, at),
             pc[m] \in Answering
      PROVE  RestTyped'
  <2>1. /\ conv' = [conv EXCEPT ![turn[m].user][turn[m].shard] = @ \cup {line}]
        /\ UNCHANGED <<newer, turns, session, clr, sent, budget, wiped, gone>>
    BY <1>4 DEF AppendHot, warm, history
  <2>2. conv' \in [Users -> [Shards -> SUBSET Lines]]
    BY <1>2, <1>4, <2>1 DEF RestTyped
  <2> QED
    BY <2>1, <2>2 DEF RestTyped
<1>5. CASE Hear(m)
  BY <1>1, <1>4, <1>5 DEF Hear, Answering
<1>6. CASE Say(m)
  BY <1>1, <1>4, <1>6 DEF Say, Answering
<1>7. ASSUME NEW line \in Lines, AppendWarm(m, line), UNCHANGED <<hot, clr, sent, budget, wiped, gone>>
      PROVE  RestTyped'
  BY <1>7 DEF AppendWarm, RestTyped, hot
<1>8. CASE HearWarm(m)
  BY <1>1, <1>7, <1>8 DEF HearWarm, history
<1>9. CASE SayWarm(m)
  BY <1>1, <1>7, <1>9 DEF SayWarm, Finish
<1>10. CASE Send(m)
  BY <1>10 DEF Send, warm, hot, history, RestTyped
<1>11. CASE Plain(m)
  BY <1>11, PlainRest DEF RestTyped, rest
<1> QED
  BY <1>3, <1>5, <1>6, <1>8, <1>9, <1>10, <1>11 DEF Answer, Plain

\* What a /clear works with.
LEMMA ClearTyped ==
    ASSUME RestTyped, NEW o \in Owners
    PROVE  /\ clr[o] \in Clear
           /\ clr[o].shards \subseteq Shards /\ clr[o].threads \subseteq Shards
           /\ clr[o].past \subseteq Messages
BY DEF RestTyped, Clear

\* A /clear begins with lists of shards and messages.
LEMMA ClearBeginsTyped ==
    ASSUME IInv, RestTyped, NEW o \in Owners, ClearBegins(o) PROVE RestTyped'
<1> DEFINE calm == ~ \E m \in Messages : InFlight(m)
           c == [at |-> "sessions", shards |-> {}, threads |-> {active[o]} \ {None},
                 past |-> Past(o), calm |-> calm]
<1>1. /\ budget' = [budget EXCEPT !.clears = @ - 1] /\ budget.clears > 0
      /\ clr' = [clr EXCEPT ![o] = c]
      /\ UNCHANGED <<newer, turns, session, conv, sent, wiped, gone>>
  BY DEF ClearBegins, warm, hot
<1>2. c \in Clear
  <2>1. o \in Users
    BY ShardAssumption
  <2>2. {active[o]} \ {None} \in SUBSET Shards
    BY <2>1 DEF IInv, Typing, StoresTyped
  <2>3. Past(o) \in SUBSET Messages
    BY DEF Past
  <2>4. calm \in BOOLEAN
    OBVIOUS
  <2> HIDE DEF calm
  <2> QED
    BY <2>2, <2>3, <2>4 DEF Clear
<1>3. clr' \in [Owners -> Clear]
  BY <1>1, <1>2 DEF RestTyped
<1>4. budget' \in [clears : 0 .. MaxClears, faults : 0 .. MaxFaults]
  BY <1>1, ShardAssumption DEF RestTyped
<1> QED
  BY <1>1, <1>3, <1>4 DEF RestTyped

\* Every step of a /clear keeps the types.
LEMMA ClearingTyped ==
    ASSUME IInv, RestTyped, NEW o \in Owners, Clearing(o) PROVE RestTyped'
<1> DEFINE c == clr[o]
<1>1. /\ c \in Clear /\ c.shards \subseteq Shards /\ c.threads \subseteq Shards
      /\ c.past \subseteq Messages
  BY ClearTyped
<1>2. o \in Users
  BY ShardAssumption
<1>3. ASSUME NEW next \in Clear, clr' = [clr EXCEPT ![o] = next] PROVE clr' \in [Owners -> Clear]
  BY <1>3 DEF RestTyped
<1>4. CASE ClearSessions(o)
  <2> DEFINE known == c.threads \cup {s \in Shards : session[s] = o}
             next == [c EXCEPT !.at = "active", !.threads = known, !.shards = known]
  <2>1. known \subseteq Shards
    BY <1>1
  <2> HIDE DEF known
  <2>2. next \in Clear
    BY <1>1, <2>1 DEF Clear
  <2>3. /\ clr' = [clr EXCEPT ![o] = next]
        /\ UNCHANGED <<newer, turns, session, conv, sent, budget, wiped, gone>>
    BY <1>4 DEF ClearSessions, ClearStep, warm, hot, history, known
  <2> QED
    BY <1>3, <2>2, <2>3 DEF RestTyped
<1>5. CASE ClearActive(o)
  <2> DEFINE found == c.shards \cup ({active[o]} \ {None})
             next == [c EXCEPT !.at = "drop", !.shards = found]
  <2>1. found \subseteq Shards
    BY <1>1, <1>2 DEF IInv, Typing, StoresTyped
  <2>2. /\ clr' = [clr EXCEPT ![o] = next]
        /\ UNCHANGED <<newer, turns, session, conv, sent, budget, wiped, gone>>
    BY <1>5 DEF ClearActive, ClearStep, warm, hot, history
  <2> HIDE DEF found
  <2>3. next \in Clear
    BY <1>1, <2>1 DEF Clear
  <2> QED
    BY <1>3, <2>2, <2>3 DEF RestTyped
<1>6. CASE ClearDrop(o)
  <2>1. /\ clr' = [clr EXCEPT ![o] = [c EXCEPT !.at = "conv"]]
        /\ UNCHANGED <<newer, turns, session, conv, sent, budget, wiped, gone>>
    BY <1>6 DEF ClearDrop, ClearStep, warm, history
  <2>2. [c EXCEPT !.at = "conv"] \in Clear
    BY <1>1 DEF Clear
  <2> QED
    BY <1>3, <2>1, <2>2 DEF RestTyped
<1>7. CASE ClearConv(o)
  <2>1. UNCHANGED <<newer, turns, session, sent, budget, wiped, gone>>
    BY <1>7 DEF ClearConv, ClearStep, warm, history
  <2>2. CASE \E s \in c.shards :
                /\ clr' = [clr EXCEPT ![o] = [c EXCEPT !.shards = @ \ {s}]]
                /\ conv' = [conv EXCEPT ![o][s] = {}]
    <3>1. PICK s \in c.shards : /\ clr' = [clr EXCEPT ![o] = [c EXCEPT !.shards = @ \ {s}]]
                                /\ conv' = [conv EXCEPT ![o][s] = {}]
      BY <2>2
    <3>2. [c EXCEPT !.shards = @ \ {s}] \in Clear
      BY <1>1 DEF Clear
    <3>3. conv' \in [Users -> [Shards -> SUBSET Lines]]
      BY <1>2, <3>1 DEF RestTyped
    <3> QED
      BY <1>3, <2>1, <3>1, <3>2, <3>3 DEF RestTyped
  <2>3. CASE clr' = [clr EXCEPT ![o] = [c EXCEPT !.at = "rows"]] /\ conv' = conv
    <3>1. [c EXCEPT !.at = "rows"] \in Clear
      BY <1>1 DEF Clear
    <3> QED
      BY <1>3, <2>1, <2>3, <3>1 DEF RestTyped
  <2> QED
    BY <1>7, <2>2, <2>3 DEF ClearConv, ClearStep, hot
<1>8. CASE ClearRows(o)
  <2> DEFINE dropped == {s \in Shards : row[s] = o}
             next == [c EXCEPT !.at = "threads", !.threads = @ \cup dropped]
  <2>1. /\ clr' = [clr EXCEPT ![o] = next]
        /\ newer' \subseteq newer
        /\ turns' = [s \in Shards |-> IF s \in dropped THEN {} ELSE turns[s]]
        /\ wiped' = wiped \cup dropped \cup c.threads
        /\ UNCHANGED <<session, conv, sent, budget, gone>>
    BY <1>8 DEF ClearRows, ClearStep, hot
  <2>2. dropped \subseteq Shards
    OBVIOUS
  <2> HIDE DEF dropped
  <2>3. next \in Clear
    BY <1>1, <2>2 DEF Clear
  <2>4. turns' \in [Shards -> SUBSET Lines]
    BY <2>1 DEF RestTyped
  <2> QED
    BY <1>1, <1>3, <2>1, <2>2, <2>3, <2>4 DEF RestTyped
<1>9. CASE ClearThreads(o)
  <2>1. UNCHANGED <<newer, turns, session, conv, sent, budget, wiped>>
    BY <1>9 DEF ClearThreads, ClearStep, warm, hot, history
  <2>2. CASE \E s \in c.threads :
                /\ clr' = [clr EXCEPT ![o] = [c EXCEPT !.threads = @ \ {s}]] /\ gone' = gone
    <3>1. PICK s \in c.threads : clr' = [clr EXCEPT ![o] = [c EXCEPT !.threads = @ \ {s}]]
      BY <2>2
    <3>2. [c EXCEPT !.threads = @ \ {s}] \in Clear
      BY <1>1 DEF Clear
    <3> QED
      BY <1>3, <2>1, <2>2, <3>1, <3>2 DEF RestTyped
  <2>3. CASE /\ clr' = [clr EXCEPT ![o] = IdleClear]
             /\ gone' = gone \/ gone' = gone \cup LinesOf(c.past)
    <3>1. IdleClear \in Clear
      BY DEF IdleClear, Clear
    <3>2. LinesOf(c.past) \subseteq Lines
      BY <1>1 DEF LinesOf, Lines
    <3> QED
      BY <1>3, <2>1, <2>3, <3>1, <3>2 DEF RestTyped
  <2> QED
    BY <1>9, <2>2, <2>3 DEF ClearThreads, ClearStep, history
<1> QED
  BY <1>4, <1>5, <1>6, <1>7, <1>8, <1>9, ClearBeginsTyped DEF Clearing

\* Every step keeps the types.
LEMMA StepTypes == ASSUME IInv, RestTyped, [Next]_vars PROVE RestTyped'
<1>1. ASSUME NEW m \in Messages, Receive(m) PROVE RestTyped'
  <2>1. /\ clr' = [o \in Owners |-> [clr[o] EXCEPT !.calm = FALSE]]
        /\ UNCHANGED <<newer, turns, session, conv, sent, budget, wiped, gone>>
    BY <1>1 DEF Receive, warm, hot, history
  <2>2. \A o \in Owners : [clr[o] EXCEPT !.calm = FALSE] \in Clear
    BY ClearTyped DEF Clear
  <2>3. clr' \in [Owners -> Clear]
    BY <2>1, <2>2
  <2> QED
    BY <2>1, <2>3 DEF RestTyped
<1>2. CASE Expire \/ Crash
  <2>1. /\ budget.faults > 0 /\ budget' = [budget EXCEPT !.faults = @ - 1]
        /\ clr' = clr \/ clr' = [o \in Owners |-> IdleClear]
        /\ UNCHANGED <<newer, turns, session, conv, sent, wiped, gone>>
    BY <1>2 DEF Expire, Crash, warm, hot, process, history
  <2>2. budget' \in [clears : 0 .. MaxClears, faults : 0 .. MaxFaults]
    BY <2>1, ShardAssumption DEF RestTyped
  <2>3. IdleClear \in Clear
    BY DEF IdleClear, Clear
  <2>4. clr' \in [Owners -> Clear]
    BY <2>1, <2>3 DEF RestTyped
  <2> QED
    BY <2>1, <2>2, <2>4 DEF RestTyped
<1>3. CASE UNCHANGED vars
  BY <1>3 DEF RestTyped, vars, warm, hot, process, history
<1> QED
  BY <1>1, <1>2, <1>3, RouteTyped, AnswerTyped, ClearingTyped DEF Next

-----------------------------------------------------------------------------
(***************************************************************************)
(* What no step undoes                                                     *)
(***************************************************************************)

\* A message that may have left lines in the stores.
Speaking == Answering \ {"session"}
Spoken == Speaking \cup {"done", "failed", "lost"}

\* Who has spoken is past the routing and has arrived.
LEMMA Places ==
    /\ Speaking \subseteq Spoken /\ Speaking \subseteq Checked
    /\ "none" \notin Spoken
    /\ \A at \in Speaking : at \notin Ended
    /\ \A at \in Ended : at = "none" \/ at \in Spoken
    /\ \A at \in Routing \cup {"session"} : at \notin Spoken /\ at \notin Ended
BY DEF Speaking, Spoken, Checked, Answering, Routing, Ended

\* A message moves, keeps its user, and keeps its shard once it has spoken.
Moves(m, at) ==
    /\ pc' = [pc EXCEPT ![m] = at]
    /\ \E t \in Turn : /\ turn' = [turn EXCEPT ![m] = t]
                       /\ t.user = turn[m].user
                       /\ pc[m] \in Spoken => t.shard = turn[m].shard

\* A routed message moves on among the places of the routing.
LEMMA MovesBack ==
    ASSUME IInv, NEW m \in Messages, Route(m)
    PROVE  \E at \in Routing \cup {"session"} : Moves(m, at)
<1>1. ASSUME pc[m] # "none" PROVE turn[m] \in Turn
  BY <1>1, Known
<1>2. pc[m] \in Routing
  BY DEF Route, QuoteHot, QuoteWarm, OwnerCheck, ActiveHot, ActiveWarm, Load, Touch, Activate,
         NewShard, Routing
<1>3. pc[m] \notin Spoken /\ pc[m] # "none"
  BY <1>2, Places DEF Ended
<1>4. turn[m] \in Turn /\ turn[m].user \in Users
  BY <1>3, Known
<1>5. ASSUME NEW s \in Shards \cup {None}, NEW hit \in Routing, NEW miss \in Routing,
             Found(m, s, hit, miss)
      PROVE  \E at \in Routing : Moves(m, at)
  <2>1. [turn[m] EXCEPT !.shard = s] \in Turn /\ [turn[m] EXCEPT !.shard = s].user = turn[m].user
    BY <1>4 DEF Turn
  <2> QED
    BY <1>3, <1>5, <2>1 DEF Found, Move, Moves
<1>6. CASE QuoteHot(m)
  <2>1. turn[m].quote \in Lines
    BY <1>6, <1>3, Known DEF QuoteHot
  <2>2. bound[turn[m].quote] \in Shards \cup {None}
    BY <2>1 DEF IInv, Typing, StoresTyped
  <2> QED
    BY <1>5, <1>6, <2>2 DEF QuoteHot, Routing
<1>7. CASE QuoteWarm(m)
  <2> DEFINE s == LET q == turn[m].quote IN IF q[1] = "bot" THEN filed[q[2]] ELSE None
  <2>1. turn[m].quote \in Lines
    BY <1>7, <1>3, Known DEF QuoteWarm
  <2>2. s \in Shards \cup {None}
    BY <2>1 DEF IInv, Typing, StoresTyped, Lines
  <2>3. Found(m, s, "owner", "active")
    BY <1>7 DEF QuoteWarm
  <2> HIDE DEF s
  <2> QED
    BY <1>5, <2>2, <2>3 DEF Routing
<1>8. CASE OwnerCheck(m)
  <2>1. \A r \in {"reply_foreign_shard", "reply_chain"} :
           [turn[m] EXCEPT !.reason = r] \in Turn /\ [turn[m] EXCEPT !.reason = r].user = turn[m].user
    BY <1>4 DEF Turn
  <2> QED
    BY <1>3, <1>8, <2>1 DEF OwnerCheck, Move, Moves, Routing
<1>9. CASE ActiveHot(m)
  <2>1. active[turn[m].user] \in Shards \cup {None}
    BY <1>4 DEF IInv, Typing, StoresTyped
  <2> QED
    BY <1>5, <1>9, <2>1 DEF ActiveHot, Routing
<1>10. CASE ActiveWarm(m)
  <2>1. PICK s \in (IF Latest(turn[m].user) = {} THEN {None} ELSE Latest(turn[m].user)) :
           Found(m, s, "load", "open")
    BY <1>10 DEF ActiveWarm
  <2>2. s \in Shards \cup {None}
    BY <2>1 DEF Latest
  <2> QED
    BY <1>5, <2>1, <2>2 DEF Routing
<1>11. CASE Load(m)
  <2> DEFINE t == [turn[m] EXCEPT !.owner = row[turn[m].shard]]
  <2>1. turn[m].shard \in Shards
    BY <1>11, Known DEF Load, Checked
  <2>2. t \in Turn /\ t.user = turn[m].user
    BY <1>4, <2>1 DEF Turn, IInv, Typing, StoresTyped
  <2>3. turn' = [turn EXCEPT ![m] = t] /\ pc' = [pc EXCEPT ![m] = "touch"]
    BY <1>11 DEF Load, Move
  <2> HIDE DEF t
  <2> QED
    BY <1>3, <2>2, <2>3 DEF Moves, Routing
<1>12. CASE Touch(m)
  <2>1. turn' = [turn EXCEPT ![m] = turn[m]]
    BY <1>12 DEF Touch, IInv, Typing, CallsTyped
  <2>2. pc' = [pc EXCEPT ![m] = "activate"]
    BY <1>12 DEF Touch, Move
  <2> QED
    BY <1>4, <2>1, <2>2 DEF Moves, Routing
<1>13. CASE Activate(m)
  <2> DEFINE t == [turn[m] EXCEPT !.reason = IF @ = "" THEN "user_active" ELSE @]
             d == [turn[m] EXCEPT !.reason = "topic_drift", !.direct = TRUE]
  <2>1. t \in Turn /\ d \in Turn /\ t.user = turn[m].user /\ d.user = turn[m].user
    BY <1>4 DEF Turn
  <2>2. \/ turn' = [turn EXCEPT ![m] = t] /\ pc' = [pc EXCEPT ![m] = "session"]
        \/ turn' = [turn EXCEPT ![m] = d] /\ pc' = [pc EXCEPT ![m] = "open"]
    BY <1>13 DEF Activate, Move
  <2> HIDE DEF t, d
  <2> QED
    BY <1>3, <2>1, <2>2 DEF Moves, Routing
<1>14. CASE NewShard(m)
  <2>1. PICK s \in unused :
           turn' = [turn EXCEPT ![m].shard = s,
                                ![m].reason = IF @ = "" THEN "new_user_topic" ELSE @]
    BY <1>14 DEF NewShard
  <2> DEFINE t == [turn[m] EXCEPT !.shard = s,
                                  !.reason = IF @ = "" THEN "new_user_topic" ELSE @]
  <2>2. s \in Shards
    BY DEF IInv, Typing, StoresTyped
  <2>3. t \in Turn /\ t.user = turn[m].user
    BY <1>4, <2>2 DEF Turn
  <2>4. turn' = [turn EXCEPT ![m] = t] /\ pc' = [pc EXCEPT ![m] = "activate"]
    BY <1>14, <2>1 DEF NewShard, Move
  <2> HIDE DEF t
  <2> QED
    BY <1>3, <2>3, <2>4 DEF Moves, Routing
<1> QED
  BY <1>6, <1>7, <1>8, <1>9, <1>10, <1>11, <1>12, <1>13, <1>14 DEF Route

\* An answered message moves on among the places of the turn, or ends.
LEMMA MovesOn ==
    ASSUME IInv, NEW m \in Messages, Answer(m)
    PROVE  /\ pc[m] \in Speaking \/ EnsureSession(m)
           /\ \E at \in Speaking \cup {"done", "failed"} : Moves(m, at)
<1>1. pc[m] \in Answering
  BY DEF Answer, EnsureSession, Hear, HearWarm, RowGone, Invoke, Model, Silent, Send, File, Say,
         SayWarm, Answering
<1>2. turn[m] \in Turn /\ turn[m].shard \in Shards /\ turn[m].user \in Users
  BY <1>1, Known DEF Checked, Answering
<1>3. pc[m] \in Speaking \/ EnsureSession(m)
  BY DEF Answer, EnsureSession, Hear, HearWarm, RowGone, Invoke, Model, Silent, Send, File, Say,
         SayWarm, Answering, Speaking
<1>4. turn = [turn EXCEPT ![m] = turn[m]]
  BY DEF IInv, Typing, CallsTyped
<1>5. CASE EnsureSession(m)
  <2> DEFINE t == [turn[m] EXCEPT !.due = None, !.owner = None, !.reason = ""]
  <2>1. t \in Turn /\ t.user = turn[m].user /\ t.shard = turn[m].shard
    BY <1>2 DEF Turn
  <2>2. turn' = [turn EXCEPT ![m] = t] /\ pc' = [pc EXCEPT ![m] = "hear"]
    BY <1>5 DEF EnsureSession, Move
  <2> HIDE DEF t
  <2>3. "hear" \in Speaking
    BY DEF Speaking, Answering
  <2> QED
    BY <1>3, <2>1, <2>2, <2>3 DEF Moves
<1>6. CASE Invoke(m)
  <2> DEFINE t == [turn[m] EXCEPT !.held = thread[turn[m].shard] \cup {<<"user", m>>}]
  <2>1. thread[turn[m].shard] \cup {<<"user", m>>} \in SUBSET Lines
    BY <1>2 DEF IInv, Typing, StoresTyped, Lines
  <2>2. t \in Turn /\ t.user = turn[m].user /\ t.shard = turn[m].shard
    BY <1>2, <2>1 DEF Turn
  <2>3. turn' = [turn EXCEPT ![m] = t] /\ pc' = [pc EXCEPT ![m] = "model"]
    BY <1>6 DEF Invoke, Move
  <2> HIDE DEF t
  <2>4. "model" \in Speaking
    BY DEF Speaking, Answering
  <2> QED
    BY <1>3, <2>2, <2>3, <2>4 DEF Moves
<1>7. ASSUME NEW at \in {"done", "failed"}, Finish(m, at)
      PROVE  Moves(m, at)
  <2> DEFINE t == [turn[m] EXCEPT !.held = {}, !.quote = None, !.alone = FALSE,
                                  !.direct = FALSE]
  <2>1. t \in Turn /\ t.user = turn[m].user /\ t.shard = turn[m].shard
    BY <1>2 DEF Turn
  <2>2. turn' = [turn EXCEPT ![m] = t] /\ pc' = [pc EXCEPT ![m] = at]
    BY <1>7 DEF Finish, Move
  <2> HIDE DEF t
  <2> QED
    BY <2>1, <2>2 DEF Moves
<1>8. CASE RowGone(m) \/ Silent(m) \/ SayWarm(m)
  BY <1>3, <1>7, <1>8 DEF RowGone, Silent, SayWarm
<1>9. ASSUME NEW at \in Speaking, turn' = turn, Move(m, at) PROVE Moves(m, at)
  BY <1>2, <1>4, <1>9 DEF Moves, Move
<1>10. CASE Hear(m) \/ HearWarm(m) \/ Model(m) \/ Send(m) \/ File(m) \/ Say(m)
  BY <1>3, <1>9, <1>10
     DEF Hear, HearWarm, Model, Send, File, Say, AppendHot, Speaking, Answering
<1> QED
  BY <1>3, <1>5, <1>6, <1>8, <1>10 DEF Answer

\* The others stay where they are.
LEMMA OneMoves ==
    ASSUME IInv, NEW m \in Messages, NEW at, Moves(m, at)
    PROVE  /\ pc'[m] = at /\ turn'[m].user = turn[m].user
           /\ pc[m] \in Spoken => turn'[m].shard = turn[m].shard
           /\ \A n \in Messages \ {m} : pc'[n] = pc[n] /\ turn'[n] = turn[n]
BY DEF Moves, IInv, Typing, CallsTyped

\* A shard that is open to a user stays so, whatever step is taken.
LEMMA AlwaysOpen == ASSUME IInv, [Next]_vars PROVE StayOpen
<1>1. ASSUME NEW m \in Messages, Touch(m) PROVE StayOpen
  <2> DEFINE t == turn[m]
             o == IF t.owner = None THEN t.user ELSE t.owner
  <2>1. /\ t \in Turn /\ t.user \in Users /\ t.shard \in Shards
        /\ Open(t.shard, t.user) /\ (t.shard \in wiped \/ t.owner = t.user)
    BY <1>1, Known DEF Touch, Checked
  <2>2. t.shard \in wiped \/ o = t.user
    BY <2>1, ShardAssumption DEF Turn
  <2>3. /\ row' = [row EXCEPT ![t.shard] = o] /\ UNCHANGED <<unused, wiped>>
    BY <1>1 DEF Touch, Upsert, history
  <2> QED
    BY <2>1, <2>2, <2>3 DEF StayOpen, Open, IInv, Typing, StoresTyped
<1>2. ASSUME NEW m \in Messages, NewShard(m) PROVE StayOpen
  <2>1. PICK s \in unused : /\ row' = [row EXCEPT ![s] = turn[m].user]
                            /\ unused' = unused \ {s}
    BY <1>2 DEF NewShard, Upsert
  <2>2. wiped' = wiped /\ s \in Shards
    BY <1>2 DEF NewShard, history, IInv, Typing, StoresTyped
  <2> QED
    BY <2>1, <2>2 DEF StayOpen, Open, IInv, Typing, StoresTyped
<1>3. ASSUME NEW o \in Owners, ClearRows(o) PROVE StayOpen
  <2>1. /\ row' = [s \in Shards |-> IF s \in {r \in Shards : row[r] = o} THEN None ELSE row[s]]
        /\ wiped' = wiped \cup {r \in Shards : row[r] = o} \cup clr[o].threads
        /\ UNCHANGED unused
    BY <1>3 DEF ClearRows, ClearStep
  <2> QED
    BY <2>1 DEF StayOpen, Open
<1>4. ASSUME NEW m \in Messages, Plain(m) \/ Receive(m) PROVE StayOpen
  <2>1. UNCHANGED <<row, unused, wiped>>
    BY <1>4 DEF Plain, QuoteHot, QuoteWarm, OwnerCheck, ActiveHot, ActiveWarm, Load, Activate,
                RowGone, File, Invoke, Model, Silent, Found, Finish, Receive, warm, hot, history
  <2> QED
    BY <2>1, NothingMoved
<1>5. ASSUME NEW m \in Messages,
             EnsureSession(m) \/ Hear(m) \/ HearWarm(m) \/ Send(m) \/ Say(m) \/ SayWarm(m)
      PROVE  StayOpen
  <2>1. UNCHANGED <<row, unused, wiped>>
    BY <1>5 DEF EnsureSession, Hear, HearWarm, Send, Say, SayWarm, AppendHot, AppendWarm, Finish,
                warm, hot, history
  <2> QED
    BY <2>1, NothingMoved
<1>6. ASSUME NEW o \in Owners, ClearBegins(o) \/ ClearSessions(o) \/ ClearActive(o)
                               \/ ClearDrop(o) \/ ClearConv(o) \/ ClearThreads(o)
      PROVE  StayOpen
  <2>1. UNCHANGED <<row, unused, wiped>>
    BY <1>6 DEF ClearBegins, ClearSessions, ClearActive, ClearDrop, ClearConv, ClearThreads,
                ClearStep, warm, hot, history
  <2> QED
    BY <2>1, NothingMoved
<1>7. CASE Expire \/ Crash \/ UNCHANGED vars
  <2>1. UNCHANGED <<row, unused, wiped>>
    BY <1>7 DEF Expire, Crash, vars, warm, process, history
  <2> QED
    BY <2>1, NothingMoved
<1> QED
  BY <1>1, <1>2, <1>3, <1>4, <1>5, <1>6, <1>7 DEF Next, Route, Answer, Clearing, Plain

\* What has been said to whom and in which shard stays, and so does a session.
Steady ==
    /\ StayOpen
    /\ \A n \in Messages : pc[n] # "none" => pc'[n] # "none" /\ turn'[n].user = turn[n].user
    /\ \A n \in Messages : pc[n] \in Spoken => pc'[n] \in Spoken /\ turn'[n].shard = turn[n].shard
    /\ \A n \in Messages : pc'[n] \in Speaking => pc[n] \in Speaking \/ EnsureSession(n)
    /\ \A s \in Shards : session[s] # None => session'[s] # None

\* A /clear, an expiry and a crash move nobody but by cutting calls off.
LEMMA OthersMove ==
    ASSUME IInv, (\E o \in Owners : Clearing(o)) \/ Expire \/ Crash \/ UNCHANGED vars
    PROVE  \A n \in Messages :
              /\ pc'[n] = pc[n] \/ (pc'[n] = "lost" /\ pc[n] \notin Ended)
              /\ turn'[n] = turn[n] \/ (/\ turn[n] \in Turn /\ pc[n] \notin Ended
                                        /\ turn'[n] \in Turn
                                        /\ turn'[n].user = turn[n].user
                                        /\ turn'[n].shard = turn[n].shard
                                        /\ turn'[n].held \subseteq turn[n].held)
<1> SUFFICES ASSUME NEW n \in Messages
             PROVE  /\ pc'[n] = pc[n] \/ (pc'[n] = "lost" /\ pc[n] \notin Ended)
                    /\ turn'[n] = turn[n] \/ (/\ turn[n] \in Turn /\ pc[n] \notin Ended
                                              /\ turn'[n] \in Turn
                                              /\ turn'[n].user = turn[n].user
                                              /\ turn'[n].shard = turn[n].shard
                                              /\ turn'[n].held \subseteq turn[n].held)
  OBVIOUS
<1>1. InFlight(n) => turn[n] \in Turn /\ pc[n] \notin Ended
  BY Known DEF InFlight, Ended
<1>2. CASE Crash
  <2>1. pc'[n] = IF InFlight(n) THEN "lost" ELSE pc[n]
    BY <1>2 DEF Crash
  <2>2. turn'[n] = IF InFlight(n)
                   THEN [turn[n] EXCEPT !.held = {}, !.quote = None, !.owner = None,
                                        !.reason = "", !.direct = FALSE, !.alone = FALSE,
                                        !.due = None]
                   ELSE turn[n]
    BY <1>2 DEF Crash
  <2>3. turn[n] \in Turn =>
           LET t == [turn[n] EXCEPT !.held = {}, !.quote = None, !.owner = None,
                                    !.reason = "", !.direct = FALSE, !.alone = FALSE,
                                    !.due = None]
           IN  t \in Turn /\ t.user = turn[n].user /\ t.shard = turn[n].shard /\ t.held = {}
    BY DEF Turn
  <2> QED
    BY <1>1, <2>1, <2>2, <2>3
<1>3. ASSUME NEW o \in Owners, ClearBegins(o)
      PROVE  /\ pc'[n] = pc[n]
             /\ turn'[n] = turn[n] \/ (/\ turn[n] \in Turn /\ pc[n] \notin Ended
                                       /\ turn'[n] \in Turn
                                       /\ turn'[n].user = turn[n].user
                                       /\ turn'[n].shard = turn[n].shard
                                       /\ turn'[n].held \subseteq turn[n].held)
  <2>1. /\ pc' = pc
        /\ turn'[n] = IF InFlight(n) /\ turn[n].user = o
                      THEN [turn[n] EXCEPT !.alone = FALSE, !.due = None] ELSE turn[n]
    BY <1>3 DEF ClearBegins
  <2>2. turn[n] \in Turn =>
           LET t == [turn[n] EXCEPT !.alone = FALSE, !.due = None]
           IN  t \in Turn /\ t.user = turn[n].user /\ t.shard = turn[n].shard
               /\ t.held = turn[n].held
    BY DEF Turn
  <2> QED
    BY <1>1, <2>1, <2>2
<1>4. ASSUME NEW o \in Owners, ClearSessions(o) \/ ClearActive(o) \/ ClearDrop(o) \/ ClearConv(o)
                               \/ ClearRows(o) \/ ClearThreads(o)
      PROVE  UNCHANGED <<pc, turn>>
  BY <1>4 DEF ClearSessions, ClearActive, ClearDrop, ClearConv, ClearRows, ClearThreads, ClearStep
<1>5. CASE Expire \/ UNCHANGED vars
  BY <1>5 DEF Expire, vars, process
<1> QED
  BY <1>2, <1>3, <1>4, <1>5 DEF Clearing

\* A session changes with a turn that begins in its shard.
LEMMA SessionsStay ==
    ASSUME IInv, RestTyped, [Next]_vars
    PROVE  \/ session' = session
           \/ \E m \in Messages : /\ EnsureSession(m)
                                  /\ turn[m].shard \in Shards /\ turn[m].user \in Users
                                  /\ Open(turn[m].shard, turn[m].user)
                                  /\ session' = [session EXCEPT ![turn[m].shard] = turn[m].user]
<1>1. ASSUME NEW m \in Messages, EnsureSession(m)
      PROVE  /\ turn[m].shard \in Shards /\ turn[m].user \in Users
             /\ Open(turn[m].shard, turn[m].user)
             /\ session' = [session EXCEPT ![turn[m].shard] = turn[m].user]
  BY <1>1, Known DEF EnsureSession, Checked, Answering
<1>2. ASSUME NEW m \in Messages, Plain(m) \/ Receive(m) PROVE session' = session
  BY <1>2, PlainRest DEF rest, Receive, warm
<1>3. ASSUME NEW m \in Messages, Touch(m) \/ NewShard(m) PROVE session' = session
  BY <1>3 DEF Touch, NewShard, Upsert
<1>4. ASSUME NEW m \in Messages,
             Hear(m) \/ HearWarm(m) \/ Send(m) \/ Say(m) \/ SayWarm(m)
      PROVE  session' = session
  BY <1>4 DEF Hear, HearWarm, Send, Say, SayWarm, AppendHot, AppendWarm, warm
<1>5. ASSUME NEW o \in Owners, Clearing(o) PROVE session' = session
  BY <1>5 DEF Clearing, ClearBegins, ClearSessions, ClearActive, ClearDrop, ClearConv, ClearRows,
              ClearThreads, warm
<1>6. CASE Expire \/ Crash \/ UNCHANGED vars
  BY <1>6 DEF Expire, Crash, vars, warm
<1> QED
  BY <1>1, <1>2, <1>3, <1>4, <1>5, <1>6 DEF Next, Route, Answer, Plain

\* No step undoes any of this.
LEMMA AlwaysSteady == ASSUME IInv, RestTyped, [Next]_vars PROVE Steady
<1>1. StayOpen
  BY AlwaysOpen
<1>2. \A s \in Shards : session[s] # None => session'[s] # None
  BY SessionsStay, ShardAssumption DEF RestTyped
<1> DEFINE Calls == \A n \in Messages :
              /\ pc[n] # "none" => pc'[n] # "none" /\ turn'[n].user = turn[n].user
              /\ pc[n] \in Spoken => pc'[n] \in Spoken /\ turn'[n].shard = turn[n].shard
              /\ pc'[n] \in Speaking => pc[n] \in Speaking \/ EnsureSession(n)
<1>3. ASSUME NEW m \in Messages, Route(m) PROVE Calls
  <2>1. PICK at \in Routing \cup {"session"} : Moves(m, at)
    BY <1>3, MovesBack
  <2>2. pc[m] \in Routing
    BY <1>3 DEF Route, QuoteHot, QuoteWarm, OwnerCheck, ActiveHot, ActiveWarm, Load, Touch,
                Activate, NewShard, Routing
  <2>3. pc[m] \notin Spoken /\ at \notin Speaking /\ at # "none"
    BY <2>2, Places DEF Routing
  <2> QED
    BY <2>1, <2>3, OneMoves
<1>4. ASSUME NEW m \in Messages, Answer(m) PROVE Calls
  <2>1. PICK at \in Speaking \cup {"done", "failed"} : Moves(m, at)
    BY <1>4, MovesOn
  <2>2. pc[m] \in Speaking \/ EnsureSession(m)
    BY <1>4, MovesOn
  <2>3. at \in Spoken /\ at # "none"
    BY Places DEF Spoken
  <2> QED
    BY <2>1, <2>2, <2>3, OneMoves
<1>5. ASSUME NEW m \in Messages, Receive(m) PROVE Calls
  <2>1. /\ pc[m] = "none"
        /\ pc'[m] \in {"active", "quote"}
        /\ \A n \in Messages \ {m} : pc'[n] = pc[n]
    BY <1>5 DEF Receive, Move, IInv, Typing, CallsTyped
  <2>2. ASSUME NEW n \in Messages \ {m}
        PROVE  \/ turn'[n] = turn[n]
               \/ turn'[n] = [turn[n] EXCEPT !.alone = FALSE, !.due = None] /\ InFlight(n)
    BY <1>5 DEF Receive
  <2>3. ASSUME NEW n \in Messages \ {m}, pc[n] # "none"
        PROVE  turn'[n].user = turn[n].user /\ turn'[n].shard = turn[n].shard
    <3>1. turn[n] \in Turn
      BY <2>3, Known
    <3> QED
      BY <3>1, <2>2 DEF Turn
  <2>4. /\ {"active", "quote"} \cap Speaking = {} /\ "none" \notin Spoken
    BY DEF Speaking, Spoken, Answering
  <2> QED
    BY <2>1, <2>3, <2>4
<1>6. ASSUME (\E o \in Owners : Clearing(o)) \/ Expire \/ Crash \/ UNCHANGED vars PROVE Calls
  <2>1. "lost" \in Spoken /\ "lost" \notin Speaking
    BY DEF Spoken, Speaking, Answering
  <2>2. \A n \in Messages :
           /\ pc'[n] = pc[n] \/ (pc'[n] = "lost" /\ pc[n] \notin Ended)
           /\ turn'[n] = turn[n] \/ (/\ turn'[n].user = turn[n].user
                                     /\ turn'[n].shard = turn[n].shard)
    BY <1>6, OthersMove
  <2> QED
    BY <2>1, <2>2
<1> HIDE DEF Calls
<1>7. Calls
  <2>1. CASE Next
    BY <1>3, <1>4, <1>5, <1>6, <2>1 DEF Next
  <2> QED
    BY <1>6, <2>1
<1> USE DEF Calls
<1> QED
  BY <1>1, <1>2, <1>7 DEF Steady

-----------------------------------------------------------------------------
(***************************************************************************)
(* What a step puts into the stores                                        *)
(***************************************************************************)

\* The steps that leave conv, turns and thread alone.
Aside == \/ \E m \in Messages :
               \/ Receive(m) \/ Route(m)
               \/ EnsureSession(m) \/ RowGone(m) \/ Send(m) \/ File(m)
         \/ \E o \in Owners : ClearBegins(o) \/ ClearSessions(o) \/ ClearActive(o) \/ ClearDrop(o)
         \/ Expire \/ Crash \/ UNCHANGED vars

Stores == <<conv, turns, thread>>

\* They do leave them alone.
LEMMA AsideStores == ASSUME Aside PROVE UNCHANGED Stores
<1>1. ASSUME NEW m \in Messages, Receive(m) \/ Route(m) PROVE UNCHANGED Stores
  BY <1>1 DEF Route, QuoteHot, QuoteWarm, OwnerCheck, ActiveHot, ActiveWarm, Load, Touch,
              Activate, NewShard, Found, Upsert, Receive, warm, hot, Stores
<1>2. ASSUME NEW m \in Messages, EnsureSession(m) \/ RowGone(m) \/ Send(m) \/ File(m)
      PROVE  UNCHANGED Stores
  BY <1>2 DEF EnsureSession, RowGone, Send, File, warm, hot, Stores
<1>3. ASSUME NEW o \in Owners,
             ClearBegins(o) \/ ClearSessions(o) \/ ClearActive(o) \/ ClearDrop(o)
      PROVE  UNCHANGED Stores
  BY <1>3 DEF ClearBegins, ClearSessions, ClearActive, ClearDrop, warm, hot, Stores
<1>4. CASE Expire \/ Crash \/ UNCHANGED vars
  BY <1>4 DEF Expire, Crash, vars, warm, hot, Stores
<1> QED
  BY <1>1, <1>2, <1>3, <1>4 DEF Aside

\* The others, by what they write.
LEMMA StepKinds ==
    ASSUME [Next]_vars
    PROVE  \/ Aside
           \/ \E m \in Messages : Hear(m) \/ Say(m)
           \/ \E m \in Messages : HearWarm(m) \/ SayWarm(m)
           \/ \E m \in Messages : Invoke(m) \/ Model(m) \/ Silent(m)
           \/ \E o \in Owners : ClearConv(o) \/ ClearRows(o) \/ ClearThreads(o)
BY DEF Next, Answer, Clearing, Aside

\* The line that a message is about to write.
Line(m) == IF pc[m] \in {"hear", "hearWarm", "invoke"} THEN <<"user", m>> ELSE <<"bot", m>>

\* Both lines of a message are its own.
LEMMA LinesAre ==
    ASSUME NEW m \in Messages
    PROVE  /\ <<"user", m>> \in Lines /\ <<"bot", m>> \in Lines
           /\ <<"user", m>>[2] = m /\ <<"bot", m>>[2] = m
           /\ Line(m) \in {<<"user", m>>, <<"bot", m>>}
BY DEF Lines, Line

\* A message that is answered has an open shard.
LEMMA SpeakersKnown ==
    ASSUME IInv, NEW m \in Messages, pc[m] \in Speaking
    PROVE  /\ turn[m] \in Turn /\ turn[m].user \in Users /\ turn[m].shard \in Shards \ unused
           /\ Open(turn[m].shard, turn[m].user)
BY Known, Places

\* A line comes into Redis by its message, under its user and shard.
LEMMA ConvGrows ==
    ASSUME IInv, RestTyped, [Next]_vars, NEW u \in Users, NEW s \in Shards,
           NEW l \in conv'[u][s]
    PROVE  \/ l \in conv[u][s]
           \/ \E m \in Messages : /\ Hear(m) \/ Say(m)
                                  /\ l = Line(m) /\ turn[m].user = u /\ turn[m].shard = s
<1>1. CASE Aside
  BY <1>1, AsideStores DEF Stores
<1>2. ASSUME NEW m \in Messages, Hear(m) \/ Say(m)
      PROVE  l \in conv[u][s] \/ (l = Line(m) /\ turn[m].user = u /\ turn[m].shard = s)
  <2>1. pc[m] \in Speaking
    BY <1>2 DEF Hear, Say, Speaking, Answering
  <2>2. conv' = [conv EXCEPT ![turn[m].user][turn[m].shard] = @ \cup {Line(m)}]
    BY <1>2 DEF Hear, Say, AppendHot, Line
  <2> QED
    BY <2>1, <2>2, SpeakersKnown DEF RestTyped
<1>3. ASSUME NEW m \in Messages,
             HearWarm(m) \/ SayWarm(m) \/ Invoke(m) \/ Model(m) \/ Silent(m)
      PROVE  conv' = conv
  BY <1>3 DEF HearWarm, SayWarm, Invoke, Model, Silent, hot
<1>4. ASSUME NEW o \in Owners, ClearConv(o) \/ ClearRows(o) \/ ClearThreads(o)
      PROVE  conv'[u][s] \subseteq conv[u][s]
  <2>1. conv' = conv \/ \E r \in clr[o].shards : conv' = [conv EXCEPT ![o][r] = {}]
    BY <1>4 DEF ClearConv, ClearRows, ClearThreads, hot
  <2>2. \A r \in clr[o].shards : r \in Shards
    BY ClearTyped
  <2>3. o \in Users
    BY ShardAssumption
  <2> QED
    BY <2>1, <2>2, <2>3 DEF RestTyped
<1> QED
  BY <1>1, <1>2, <1>3, <1>4, StepKinds

\* A line comes into Postgres by its message, and goes with a dropped shard only.
LEMMA TurnsGrow ==
    ASSUME IInv, RestTyped, [Next]_vars, NEW s \in Shards
    PROVE  /\ s \notin wiped' => turns[s] \subseteq turns'[s]
           /\ \A l \in turns'[s] :
                 \/ l \in turns[s]
                 \/ \E m \in Messages : /\ HearWarm(m) \/ SayWarm(m)
                                        /\ l = Line(m) /\ turn[m].shard = s
<1>1. CASE Aside
  BY <1>1, AsideStores DEF Stores
<1>2. ASSUME NEW m \in Messages, HearWarm(m) \/ SayWarm(m)
      PROVE  /\ turns[s] \subseteq turns'[s]
             /\ \A l \in turns'[s] : l \in turns[s] \/ (l = Line(m) /\ turn[m].shard = s)
  <2>1. pc[m] \in Speaking
    BY <1>2 DEF HearWarm, SayWarm, Speaking, Answering
  <2>2. turns' = [turns EXCEPT ![turn[m].shard] = @ \cup {Line(m)}]
    BY <1>2 DEF HearWarm, SayWarm, AppendWarm, Line
  <2> QED
    BY <2>1, <2>2, SpeakersKnown DEF RestTyped
<1>3. ASSUME NEW m \in Messages,
             Hear(m) \/ Say(m) \/ Invoke(m) \/ Model(m) \/ Silent(m)
      PROVE  turns' = turns
  BY <1>3 DEF Hear, Say, AppendHot, Invoke, Model, Silent, warm
<1>4. ASSUME NEW o \in Owners, ClearConv(o) \/ ClearThreads(o)
      PROVE  turns' = turns
  BY <1>4 DEF ClearConv, ClearThreads, warm
<1>5. ASSUME NEW o \in Owners, ClearRows(o)
      PROVE  turns'[s] \subseteq turns[s] /\ (s \notin wiped' => turns'[s] = turns[s])
  <2>1. /\ turns' = [r \in Shards |-> IF r \in {q \in Shards : row[q] = o} THEN {} ELSE turns[r]]
        /\ wiped' = wiped \cup {q \in Shards : row[q] = o} \cup clr[o].threads
    BY <1>5 DEF ClearRows
  <2> QED
    BY <2>1
<1> QED
  BY <1>1, <1>2, <1>3, <1>4, <1>5, StepKinds

\* A line comes into a thread by its message, or with what a run of the graph held.
LEMMA ThreadGrows ==
    ASSUME IInv, RestTyped, [Next]_vars, NEW s \in Shards, NEW l \in thread'[s]
    PROVE  \/ l \in thread[s]
           \/ \E m \in Messages : /\ pc[m] \in Speaking /\ turn[m].shard = s
                                  /\ l = Line(m) \/ (pc[m] = "model" /\ l \in turn[m].held)
<1>1. CASE Aside
  BY <1>1, AsideStores DEF Stores
<1>2. ASSUME NEW m \in Messages, Hear(m) \/ Say(m) \/ HearWarm(m) \/ SayWarm(m)
      PROVE  thread' = thread
  BY <1>2 DEF Hear, Say, HearWarm, SayWarm, AppendHot, AppendWarm, warm
<1>3. ASSUME NEW m \in Messages, Invoke(m) \/ Model(m) \/ Silent(m)
      PROVE  \/ l \in thread[s]
             \/ /\ pc[m] \in Speaking /\ turn[m].shard = s
                /\ l = Line(m) \/ (pc[m] = "model" /\ l \in turn[m].held)
  <2>1. pc[m] \in Speaking
    BY <1>3 DEF Invoke, Model, Silent, Speaking, Answering
  <2>2. turn[m].shard \in Shards
    BY <2>1, SpeakersKnown
  <2>3. CASE Invoke(m)
    <3>1. thread' = [thread EXCEPT ![turn[m].shard] = @ \cup {Line(m)}]
      BY <2>3 DEF Invoke, Line
    <3> QED
      BY <2>1, <2>2, <3>1 DEF IInv, Typing, StoresTyped
  <2>4. CASE Model(m)
    <3>1. /\ pc[m] = "model"
          /\ \/ thread' = [thread EXCEPT ![turn[m].shard] = turn[m].held \cup {Line(m)}]
             \/ thread' = thread
      BY <2>4 DEF Model, Line
    <3> QED
      BY <2>1, <2>2, <3>1 DEF IInv, Typing, StoresTyped
  <2>5. CASE Silent(m)
    <3>1. thread' = [thread EXCEPT ![turn[m].shard] = @ \ {<<"bot", m>>}]
      BY <2>5 DEF Silent
    <3> QED
      BY <2>2, <3>1 DEF IInv, Typing, StoresTyped
  <2> QED
    BY <1>3, <2>3, <2>4, <2>5
<1>4. ASSUME NEW o \in Owners, ClearConv(o) \/ ClearRows(o) \/ ClearThreads(o)
      PROVE  l \in thread[s]
  <2>1. thread' = thread \/ \E r \in clr[o].threads : thread' = [thread EXCEPT ![r] = {}]
    BY <1>4 DEF ClearConv, ClearRows, ClearThreads, warm
  <2> QED
    BY <2>1 DEF IInv, Typing, StoresTyped
<1> QED
  BY <1>1, <1>2, <1>3, <1>4, StepKinds

\* What a run of the graph holds is what it held, or the thread it has just read.
LEMMA HeldIs ==
    ASSUME IInv, [Next]_vars, NEW n \in Messages, pc'[n] = "model"
    PROVE  /\ pc[n] \in Speaking
           /\ \/ pc[n] = "model" /\ turn'[n].held \subseteq turn[n].held
              \/ turn'[n].held \subseteq thread[turn[n].shard] \cup {<<"user", n>>}
<1>1. ASSUME NEW m \in Messages, Route(m) PROVE pc[n] = "model" /\ turn'[n] = turn[n]
  <2>1. PICK at \in Routing \cup {"session"} : Moves(m, at)
    BY <1>1, MovesBack
  <2>2. at # "model"
    BY DEF Routing
  <2> QED
    BY <2>1, <2>2, OneMoves
<1>2. ASSUME NEW m \in Messages, Answer(m), m # n PROVE pc[n] = "model" /\ turn'[n] = turn[n]
  <2>1. PICK at \in Speaking \cup {"done", "failed"} : Moves(m, at)
    BY <1>2, MovesOn
  <2> QED
    BY <1>2, <2>1, OneMoves
<1>3. CASE Answer(n)
  <2>1. CASE Invoke(n)
    <3>1. turn[n] \in Turn /\ pc[n] = "invoke" /\ pc[n] \in Speaking
      BY <2>1, Known DEF Invoke, Speaking, Answering
    <3>2. turn' = [turn EXCEPT ![n].held = thread[turn[n].shard] \cup {<<"user", n>>}]
      BY <2>1 DEF Invoke
    <3>3. turn'[n].held = thread[turn[n].shard] \cup {<<"user", n>>}
      BY <3>1, <3>2 DEF IInv, Typing, CallsTyped, Turn
    <3> QED
      BY <3>1, <3>3
  <2>2. CASE ~Invoke(n)
    <3>1. \E at : at # "model" /\ pc' = [pc EXCEPT ![n] = at]
      BY <1>3, <2>2 DEF Answer, EnsureSession, Hear, HearWarm, RowGone, Model, Silent, Send, File,
                        Say, SayWarm, AppendHot, Finish, Move
    <3> QED
      BY <3>1 DEF IInv, Typing, CallsTyped
  <2> QED
    BY <2>1, <2>2
<1>4. ASSUME NEW m \in Messages, Receive(m)
      PROVE  pc[n] = "model" /\ turn'[n].held \subseteq turn[n].held
  <2>1. m # n /\ pc[n] = "model"
    BY <1>4 DEF Receive, Move, IInv, Typing, CallsTyped
  <2>2. turn[n] \in Turn
    BY <2>1, Known
  <2>3. \/ turn'[n] = turn[n]
        \/ turn'[n] = [turn[n] EXCEPT !.alone = FALSE, !.due = None]
    BY <1>4, <2>1 DEF Receive
  <2> QED
    BY <2>1, <2>2, <2>3 DEF Turn
<1>5. ASSUME (\E o \in Owners : Clearing(o)) \/ Expire \/ Crash \/ UNCHANGED vars
      PROVE  pc[n] = "model" /\ turn'[n].held \subseteq turn[n].held
  BY <1>5, OthersMove
<1>6. "model" \in Speaking
  BY DEF Speaking, Answering
<1> QED
  BY <1>1, <1>2, <1>3, <1>4, <1>5, <1>6 DEF Next

-----------------------------------------------------------------------------
(***************************************************************************)
(* Every line is in the shard of its message                               *)
(***************************************************************************)

\* A shard in which somebody speaks has a session, its owner's.
SessionsKept ==
    /\ \A m \in Messages : pc[m] \in Speaking => session[turn[m].shard] # None
    /\ \A s \in Shards : session[s] # None => s \notin unused /\ Open(s, session[s])

Belongs(l, s) ==
    /\ pc[l[2]] \in Spoken
    /\ turn[l[2]].shard = s /\ session[s] # None /\ Open(s, turn[l[2]].user)

Located ==
    /\ \A s \in Shards : \A l \in turns[s] \cup thread[s] : Belongs(l, s)
    /\ \A u \in Users, s \in Shards : \A l \in conv[u][s] : Belongs(l, s) /\ turn[l[2]].user = u
    /\ \A m \in Messages : pc[m] = "model" => \A l \in turn[m].held : Belongs(l, turn[m].shard)

\* What Redis shows more than Postgres is being written, or its writer was cut off.
Showing(l) == \/ pc[l[2]] = "lost"
              \/ pc[l[2]] = IF l[1] = "user" THEN "hearWarm" ELSE "sayWarm"

\* Every step keeps the sessions those of the owners of their shards.
LEMMA SessionsStep ==
    ASSUME IInv, RestTyped, SessionsKept, [Next]_vars PROVE SessionsKept'
<1>1. Steady
  BY AlwaysSteady
<1>2. IInv'
  BY StepInvariant
<1>3. ASSUME NEW s \in Shards, session[s] # None
      PROVE  s \notin unused' /\ (s \in wiped' \/ row'[s] = session[s])
  <2>1. s \notin unused /\ Open(s, session[s]) /\ session[s] \in Users
    BY <1>3 DEF SessionsKept, RestTyped
  <2> QED
    BY <1>1, <2>1 DEF Steady, StayOpen
<1>4. ASSUME NEW s \in Shards, session'[s] # None
      PROVE  s \notin unused' /\ Open(s, session[s])'
  <2>1. CASE session' = session
    BY <1>3, <1>4, <2>1 DEF Open
  <2>2. CASE \E m \in Messages : /\ EnsureSession(m)
                                 /\ turn[m].shard \in Shards /\ turn[m].user \in Users
                                 /\ Open(turn[m].shard, turn[m].user)
                                 /\ session' = [session EXCEPT ![turn[m].shard] = turn[m].user]
    <3>1. PICK m \in Messages : /\ EnsureSession(m)
                                /\ turn[m].shard \in Shards /\ turn[m].user \in Users
                                /\ Open(turn[m].shard, turn[m].user)
                                /\ session' = [session EXCEPT ![turn[m].shard] = turn[m].user]
      BY <2>2
    <3>2. CASE s = turn[m].shard
      <4>1. session'[s] = turn[m].user
        BY <3>1, <3>2 DEF RestTyped
      <4>2. s \notin unused
        BY <3>1, <3>2, Known DEF EnsureSession
      <4>3. s \notin unused' /\ (s \in wiped' \/ row'[s] = turn[m].user)
        BY <1>1, <3>1, <3>2, <4>2 DEF Steady, StayOpen
      <4> QED
        BY <4>1, <4>3 DEF Open
    <3>3. CASE s # turn[m].shard
      <4>1. session'[s] = session[s]
        BY <3>1, <3>3 DEF RestTyped
      <4> QED
        BY <1>3, <1>4, <4>1 DEF Open
    <3> QED
      BY <3>2, <3>3
  <2> QED
    BY <2>1, <2>2, SessionsStay
<1>5. ASSUME NEW m \in Messages, pc'[m] \in Speaking PROVE session'[turn'[m].shard] # None
  <2>1. CASE pc[m] \in Speaking
    <3>1. turn[m].shard \in Shards /\ session[turn[m].shard] # None
      BY <2>1, SpeakersKnown DEF SessionsKept
    <3>2. turn'[m].shard = turn[m].shard
      BY <1>1, <2>1, Places DEF Steady
    <3> QED
      BY <1>1, <3>1, <3>2 DEF Steady
  <2>2. CASE EnsureSession(m)
    <3>1. turn[m] \in Turn /\ turn[m].shard \in Shards /\ turn[m].user \in Users
      BY <2>2, Known DEF EnsureSession, Checked, Answering
    <3>2. /\ session' = [session EXCEPT ![turn[m].shard] = turn[m].user]
          /\ turn' = [turn EXCEPT ![m].due = None, ![m].owner = None, ![m].reason = ""]
      BY <2>2 DEF EnsureSession
    <3>3. turn'[m].shard = turn[m].shard
      BY <3>1, <3>2 DEF IInv, Typing, CallsTyped, Turn
    <3>4. session'[turn[m].shard] = turn[m].user
      BY <3>1, <3>2 DEF RestTyped
    <3> QED
      BY <3>1, <3>3, <3>4, ShardAssumption
  <2> QED
    BY <1>1, <1>5, <2>1, <2>2 DEF Steady
<1> QED
  BY <1>4, <1>5 DEF SessionsKept

\* A line stays where it belongs.
LEMMA BelongsStays ==
    ASSUME IInv, Steady, NEW l \in Lines, NEW s \in Shards, Belongs(l, s)
    PROVE  Belongs(l, s)' /\ turn'[l[2]].user = turn[l[2]].user
<1>1. l[2] \in Messages
  BY DEF Lines
<1>2. pc[l[2]] # "none" /\ turn[l[2]].user \in Users /\ s \notin unused
  BY <1>1, Places, Known DEF Belongs
<1>3. /\ pc'[l[2]] \in Spoken /\ turn'[l[2]].shard = s
      /\ turn'[l[2]].user = turn[l[2]].user
      /\ session'[s] # None
  BY <1>1, <1>2 DEF Steady, Belongs
<1>4. s \in wiped' \/ row'[s] = turn[l[2]].user
  BY <1>2 DEF Steady, StayOpen, Belongs
<1> QED
  BY <1>3, <1>4 DEF Belongs, Open

\* What a message writes belongs where it is.
LEMMA OwnLine ==
    ASSUME IInv, SessionsKept, NEW m \in Messages, pc[m] \in Speaking
    PROVE  /\ Belongs(<<"user", m>>, turn[m].shard) /\ Belongs(<<"bot", m>>, turn[m].shard)
           /\ Belongs(Line(m), turn[m].shard)
           /\ Line(m)[2] = m
BY LinesAre, SpeakersKnown, Places DEF SessionsKept, Belongs

\* What is stored and what is held are lines.
LEMMA LinesTyped ==
    ASSUME IInv, RestTyped
    PROVE  /\ \A s \in Shards : turns[s] \cup thread[s] \subseteq Lines
           /\ \A u \in Users, s \in Shards : conv[u][s] \subseteq Lines
           /\ \A m \in Messages : pc[m] # "none" => turn[m].held \subseteq Lines
<1>1. \A m \in Messages : pc[m] # "none" => turn[m].held \subseteq Lines
  BY Known DEF Turn
<1> QED
  BY <1>1 DEF IInv, Typing, StoresTyped, RestTyped

\* Every step keeps the lines in the shards of their messages.
LEMMA LocatedStep ==
    ASSUME IInv, RestTyped, SessionsKept, Located, [Next]_vars PROVE Located'
<1>1. Steady
  BY AlwaysSteady
<1>2. IInv' /\ RestTyped'
  BY StepInvariant, StepTypes
<1>3. ASSUME NEW s \in Shards, NEW l \in turns'[s] \cup thread'[s] PROVE Belongs(l, s)'
  <2>1. l \in Lines
    BY <1>2 DEF IInv, Typing, StoresTyped, RestTyped
  <2>2. ASSUME NEW m \in Messages, pc[m] \in Speaking, turn[m].shard = s, l = Line(m)
        PROVE  Belongs(l, s)
    BY <2>2, OwnLine
  <2>3. ASSUME l \in turns[s] PROVE Belongs(l, s)
    BY <2>3 DEF Located
  <2>4. CASE l \in turns'[s]
    <3>1. \/ l \in turns[s]
          \/ \E m \in Messages : (HearWarm(m) \/ SayWarm(m)) /\ l = Line(m) /\ turn[m].shard = s
      BY <2>4, TurnsGrow
    <3>2. \A m \in Messages : HearWarm(m) \/ SayWarm(m) => pc[m] \in Speaking
      BY DEF HearWarm, SayWarm, Speaking, Answering
    <3>3. Belongs(l, s)
      BY <2>2, <2>3, <3>1, <3>2
    <3> QED
      BY <1>1, <2>1, <3>3, BelongsStays
  <2>5. CASE l \in thread'[s]
    <3>1. \/ l \in thread[s]
          \/ \E m \in Messages : /\ pc[m] \in Speaking /\ turn[m].shard = s
                                 /\ l = Line(m) \/ (pc[m] = "model" /\ l \in turn[m].held)
      BY <2>5, ThreadGrows
    <3>2. ASSUME NEW m \in Messages, turn[m].shard = s, pc[m] = "model", l \in turn[m].held
          PROVE  Belongs(l, s)
      BY <3>2 DEF Located
    <3>3. CASE l \in thread[s]
      <4>1. Belongs(l, s)
        BY <3>3 DEF Located
      <4> QED
        BY <1>1, <2>1, <4>1, BelongsStays
    <3>4. CASE l \notin thread[s]
      <4>1. PICK m \in Messages : /\ pc[m] \in Speaking /\ turn[m].shard = s
                                  /\ l = Line(m) \/ (pc[m] = "model" /\ l \in turn[m].held)
        BY <3>1, <3>4
      <4>2. Belongs(l, s)
        BY <2>2, <3>2, <4>1
      <4> QED
        BY <1>1, <2>1, <4>2, BelongsStays
    <3> QED
      BY <3>3, <3>4
  <2> QED
    BY <2>4, <2>5
<1>4. ASSUME NEW u \in Users, NEW s \in Shards, NEW l \in conv'[u][s]
      PROVE  Belongs(l, s)' /\ turn'[l[2]].user = u
  <2>1. l \in Lines
    BY <1>2 DEF RestTyped
  <2>2. \/ l \in conv[u][s]
        \/ \E m \in Messages : /\ Hear(m) \/ Say(m)
                               /\ l = Line(m) /\ turn[m].user = u /\ turn[m].shard = s
    BY ConvGrows
  <2>3. CASE l \in conv[u][s]
    <3>1. Belongs(l, s) /\ turn[l[2]].user = u
      BY <2>3 DEF Located
    <3> QED
      BY <1>1, <2>1, <3>1, BelongsStays
  <2>4. CASE l \notin conv[u][s]
    <3>1. PICK m \in Messages : /\ Hear(m) \/ Say(m)
                                /\ l = Line(m) /\ turn[m].user = u /\ turn[m].shard = s
      BY <2>2, <2>4
    <3>2. pc[m] \in Speaking
      BY <3>1 DEF Hear, Say, Speaking, Answering
    <3>3. Belongs(l, s) /\ l[2] = m
      BY <3>1, <3>2, OwnLine
    <3> QED
      BY <1>1, <2>1, <3>1, <3>3, BelongsStays
  <2> QED
    BY <2>3, <2>4
<1>5. ASSUME NEW m \in Messages, pc'[m] = "model", NEW l \in turn'[m].held
      PROVE  Belongs(l, turn[m].shard)' /\ turn'[m].shard = turn[m].shard
  <2>1. pc[m] \in Speaking
    BY <1>5, HeldIs
  <2>2. turn[m].shard \in Shards
    BY <2>1, SpeakersKnown
  <2>3. l \in Lines
    BY <1>5, <1>2, LinesTyped DEF IInv, Typing, CallsTyped, Turn
  <2>4. \/ pc[m] = "model" /\ l \in turn[m].held
        \/ l \in thread[turn[m].shard]
        \/ l = <<"user", m>>
    BY <1>5, HeldIs
  <2>5. Belongs(<<"user", m>>, turn[m].shard)
    BY <2>1, OwnLine
  <2>6. Belongs(l, turn[m].shard)
    BY <2>2, <2>4, <2>5 DEF Located
  <2>7. turn'[m].shard = turn[m].shard
    BY <1>1, <2>1, Places DEF Steady
  <2>8. PICK s \in Shards : s = turn[m].shard /\ Belongs(l, s)
    BY <2>2, <2>6
  <2>9. Belongs(l, s)'
    BY <1>1, <2>3, <2>8, BelongsStays
  <2> QED
    BY <2>7, <2>8, <2>9 DEF Belongs, Open
<1> QED
  BY <1>3, <1>4, <1>5 DEF Located
\* Only a call under way moves, and it leaves the /clears alone.
LEMMA CallsMove ==
    ASSUME NEW m \in Messages, Route(m) \/ Answer(m)
    PROVE  pc[m] \notin Ended /\ clr' = clr
<1>1. CASE Route(m)
  BY <1>1 DEF Route, QuoteHot, QuoteWarm, OwnerCheck, ActiveHot, ActiveWarm, Load, Touch,
              Activate, NewShard, Found, Ended
<1>2. CASE Answer(m)
  BY <1>2 DEF Answer, EnsureSession, Hear, HearWarm, RowGone, Invoke, Model, Silent, Send, File,
              Say, SayWarm, AppendHot, Ended
<1> QED
  BY <1>1, <1>2

\* What the steps of others do to a call: a message of the same user and a /clear
\* end its being alone, a crash cuts it off.
LEMMA CallStays ==
    ASSUME IInv, [Next]_vars, NEW n \in Messages, pc[n] # "none", ~Route(n), ~Answer(n)
    PROVE  \/ Crash /\ pc[n] \notin Ended /\ pc'[n] = "lost"
           \/ pc'[n] = pc[n] /\ turn'[n] = turn[n]
           \/ /\ pc'[n] = pc[n] /\ pc[n] \notin Ended
              /\ turn'[n] = [turn[n] EXCEPT !.alone = FALSE, !.due = None]
<1>1. ASSUME NEW m \in Messages, Route(m) PROVE pc'[n] = pc[n] /\ turn'[n] = turn[n]
  <2>1. PICK at \in Routing \cup {"session"} : Moves(m, at)
    BY <1>1, MovesBack
  <2> QED
    BY <1>1, <2>1, OneMoves
<1>2. ASSUME NEW m \in Messages, Answer(m) PROVE pc'[n] = pc[n] /\ turn'[n] = turn[n]
  <2>1. PICK at \in Speaking \cup {"done", "failed"} : Moves(m, at)
    BY <1>2, MovesOn
  <2> QED
    BY <1>2, <2>1, OneMoves
<1>3. CASE \E m \in Messages : Receive(m)
  <2>1. PICK m \in Messages : Receive(m)
    BY <1>3
  <2>2. m # n /\ pc'[n] = pc[n]
    BY <2>1 DEF Receive, Move, IInv, Typing, CallsTyped
  <2>3. \/ turn'[n] = turn[n]
        \/ InFlight(n) /\ turn'[n] = [turn[n] EXCEPT !.alone = FALSE, !.due = None]
    BY <2>1, <2>2 DEF Receive
  <2> QED
    BY <2>2, <2>3 DEF InFlight
<1>4. ASSUME NEW o \in Owners, ClearBegins(o)
      PROVE  /\ pc'[n] = pc[n]
             /\ \/ turn'[n] = turn[n]
                \/ InFlight(n) /\ turn'[n] = [turn[n] EXCEPT !.alone = FALSE, !.due = None]
  BY <1>4 DEF ClearBegins
<1>5. ASSUME NEW o \in Owners, ClearSessions(o) \/ ClearActive(o) \/ ClearDrop(o) \/ ClearConv(o)
                               \/ ClearRows(o) \/ ClearThreads(o)
      PROVE  UNCHANGED <<pc, turn>>
  BY <1>5 DEF ClearSessions, ClearActive, ClearDrop, ClearConv, ClearRows, ClearThreads, ClearStep
<1>6. CASE Crash
  BY <1>6 DEF Crash, InFlight
<1>7. CASE Expire \/ UNCHANGED vars
  BY <1>7 DEF Expire, vars, process
<1> QED
  BY <1>1, <1>2, <1>3, <1>4, <1>5, <1>6, <1>7 DEF Next, Clearing, InFlight

\* A call that is over stays as it is.
LEMMA EndsForGood ==
    ASSUME IInv, [Next]_vars, NEW n \in Messages, pc[n] \in Ended \ {"none"}
    PROVE  pc'[n] = pc[n] /\ turn'[n] = turn[n]
BY CallStays, CallsMove

\* What a call about to write to Postgres does next.
LEMMA WritesOrEnds ==
    ASSUME IInv, [Next]_vars, NEW n \in Messages, pc[n] \in {"hearWarm", "sayWarm"}
    PROVE  \/ pc'[n] = pc[n] \/ pc'[n] = "lost"
           \/ HearWarm(n) \/ SayWarm(n) \/ RowGone(n)
<1>1. Route(n) \/ Answer(n) => HearWarm(n) \/ SayWarm(n) \/ RowGone(n)
  BY DEF Route, QuoteHot, QuoteWarm, OwnerCheck, ActiveHot, ActiveWarm, Load, Touch, Activate,
         NewShard, Answer, EnsureSession, Hear, Invoke, Model, Silent, Send, File, Say
<1> QED
  BY <1>1, CallStays

\* What Redis shows more than Postgres is written next, or was cut off.
LEMMA WithinStep ==
    ASSUME IInv, RestTyped, Located, HotWithinWarm, [Next]_vars PROVE HotWithinWarm'
<1> SUFFICES ASSUME NEW u \in Users, NEW s \in Shards, s \notin wiped',
                    NEW l \in conv'[u][s], l \notin turns'[s]
             PROVE  Showing(l)'
  BY DEF HotWithinWarm, Showing
<1>1. s \notin wiped /\ l \notin turns[s]
  <2>1. s \notin wiped
    BY AlwaysOpen DEF StayOpen
  <2> QED
    BY <2>1, TurnsGrow
<1>2. l \in Lines /\ l[2] \in Messages
  <2>1. RestTyped'
    BY StepTypes
  <2> QED
    BY <2>1 DEF RestTyped, Lines
<1>3. CASE l \in conv[u][s]
  <2> DEFINE n == l[2]
  <2>1. turn[n].shard = s
    BY <1>3 DEF Located, Belongs
  <2>2. Showing(l)
    BY <1>1, <1>3 DEF HotWithinWarm, Showing
  <2>3. CASE pc[n] = "lost"
    <3>1. pc'[n] = "lost"
      BY <1>2, <2>3, EndsForGood DEF Ended
    <3> QED
      BY <3>1 DEF Showing
  <2>4. CASE pc[n] = IF l[1] = "user" THEN "hearWarm" ELSE "sayWarm"
    <3>1. row[s] # None
      <4>1. s \notin unused
        BY <1>2, <2>1, <2>4, Known
      <4> QED
        BY <1>1, <4>1 DEF IInv, Ownership, RowsKept
    <3>2. ~RowGone(n)
      BY <2>1, <3>1 DEF RowGone
    <3>3. l = Line(n)
      BY <1>2, <2>4 DEF Line, Lines
    <3>4. ~HearWarm(n) /\ ~SayWarm(n)
      <4>1. ASSUME HearWarm(n) \/ SayWarm(n) PROVE l \in turns'[s]
        BY <2>1, <2>4, <3>3, <4>1 DEF HearWarm, SayWarm, AppendWarm, RestTyped, Line
      <4> QED
        BY <4>1
    <3>5. pc'[n] = pc[n] \/ pc'[n] = "lost"
      BY <1>2, <2>4, <3>2, <3>4, WritesOrEnds
    <3> QED
      BY <2>4, <3>5 DEF Showing
  <2> QED
    BY <2>2, <2>3, <2>4 DEF Showing
<1>4. CASE l \notin conv[u][s]
  <2>1. PICK m \in Messages : (Hear(m) \/ Say(m)) /\ l = Line(m)
    BY <1>4, ConvGrows
  <2>2. CASE Hear(m)
    <3>1. pc'[m] = "hearWarm" /\ l = <<"user", m>>
      BY <2>1, <2>2 DEF Hear, AppendHot, Move, Line, IInv, Typing, CallsTyped
    <3> QED
      BY <3>1 DEF Showing
  <2>3. CASE Say(m)
    <3>1. pc'[m] = "sayWarm" /\ l = <<"bot", m>>
      BY <2>1, <2>3 DEF Say, AppendHot, Move, Line, IInv, Typing, CallsTyped
    <3> QED
      BY <3>1 DEF Showing
  <2> QED
    BY <2>1, <2>2, <2>3
<1> QED
  BY <1>3, <1>4

-----------------------------------------------------------------------------
(***************************************************************************)
(* What a /clear sweeps up                                                 *)
(***************************************************************************)

\* How far the undisturbed /clear of o is with what its user said and heard: no
\* call is under way, and what is left of the line l in the shard s is on the
\* list that the next steps work through.
Swept(o, l, s) ==
    LET c == clr[o]
    IN  /\ c.at = "sessions" /\ l \in conv[o][s] \cup thread[s] => session[s] = o
        /\ c.at \in {"active", "drop", "conv"} /\ l \in conv[o][s] => s \in c.shards
        /\ c.at \in {"rows", "threads"} => l \notin conv[o][s]
        /\ c.at # "threads" /\ l \in turns[s] => row[s] = o
        /\ c.at = "threads" => l \notin turns[s]
        /\ c.at # "sessions" /\ l \in thread[s] => s \in c.threads

Calm(o) == clr[o].at # "idle" /\ clr[o].calm

Sweeping ==
    \A o \in Owners : Calm(o) =>
        /\ \A m \in Messages : pc[m] \in Ended
        /\ \A m \in clr[o].past : pc[m] # "none" /\ turn[m].user = o
        /\ \A l \in LinesOf(clr[o].past), s \in Shards : Swept(o, l, s)

\* A /clear adds nothing to a store, and the stores of another user in Redis
\* stay as they are.
LEMMA ClearsTake ==
    ASSUME IInv, RestTyped, NEW p \in Owners, Clearing(p)
    PROVE  /\ UNCHANGED <<pc, session>>
           /\ \A m \in Messages : pc[m] \in Ended => turn'[m] = turn[m]
           /\ \A o \in Owners \ {p} : clr'[o] = clr[o]
           /\ \A s \in Shards : /\ turns'[s] \subseteq turns[s] /\ thread'[s] \subseteq thread[s]
                                /\ turns'[s] = {} \/ row'[s] = row[s]
           /\ \A u \in Users, s \in Shards : conv'[u][s] \subseteq conv[u][s]
<1>1. p \in Users
  BY ShardAssumption
<1>2. /\ \A r \in clr[p].shards : r \in Shards
      /\ \A r \in clr[p].threads : r \in Shards
  BY ClearTyped
<1>3. UNCHANGED <<pc, session>> /\ \E c : clr' = [clr EXCEPT ![p] = c]
  BY DEF Clearing, ClearBegins, ClearSessions, ClearActive, ClearDrop, ClearConv, ClearRows,
         ClearThreads, ClearStep, warm
<1>4. \A m \in Messages : pc[m] \in Ended => turn'[m] = turn[m]
  BY OthersMove
<1>5. \A o \in Owners \ {p} : clr'[o] = clr[o]
  BY <1>3 DEF RestTyped
<1>6. ASSUME NEW s \in Shards
      PROVE  /\ turns'[s] \subseteq turns[s] /\ thread'[s] \subseteq thread[s]
             /\ turns'[s] = {} \/ row'[s] = row[s]
             /\ \A u \in Users : conv'[u][s] \subseteq conv[u][s]
  <2>1. CASE ClearBegins(p) \/ ClearSessions(p) \/ ClearActive(p) \/ ClearDrop(p)
    BY <2>1 DEF ClearBegins, ClearSessions, ClearActive, ClearDrop, warm, hot
  <2>2. CASE ClearConv(p)
    <3>1. /\ UNCHANGED <<row, turns, thread>>
          /\ conv' = conv \/ \E r \in clr[p].shards : conv' = [conv EXCEPT ![p][r] = {}]
      BY <2>2 DEF ClearConv, warm, hot
    <3> QED
      BY <1>1, <1>2, <3>1 DEF RestTyped
  <2>3. CASE ClearRows(p)
    <3>1. /\ UNCHANGED <<thread, conv>>
          /\ row' = [r \in Shards |-> IF r \in {q \in Shards : row[q] = p} THEN None ELSE row[r]]
          /\ turns' = [r \in Shards |-> IF r \in {q \in Shards : row[q] = p} THEN {} ELSE turns[r]]
      BY <2>3 DEF ClearRows, hot
    <3> QED
      BY <3>1
  <2>4. CASE ClearThreads(p)
    <3>1. /\ UNCHANGED <<row, turns, conv>>
          /\ thread' = thread \/ \E r \in clr[p].threads : thread' = [thread EXCEPT ![r] = {}]
      BY <2>4 DEF ClearThreads, warm, hot
    <3> QED
      BY <1>2, <3>1 DEF IInv, Typing, StoresTyped
  <2> QED
    BY <2>1, <2>2, <2>3, <2>4 DEF Clearing
<1> QED
  BY <1>3, <1>4, <1>5, <1>6

\* A /clear begins with everything of its user on its lists.
LEMMA BeginsSwept ==
    ASSUME IInv, RestTyped, SessionsKept, Located, NEW o \in Owners, ClearBegins(o), Calm(o)'
    PROVE  /\ \A m \in Messages : pc[m] \in Ended
           /\ clr'[o].at = "sessions"
           /\ \A m \in clr'[o].past : m \in Messages /\ pc[m] # "none" /\ turn[m].user = o
           /\ \A l \in LinesOf(clr'[o].past), s \in Shards : Swept(o, l, s)'
<1>1. /\ clr'[o].at = "sessions" /\ clr'[o].past = Past(o)
      /\ clr'[o].calm = ~\E m \in Messages : InFlight(m)
      /\ UNCHANGED <<row, turns, thread, session, conv>>
  BY DEF ClearBegins, RestTyped, warm, hot
<1>2. \A m \in Messages : pc[m] \in Ended
  BY <1>1 DEF Calm, InFlight
<1>3. ASSUME NEW l \in LinesOf(Past(o)), NEW s \in Shards
      PROVE  /\ l \in conv[o][s] \cup thread[s] => session[s] = o
             /\ l \in turns[s] => row[s] = o
  <2>1. /\ l[2] \in Messages /\ turn[l[2]].user = o /\ turn[l[2]].shard \notin wiped
    BY <1>3 DEF LinesOf, Past
  <2>2. ASSUME Belongs(l, s) PROVE session[s] = o /\ row[s] = o
    BY <2>1, <2>2 DEF Belongs, SessionsKept, Open
  <2>3. o \in Users
    BY ShardAssumption
  <2> QED
    BY <2>2, <2>3 DEF Located
<1>4. ASSUME NEW l \in LinesOf(Past(o)), NEW s \in Shards PROVE Swept(o, l, s)'
  BY <1>1, <1>3 DEF Swept
<1> QED
  BY <1>1, <1>2, <1>4 DEF Past

\* Every step of a /clear removes what it has on its list, and lists the rest.
LEMMA SweepsOn ==
    ASSUME IInv, RestTyped, Located, Sweeping, NEW o \in Owners,
           Clearing(o), ~ClearBegins(o), Calm(o)'
    PROVE  /\ Calm(o) /\ clr'[o].past = clr[o].past
           /\ \A l \in LinesOf(clr[o].past), s \in Shards : Swept(o, l, s)'
<1> DEFINE c == clr[o]
<1>1. /\ c \in Clear /\ o \in Users
  BY ClearTyped, ShardAssumption
<1>2. ASSUME NEW next \in Clear, clr' = [clr EXCEPT ![o] = next] PROVE clr'[o] = next
  BY <1>2 DEF RestTyped
<1>3. ASSUME NEW l \in LinesOf(c.past), NEW s \in Shards, Calm(o) PROVE Swept(o, l, s)
  BY <1>3 DEF Sweeping
<1>4. CASE ClearSessions(o)
  <2> DEFINE known == c.threads \cup {s \in Shards : session[s] = o}
  <2>1. /\ clr' = [clr EXCEPT ![o] = [c EXCEPT !.at = "active", !.threads = known,
                                               !.shards = known]]
        /\ c.at = "sessions"
        /\ UNCHANGED <<row, turns, thread, conv>>
    BY <1>4 DEF ClearSessions, ClearStep, warm, hot
  <2>2. /\ clr'[o].at = "active" /\ clr'[o].threads = known /\ clr'[o].shards = known
        /\ clr'[o].past = c.past /\ clr'[o].calm = c.calm
    BY <1>1, <2>1 DEF RestTyped, Clear
  <2>3. Calm(o)
    BY <2>1, <2>2 DEF Calm
  <2>4. ASSUME NEW l \in LinesOf(c.past), NEW s \in Shards PROVE Swept(o, l, s)'
    BY <1>3, <2>1, <2>2, <2>3 DEF Swept
  <2> QED
    BY <2>2, <2>3, <2>4
<1>5. CASE ClearActive(o)
  <2>1. /\ clr' = [clr EXCEPT ![o] = [c EXCEPT !.at = "drop",
                                               !.shards = @ \cup ({active[o]} \ {None})]]
        /\ c.at = "active"
        /\ UNCHANGED <<row, turns, thread, conv>>
    BY <1>5 DEF ClearActive, ClearStep, warm, hot
  <2>2. /\ clr'[o].at = "drop" /\ clr'[o].threads = c.threads
        /\ c.shards \subseteq clr'[o].shards
        /\ clr'[o].past = c.past /\ clr'[o].calm = c.calm
    BY <1>1, <2>1 DEF RestTyped, Clear
  <2>3. Calm(o)
    BY <2>1, <2>2 DEF Calm
  <2>4. ASSUME NEW l \in LinesOf(c.past), NEW s \in Shards PROVE Swept(o, l, s)'
    BY <1>3, <2>1, <2>2, <2>3 DEF Swept
  <2> QED
    BY <2>2, <2>3, <2>4
<1>6. CASE ClearDrop(o)
  <2>1. /\ clr' = [clr EXCEPT ![o] = [c EXCEPT !.at = "conv"]]
        /\ c.at = "drop"
        /\ UNCHANGED <<row, turns, thread, conv>>
    BY <1>6 DEF ClearDrop, ClearStep, warm
  <2>2. /\ clr'[o].at = "conv" /\ clr'[o].threads = c.threads /\ clr'[o].shards = c.shards
        /\ clr'[o].past = c.past /\ clr'[o].calm = c.calm
    BY <1>1, <2>1 DEF RestTyped, Clear
  <2>3. Calm(o)
    BY <2>1, <2>2 DEF Calm
  <2>4. ASSUME NEW l \in LinesOf(c.past), NEW s \in Shards PROVE Swept(o, l, s)'
    BY <1>3, <2>1, <2>2, <2>3 DEF Swept
  <2> QED
    BY <2>2, <2>3, <2>4
<1>7. CASE ClearConv(o)
  <2>1. c.at = "conv" /\ UNCHANGED <<row, turns, thread>>
    BY <1>7 DEF ClearConv, ClearStep, warm
  <2>2. CASE \E r \in c.shards : /\ clr' = [clr EXCEPT ![o] = [c EXCEPT !.shards = @ \ {r}]]
                                 /\ conv' = [conv EXCEPT ![o][r] = {}]
    <3>1. PICK r \in c.shards : /\ clr' = [clr EXCEPT ![o] = [c EXCEPT !.shards = @ \ {r}]]
                                /\ conv' = [conv EXCEPT ![o][r] = {}]
      BY <2>2
    <3>2. /\ clr'[o].at = "conv" /\ clr'[o].threads = c.threads
          /\ clr'[o].shards = c.shards \ {r}
          /\ clr'[o].past = c.past /\ clr'[o].calm = c.calm
      BY <1>1, <2>1, <3>1 DEF RestTyped, Clear
    <3>3. \A s \in Shards : conv'[o][s] = IF s = r THEN {} ELSE conv[o][s]
      BY <1>1, <3>1 DEF RestTyped
    <3>4. Calm(o)
      BY <2>1, <3>2 DEF Calm
    <3>5. ASSUME NEW l \in LinesOf(c.past), NEW s \in Shards PROVE Swept(o, l, s)'
      BY <1>3, <2>1, <3>2, <3>3, <3>4 DEF Swept
    <3> QED
      BY <3>2, <3>4, <3>5
  <2>3. CASE /\ c.shards = {}
             /\ clr' = [clr EXCEPT ![o] = [c EXCEPT !.at = "rows"]] /\ conv' = conv
    <3>1. /\ clr'[o].at = "rows" /\ clr'[o].threads = c.threads
          /\ clr'[o].past = c.past /\ clr'[o].calm = c.calm
      BY <1>1, <2>3 DEF RestTyped, Clear
    <3>2. Calm(o)
      BY <2>1, <3>1 DEF Calm
    <3>3. ASSUME NEW l \in LinesOf(c.past), NEW s \in Shards PROVE Swept(o, l, s)'
      BY <1>3, <2>1, <2>3, <3>1, <3>2 DEF Swept
    <3> QED
      BY <3>1, <3>2, <3>3
  <2> QED
    BY <1>7, <2>2, <2>3 DEF ClearConv, ClearStep, hot
<1>8. CASE ClearRows(o)
  <2> DEFINE dropped == {s \in Shards : row[s] = o}
  <2>1. /\ clr' = [clr EXCEPT ![o] = [c EXCEPT !.at = "threads", !.threads = @ \cup dropped]]
        /\ c.at = "rows"
        /\ turns' = [s \in Shards |-> IF s \in dropped THEN {} ELSE turns[s]]
        /\ UNCHANGED <<thread, conv>>
    BY <1>8 DEF ClearRows, ClearStep, hot
  <2>2. /\ clr'[o].at = "threads" /\ c.threads \subseteq clr'[o].threads
        /\ clr'[o].past = c.past /\ clr'[o].calm = c.calm
    BY <1>1, <2>1 DEF RestTyped, Clear
  <2>3. Calm(o)
    BY <2>1, <2>2 DEF Calm
  <2>4. ASSUME NEW l \in LinesOf(c.past), NEW s \in Shards PROVE Swept(o, l, s)'
    BY <1>3, <2>1, <2>2, <2>3 DEF Swept
  <2> QED
    BY <2>2, <2>3, <2>4
<1>9. CASE ClearThreads(o)
  <2>1. c.at = "threads" /\ UNCHANGED <<row, turns, conv>>
    BY <1>9 DEF ClearThreads, ClearStep, warm, hot
  <2>2. PICK r \in c.threads : /\ clr' = [clr EXCEPT ![o] = [c EXCEPT !.threads = @ \ {r}]]
                               /\ thread' = [thread EXCEPT ![r] = {}]
    <3>1. clr'[o] # IdleClear
      BY DEF Calm, IdleClear
    <3> QED
      BY <1>9, <3>1 DEF ClearThreads, ClearStep, RestTyped
  <2>3. /\ clr'[o].at = "threads" /\ clr'[o].threads = c.threads \ {r}
        /\ clr'[o].past = c.past /\ clr'[o].calm = c.calm
    BY <1>1, <2>1, <2>2 DEF RestTyped, Clear
  <2>4. \A s \in Shards : thread'[s] = IF s = r THEN {} ELSE thread[s]
    BY <2>2 DEF IInv, Typing, StoresTyped
  <2>5. Calm(o)
    BY <2>1, <2>3 DEF Calm
  <2>6. ASSUME NEW l \in LinesOf(c.past), NEW s \in Shards PROVE Swept(o, l, s)'
    BY <1>3, <2>1, <2>3, <2>4, <2>5 DEF Swept
  <2> QED
    BY <2>3, <2>5, <2>6
<1> QED
  BY <1>4, <1>5, <1>6, <1>7, <1>8, <1>9 DEF Clearing

\* An undisturbed /clear stays on top of what it has to forget, whatever happens.
LEMMA SweepingStep ==
    ASSUME IInv, RestTyped, SessionsKept, Located, Sweeping, [Next]_vars PROVE Sweeping'
<1> SUFFICES ASSUME NEW o \in Owners, Calm(o)'
             PROVE  /\ \A m \in Messages : pc'[m] \in Ended
                    /\ \A m \in clr'[o].past : pc'[m] # "none" /\ turn'[m].user = o
                    /\ \A l \in LinesOf(clr'[o].past), s \in Shards : Swept(o, l, s)'
  BY DEF Sweeping
<1>1. o \in Users /\ clr[o].past \subseteq Messages
  BY ClearTyped, ShardAssumption
<1>2. ASSUME Calm(o)
      PROVE  /\ \A m \in Messages : pc[m] \in Ended
             /\ \A m \in clr[o].past : m \in Messages /\ pc[m] # "none" /\ turn[m].user = o
             /\ \A l \in LinesOf(clr[o].past), s \in Shards : Swept(o, l, s)
  BY <1>1, <1>2 DEF Sweeping
<1>3. ASSUME NEW m \in Messages, Receive(m) PROVE FALSE
  <2>1. clr'[o].calm = FALSE
    BY <1>3, ClearTyped DEF Receive, Clear
  <2> QED
    BY <2>1 DEF Calm
<1>4. ASSUME NEW m \in Messages, Route(m) \/ Answer(m) PROVE FALSE
  <2>1. pc[m] \notin Ended /\ clr' = clr
    BY <1>4, CallsMove
  <2> QED
    BY <1>2, <2>1 DEF Calm
<1>5. ASSUME Crash PROVE FALSE
  BY <1>5 DEF Crash, IdleClear, Calm
<1>6. CASE Expire \/ UNCHANGED vars
  <2>1. UNCHANGED <<pc, turn, clr, session, conv, turns, thread, row>>
    BY <1>6 DEF Expire, vars, warm, hot, process
  <2>2. ASSUME NEW l, NEW s, Swept(o, l, s) PROVE Swept(o, l, s)'
    BY <2>1, <2>2 DEF Swept
  <2> QED
    BY <1>2, <2>1, <2>2 DEF Calm
<1>7. ASSUME NEW p \in Owners, Clearing(p), p # o
      PROVE  /\ \A m \in Messages : pc'[m] \in Ended
             /\ \A m \in clr'[o].past : pc'[m] # "none" /\ turn'[m].user = o
             /\ \A l \in LinesOf(clr'[o].past), s \in Shards : Swept(o, l, s)'
  <2>1. /\ UNCHANGED <<pc, session>> /\ clr'[o] = clr[o]
        /\ \A m \in Messages : pc[m] \in Ended => turn'[m] = turn[m]
        /\ \A s \in Shards : /\ turns'[s] \subseteq turns[s] /\ thread'[s] \subseteq thread[s]
                             /\ turns'[s] = {} \/ row'[s] = row[s]
                             /\ conv'[o][s] \subseteq conv[o][s]
    BY <1>1, <1>7, ClearsTake
  <2>2. Calm(o)
    BY <2>1 DEF Calm
  <2>3. ASSUME NEW l, NEW s \in Shards, Swept(o, l, s) PROVE Swept(o, l, s)'
    BY <2>1, <2>3 DEF Swept
  <2> QED
    BY <1>2, <2>1, <2>2, <2>3
<1>8. CASE ClearBegins(o)
  <2>1. /\ \A m \in Messages : pc[m] \in Ended
        /\ \A m \in clr'[o].past : m \in Messages /\ pc[m] # "none" /\ turn[m].user = o
        /\ \A l \in LinesOf(clr'[o].past), s \in Shards : Swept(o, l, s)'
    BY <1>8, BeginsSwept
  <2>2. pc' = pc /\ \A m \in Messages : pc[m] \in Ended => turn'[m] = turn[m]
    BY <1>8, ClearsTake DEF Clearing
  <2> QED
    BY <2>1, <2>2
<1>9. CASE Clearing(o) /\ ~ClearBegins(o)
  <2>1. /\ Calm(o) /\ clr'[o].past = clr[o].past
        /\ \A l \in LinesOf(clr[o].past), s \in Shards : Swept(o, l, s)'
    BY <1>9, SweepsOn
  <2>2. pc' = pc /\ \A m \in Messages : pc[m] \in Ended => turn'[m] = turn[m]
    BY <1>9, ClearsTake
  <2> QED
    BY <1>2, <2>1, <2>2
<1> QED
  BY <1>3, <1>4, <1>5, <1>6, <1>7, <1>8, <1>9 DEF Next

\* Nothing is left of a line, and nobody is about to write it again.
Free(l) ==
    /\ l \in Lines /\ pc[l[2]] \in Ended \ {"none"}
    /\ \A m \in Messages : pc[m] = "model" => l \notin turn[m].held
    /\ \A s \in Shards : l \notin turns[s] \cup thread[s]
    /\ \A u \in Users, s \in Shards : l \notin conv[u][s]

\* A line of which nothing is left does not come back.
LEMMA FreeStays ==
    ASSUME IInv, RestTyped, [Next]_vars, NEW l \in Lines, Free(l) PROVE Free(l)'
<1>1. l[2] \in Messages /\ pc[l[2]] \in Ended \ {"none"}
  BY DEF Free, Lines
<1>2. pc'[l[2]] = pc[l[2]]
  BY <1>1, EndsForGood
<1>3. ASSUME NEW m \in Messages, pc[m] \in Speaking PROVE l # Line(m) /\ l # <<"user", m>>
  <2>1. l[2] # m
    BY <1>1, <1>3, Places
  <2> QED
    BY <2>1, LinesAre
<1>4. ASSUME NEW m \in Messages, pc'[m] = "model" PROVE l \notin turn'[m].held
  <2>1. pc[m] \in Speaking
    BY <1>4, HeldIs
  <2>2. turn[m].shard \in Shards
    BY <2>1, SpeakersKnown
  <2>3. \/ pc[m] = "model" /\ turn'[m].held \subseteq turn[m].held
        \/ turn'[m].held \subseteq thread[turn[m].shard] \cup {<<"user", m>>}
    BY <1>4, HeldIs
  <2> QED
    BY <1>3, <2>1, <2>2, <2>3 DEF Free
<1>5. ASSUME NEW s \in Shards PROVE l \notin turns'[s]
  <2>1. SUFFICES ASSUME l \in turns'[s] PROVE FALSE
    OBVIOUS
  <2>2. \/ l \in turns[s]
        \/ \E m \in Messages : (HearWarm(m) \/ SayWarm(m)) /\ l = Line(m) /\ turn[m].shard = s
    BY <2>1, TurnsGrow
  <2>3. \A m \in Messages : HearWarm(m) \/ SayWarm(m) => pc[m] \in Speaking
    BY DEF HearWarm, SayWarm, Speaking, Answering
  <2> QED
    BY <1>3, <2>2, <2>3 DEF Free
<1>6. ASSUME NEW s \in Shards PROVE l \notin thread'[s]
  <2>1. SUFFICES ASSUME l \in thread'[s] PROVE FALSE
    OBVIOUS
  <2>2. \/ l \in thread[s]
        \/ \E m \in Messages : /\ pc[m] \in Speaking /\ turn[m].shard = s
                               /\ l = Line(m) \/ (pc[m] = "model" /\ l \in turn[m].held)
    BY <2>1, ThreadGrows
  <2> QED
    BY <1>3, <2>2 DEF Free
<1>7. ASSUME NEW u \in Users, NEW s \in Shards PROVE l \notin conv'[u][s]
  <2>1. SUFFICES ASSUME l \in conv'[u][s] PROVE FALSE
    OBVIOUS
  <2>2. \/ l \in conv[u][s]
        \/ \E m \in Messages : /\ Hear(m) \/ Say(m)
                               /\ l = Line(m) /\ turn[m].user = u /\ turn[m].shard = s
    BY <2>1, ConvGrows
  <2>3. \A m \in Messages : Hear(m) \/ Say(m) => pc[m] \in Speaking
    BY DEF Hear, Say, Speaking, Answering
  <2> QED
    BY <1>3, <2>2, <2>3 DEF Free
<1> QED
  BY <1>1, <1>2, <1>4, <1>5, <1>6, <1>7 DEF Free

\* When an undisturbed /clear ends, nothing is left of what it was to forget.
LEMMA EndsSwept ==
    ASSUME IInv, RestTyped, Located, Sweeping, NEW o \in Owners, Calm(o),
           clr[o].at = "threads", clr[o].threads = {}, NEW l \in LinesOf(clr[o].past)
    PROVE  Free(l)
<1>1. o \in Users /\ clr[o].past \subseteq Messages
  BY ClearTyped, ShardAssumption
<1>2. l \in Lines /\ l[2] \in clr[o].past
  BY <1>1 DEF LinesOf, Lines
<1>3. /\ \A m \in Messages : pc[m] \in Ended
      /\ pc[l[2]] # "none" /\ turn[l[2]].user = o
      /\ \A s \in Shards : Swept(o, l, s)
  BY <1>2 DEF Sweeping
<1>4. \A m \in Messages : pc[m] # "model"
  BY <1>3 DEF Ended
<1>5. \A s \in Shards : l \notin conv[o][s] /\ l \notin turns[s] /\ l \notin thread[s]
  BY <1>3 DEF Swept
<1>6. \A u \in Users, s \in Shards : l \in conv[u][s] => u = o
  BY <1>3 DEF Located
<1> QED
  BY <1>1, <1>2, <1>3, <1>4, <1>5, <1>6 DEF Free

\* What was forgotten stays forgotten, and only what is gone is counted as such.
LEMMA GoneStep ==
    ASSUME IInv, RestTyped, Located, Sweeping, \A l \in gone : Free(l), [Next]_vars,
           NEW l \in gone'
    PROVE  Free(l)'
<1>1. l \in Lines
  <2>1. RestTyped'
    BY StepTypes
  <2> QED
    BY <2>1 DEF RestTyped
<1>2. CASE l \in gone
  BY <1>1, <1>2, FreeStays
<1>3. CASE l \notin gone
  <2>1. PICK o \in Owners : ClearThreads(o) /\ gone' # gone
    <3>1. ASSUME NEW m \in Messages, Receive(m) PROVE gone' = gone
      BY <3>1 DEF Receive, history
    <3>2. ASSUME NEW m \in Messages, Plain(m) PROVE gone' = gone
      BY <3>2, PlainRest DEF rest
    <3>3. ASSUME NEW m \in Messages, Touch(m) \/ NewShard(m) PROVE gone' = gone
      BY <3>3 DEF Touch, NewShard, history
    <3>4. ASSUME NEW m \in Messages,
                 EnsureSession(m) \/ Hear(m) \/ HearWarm(m) \/ Send(m) \/ Say(m) \/ SayWarm(m)
          PROVE  gone' = gone
      BY <3>4 DEF EnsureSession, Hear, HearWarm, Send, Say, SayWarm, AppendHot, Finish, history
    <3>5. ASSUME NEW o \in Owners, ClearBegins(o) \/ ClearSessions(o) \/ ClearActive(o)
                                   \/ ClearDrop(o) \/ ClearConv(o) \/ ClearRows(o)
          PROVE  gone' = gone
      BY <3>5 DEF ClearBegins, ClearSessions, ClearActive, ClearDrop, ClearConv, ClearRows, history
    <3>6. CASE Expire \/ Crash \/ UNCHANGED vars
      BY <1>3, <3>6 DEF Expire, Crash, vars, history
    <3> QED
      BY <1>3, <3>1, <3>2, <3>3, <3>4, <3>5, <3>6 DEF Next, Route, Answer, Clearing, Plain
  <2>2. /\ clr[o].at = "threads" /\ clr[o].threads = {} /\ clr[o].calm
        /\ gone' = gone \cup LinesOf(clr[o].past)
    BY <2>1 DEF ClearThreads, ClearStep, history
  <2>3. Free(l)
    BY <1>3, <2>2, EndsSwept DEF Calm
  <2> QED
    BY <1>1, <2>3, FreeStays
<1> QED
  BY <1>2, <1>3

-----------------------------------------------------------------------------
(***************************************************************************)
(* The theorems about the stores                                           *)
(***************************************************************************)
StoresInv ==
    /\ IInv /\ RestTyped /\ SessionsKept /\ Located /\ HotWithinWarm /\ Sweeping
    /\ \A l \in gone : Free(l)

\* In the beginning nothing is stored and nothing has been forgotten.
LEMMA InitStores == Init => StoresInv
<1> SUFFICES ASSUME Init PROVE StoresInv
  OBVIOUS
<1>1. IInv
  BY InitOwned
<1>2. RestTyped
  <2>1. IdleClear \in Clear
    BY DEF IdleClear, Clear
  <2> QED
    BY <2>1, ShardAssumption DEF Init, RestTyped
<1>3. SessionsKept /\ Located /\ HotWithinWarm
  BY DEF Init, SessionsKept, Located, HotWithinWarm, Speaking, Answering
<1>4. Sweeping
  BY DEF Init, Sweeping, Calm, IdleClear
<1> QED
  BY <1>1, <1>2, <1>3, <1>4 DEF Init, StoresInv

\* No step breaks what is known of the stores.
LEMMA StoresStep == StoresInv /\ [Next]_vars => StoresInv'
<1> SUFFICES ASSUME StoresInv, [Next]_vars PROVE StoresInv'
  OBVIOUS
<1>1. IInv' /\ RestTyped'
  BY StepInvariant, StepTypes DEF StoresInv
<1>2. SessionsKept' /\ Located' /\ HotWithinWarm' /\ Sweeping'
  BY SessionsStep, LocatedStep, WithinStep, SweepingStep DEF StoresInv
<1>3. \A l \in gone' : Free(l)'
  BY GoneStep DEF StoresInv
<1> QED
  BY <1>1, <1>2, <1>3 DEF StoresInv

\* In every state that can be reached each stored line is in the shard of its
\* message, and an undisturbed /clear has everything of its user in hand.
THEOREM Kept == Spec => []StoresInv
<1> QED
  BY InitStores, StoresStep, PTL DEF Spec

\* Every variable keeps its type.
THEOREM ShardsTyped == Spec => []ShardTypeOK
<1>1. StoresInv => ShardTypeOK
  BY DEF StoresInv, IInv, Typing, StoresTyped, CallsTyped, RestTyped, ShardTypeOK
<1> QED
  BY <1>1, Kept, PTL

\* The cache shows nothing that Postgres does not have, but for the line that is
\* being written, lines whose writer was cut off and dropped shards
\* (pipeline.py:246-254).
THEOREM CacheAgrees == Spec => []HotWithinWarm
<1>1. StoresInv => HotWithinWarm
  BY DEF StoresInv
<1> QED
  BY <1>1, Kept, PTL

\* What an undisturbed /clear has forgotten is in none of the stores and never
\* comes back (chat.py:386-412).
THEOREM ForgottenForGood == Spec => []Forgotten
<1>1. StoresInv => Forgotten
  BY DEF StoresInv, Free, Forgotten
<1> QED
  BY <1>1, Kept, PTL

-----------------------------------------------------------------------------
(***************************************************************************)
(* Where a message comes home to                                           *)
(***************************************************************************)

\* d is the newest row of u that no /clear has touched, ...
Newest(u, d) == \A s \in Shards \ wiped : row[s] = u /\ s # d => <<s, d>> \in newer

\* ... Redis does not know better, and d is still the user's.
AtHome(u, d) == row[d] = u /\ active[u] \in {d, None} /\ Newest(u, d)

\* Among any rows there is one that none of them is newer than.
Ordered ==
    \A R \in SUBSET Shards : R # {} /\ (\A s \in R : row[s] # None)
        => \E s \in R : \A r \in R : <<s, r>> \notin newer

\* A reply that was delivered and stored is known by its shard.
Replied ==
    \A n \in Messages :
        /\ bound[<<"bot", n>>] # None
             => pc[n] \in {"sayWarm", "done", "failed", "lost"} /\ bound[<<"bot", n>>] = turn[n].shard
        /\ n \in sent => pc[n] \in {"file", "say", "sayWarm", "done", "failed", "lost"}
        /\ n \in sent /\ pc[n] \in {"say", "sayWarm", "done"} => filed[n] = turn[n].shard

\* The rows and their order change with a message that takes a shard and with a
\* /clear that drops some.
LEMMA RowMoves ==
    ASSUME [Next]_vars
    PROVE  \/ UNCHANGED <<row, newer>>
           \/ \E m \in Messages : Touch(m) \/ NewShard(m)
           \/ \E o \in Owners : ClearRows(o)
<1>1. ASSUME NEW m \in Messages, Receive(m) \/ Plain(m) PROVE UNCHANGED <<row, newer>>
  BY <1>1 DEF Plain, QuoteHot, QuoteWarm, OwnerCheck, ActiveHot, ActiveWarm, Load, Activate,
              RowGone, File, Invoke, Model, Silent, Found, Receive, warm
<1>2. ASSUME NEW m \in Messages,
             EnsureSession(m) \/ Hear(m) \/ HearWarm(m) \/ Send(m) \/ Say(m) \/ SayWarm(m)
      PROVE  UNCHANGED <<row, newer>>
  BY <1>2 DEF EnsureSession, Hear, HearWarm, Send, Say, SayWarm, AppendHot, AppendWarm, warm
<1>3. ASSUME NEW o \in Owners, ClearBegins(o) \/ ClearSessions(o) \/ ClearActive(o)
                               \/ ClearDrop(o) \/ ClearConv(o) \/ ClearThreads(o)
      PROVE  UNCHANGED <<row, newer>>
  BY <1>3 DEF ClearBegins, ClearSessions, ClearActive, ClearDrop, ClearConv, ClearThreads, warm
<1>4. CASE Expire \/ Crash \/ UNCHANGED vars
  BY <1>4 DEF Expire, Crash, vars, warm
<1> QED
  BY <1>1, <1>2, <1>3, <1>4 DEF Next, Route, Answer, Clearing, Plain

\* A message takes its shard, which is its user's unless a /clear has dropped it.
LEMMA Takes ==
    ASSUME IInv, NEW m \in Messages, Touch(m) \/ NewShard(m)
    PROVE  \E s \in Shards, o \in Users :
              /\ row' = [row EXCEPT ![s] = o] /\ newer' = Renewed(s) /\ wiped' = wiped
              /\ turn'[m].shard = s /\ turn'[m].user = turn[m].user
              /\ s \in wiped \/ (o = turn[m].user /\ row[s] \in {o, None})
<1>1. CASE Touch(m)
  <2> DEFINE t == turn[m]
             o == IF t.owner = None THEN t.user ELSE t.owner
  <2>1. /\ t \in Turn /\ t.user \in Users /\ t.shard \in Shards
        /\ Open(t.shard, t.user) /\ (t.shard \in wiped \/ t.owner = t.user)
    BY <1>1, Known DEF Touch, Checked
  <2>2. o \in Users /\ (t.shard \in wiped \/ o = t.user)
    BY <2>1, ShardAssumption DEF Turn
  <2>3. /\ row' = [row EXCEPT ![t.shard] = o] /\ newer' = Renewed(t.shard)
        /\ wiped' = wiped /\ turn' = turn
    BY <1>1 DEF Touch, Upsert, history
  <2> QED
    BY <2>1, <2>2, <2>3 DEF Open
<1>2. CASE NewShard(m)
  <2>1. turn[m] \in Turn /\ turn[m].user \in Users
    BY <1>2, Known DEF NewShard
  <2>2. PICK s \in unused :
           /\ row' = [row EXCEPT ![s] = turn[m].user] /\ newer' = Renewed(s) /\ wiped' = wiped
           /\ turn' = [turn EXCEPT ![m].shard = s,
                                   ![m].reason = IF @ = "" THEN "new_user_topic" ELSE @]
    BY <1>2 DEF NewShard, Upsert, history
  <2>3. s \in Shards /\ row[s] = None
    BY DEF IInv, Typing, StoresTyped, Ownership, RowsKept
  <2>4. turn'[m].shard = s /\ turn'[m].user = turn[m].user
    BY <2>1, <2>2 DEF IInv, Typing, CallsTyped, Turn
  <2> QED
    BY <2>1, <2>2, <2>3, <2>4
<1> QED
  BY <1>1, <1>2

\* The shard that a message takes becomes the newest one of its user.
LEMMA TakenIsNewest ==
    ASSUME IInv, NEW m \in Messages, Touch(m) \/ NewShard(m)
    PROVE  Newest(turn[m].user, turn[m].shard)'
<1>1. PICK s \in Shards, o \in Users :
         /\ row' = [row EXCEPT ![s] = o] /\ newer' = Renewed(s)
         /\ turn'[m].shard = s /\ turn'[m].user = turn[m].user
  BY Takes
<1>2. turn[m].user \in Users
  BY Known DEF Touch, NewShard
<1>3. ASSUME NEW r \in Shards, row'[r] = turn[m].user, r # s PROVE <<r, s>> \in newer'
  <2>1. row[r] # None
    BY <1>1, <1>2, <1>3, ShardAssumption DEF IInv, Typing, StoresTyped
  <2> QED
    BY <1>1, <1>3, <2>1 DEF Renewed
<1> QED
  BY <1>1, <1>3 DEF Newest

\* What others do leaves the newest shard of a user the newest.
LEMMA NewestStays ==
    ASSUME IInv, [Next]_vars, NEW u \in Users, NEW d \in Shards, d \notin wiped',
           row[d] = u, Newest(u, d),
           \A m \in Messages : Touch(m) \/ NewShard(m) => turn[m].user # u,
           u \in Owners => ~ClearRows(u)
    PROVE  row'[d] = u /\ Newest(u, d)'
<1>1. wiped \subseteq wiped'
  BY AlwaysOpen DEF StayOpen
<1>2. CASE UNCHANGED <<row, newer>>
  BY <1>1, <1>2 DEF Newest
<1>3. ASSUME NEW m \in Messages, Touch(m) \/ NewShard(m) PROVE row'[d] = u /\ Newest(u, d)'
  <2>1. PICK s \in Shards, o \in Users :
           /\ row' = [row EXCEPT ![s] = o] /\ newer' = Renewed(s) /\ wiped' = wiped
           /\ s \in wiped \/ (o = turn[m].user /\ row[s] \in {o, None})
    BY <1>3, Takes
  <2>2. turn[m].user # u /\ u # None
    BY <1>3, ShardAssumption
  <2>3. d # s
    BY <1>1, <2>1, <2>2
  <2>4. row'[d] = u
    BY <2>1, <2>3 DEF IInv, Typing, StoresTyped
  <2>5. ASSUME NEW r \in Shards \ wiped', row'[r] = u, r # d PROVE <<r, d>> \in newer'
    <3>1. r # s
      BY <2>1, <2>2, <2>5 DEF IInv, Typing, StoresTyped
    <3>2. row[r] = u
      BY <2>1, <2>5, <3>1 DEF IInv, Typing, StoresTyped
    <3>3. <<r, d>> \in newer
      BY <2>1, <2>5, <3>2 DEF Newest
    <3> QED
      BY <2>1, <2>3, <3>1, <3>3 DEF Renewed
  <2> QED
    BY <2>4, <2>5 DEF Newest
<1>4. ASSUME NEW o \in Owners, ClearRows(o) PROVE row'[d] = u /\ Newest(u, d)'
  <2> DEFINE dropped == {s \in Shards : row[s] = o}
  <2>1. /\ row' = [s \in Shards |-> IF s \in dropped THEN None ELSE row[s]]
        /\ newer' = newer \cap ((Shards \ dropped) \X (Shards \ dropped))
    BY <1>4 DEF ClearRows
  <2>2. o # u /\ u # None
    BY <1>4, ShardAssumption
  <2>3. row'[d] = u /\ d \notin dropped
    BY <2>1, <2>2
  <2>4. ASSUME NEW r \in Shards \ wiped', row'[r] = u, r # d PROVE <<r, d>> \in newer'
    <3>1. row[r] = u /\ r \notin dropped
      BY <2>1, <2>2, <2>4
    <3>2. <<r, d>> \in newer
      BY <1>1, <2>4, <3>1 DEF Newest
    <3> QED
      BY <2>1, <2>3, <3>1, <3>2
  <2> QED
    BY <2>3, <2>4 DEF Newest
<1> QED
  BY <1>2, <1>3, <1>4, RowMoves

\* Redis learns the active shard of a user from that user's messages.
LEMMA ActiveMoves ==
    ASSUME IInv, [Next]_vars, NEW u \in Users
    PROVE  \/ active'[u] \in {active[u], None}
           \/ \E m \in Messages : /\ Activate(m) \/ Hear(m) \/ Say(m)
                                  /\ turn[m].user = u /\ active'[u] = turn[m].shard
<1>1. ASSUME NEW m \in Messages, Activate(m) \/ Hear(m) \/ Say(m)
      PROVE  active'[u] = active[u] \/ (turn[m].user = u /\ active'[u] = turn[m].shard)
  BY <1>1 DEF Activate, Hear, Say, AppendHot, IInv, Typing, StoresTyped
<1>2. ASSUME NEW m \in Messages, Receive(m) \/ (Plain(m) /\ ~Activate(m)) PROVE active' = active
  BY <1>2 DEF Plain, QuoteHot, QuoteWarm, OwnerCheck, ActiveHot, ActiveWarm, Load,
              RowGone, File, Invoke, Model, Silent, Found, Receive, hot
<1>3. ASSUME NEW m \in Messages,
             Touch(m) \/ NewShard(m) \/ EnsureSession(m) \/ HearWarm(m) \/ Send(m) \/ SayWarm(m)
      PROVE  active' = active
  BY <1>3 DEF Touch, NewShard, EnsureSession, HearWarm, Send, SayWarm, hot
<1>4. ASSUME NEW o \in Owners, Clearing(o) PROVE active'[u] \in {active[u], None}
  <2>1. active' = active \/ active' = [active EXCEPT ![o] = None]
    BY <1>4 DEF Clearing, ClearBegins, ClearSessions, ClearActive, ClearDrop, ClearConv, ClearRows,
                ClearThreads, hot
  <2> QED
    BY <2>1 DEF IInv, Typing, StoresTyped
<1>5. CASE Expire
  <2>1. active' = active \/ \E v \in Users : active' = [active EXCEPT ![v] = None]
    BY <1>5 DEF Expire
  <2> QED
    BY <2>1 DEF IInv, Typing, StoresTyped
<1>6. CASE Crash \/ UNCHANGED vars
  BY <1>6 DEF Crash, vars, hot
<1> QED
  BY <1>1, <1>2, <1>3, <1>4, <1>5, <1>6 DEF Next, Route, Answer, Plain

\* A user who does nothing stays at home.
LEMMA HomeStays ==
    ASSUME IInv, [Next]_vars, NEW u \in Users, NEW d \in Shards, d \notin wiped', AtHome(u, d),
           \A m \in Messages : Touch(m) \/ NewShard(m) \/ Activate(m) \/ Hear(m) \/ Say(m)
                                  => turn[m].user # u,
           u \in Owners => ~ClearRows(u)
    PROVE  AtHome(u, d)'
<1>1. row'[d] = u /\ Newest(u, d)'
  BY NewestStays DEF AtHome
<1>2. active'[u] \in {d, None}
  BY ActiveMoves DEF AtHome
<1> QED
  BY <1>1, <1>2 DEF AtHome

\* The order of the rows stays one.
LEMMA OrderedStep == ASSUME IInv, Ordered, [Next]_vars PROVE Ordered'
<1> SUFFICES ASSUME NEW R \in SUBSET Shards, R # {}, \A s \in R : row'[s] # None
             PROVE  \E s \in R : \A r \in R : <<s, r>> \notin newer'
  BY DEF Ordered
<1>1. CASE UNCHANGED <<row, newer>>
  BY <1>1 DEF Ordered
<1>2. ASSUME NEW m \in Messages, Touch(m) \/ NewShard(m)
      PROVE  \E s \in R : \A r \in R : <<s, r>> \notin newer'
  <2>1. PICK s \in Shards, o \in Users : row' = [row EXCEPT ![s] = o] /\ newer' = Renewed(s)
    BY <1>2, Takes
  <2>2. CASE s \in R
    <3>1. \A r \in R : <<s, r>> \notin newer'
      BY <2>1 DEF Renewed
    <3> QED
      BY <2>2, <3>1
  <2>3. CASE s \notin R
    <3>1. \A r \in R : row[r] # None
      BY <2>1, <2>3 DEF IInv, Typing, StoresTyped
    <3>2. PICK q \in R : \A r \in R : <<q, r>> \notin newer
      BY <3>1 DEF Ordered
    <3>3. \A r \in R : <<q, r>> \notin newer'
      BY <2>1, <2>3, <3>2 DEF Renewed
    <3> QED
      BY <3>3
  <2> QED
    BY <2>2, <2>3
<1>3. ASSUME NEW o \in Owners, ClearRows(o)
      PROVE  \E s \in R : \A r \in R : <<s, r>> \notin newer'
  <2>1. /\ \A s \in Shards : row'[s] \in {row[s], None}
        /\ newer' \subseteq newer
    BY <1>3 DEF ClearRows
  <2>2. \A s \in R : row[s] # None
    BY <2>1
  <2> QED
    BY <2>1, <2>2 DEF Ordered
<1> QED
  BY <1>1, <1>2, <1>3, RowMoves

\* What is recorded of a reply, step by step.
LEMMA ReplyMoves ==
    ASSUME IInv, [Next]_vars, NEW n \in Messages
    PROVE  /\ \/ bound'[<<"bot", n>>] \in {bound[<<"bot", n>>], None}
              \/ Say(n) /\ bound'[<<"bot", n>>] = turn[n].shard
           /\ filed'[n] = filed[n] \/ (File(n) /\ filed'[n] = turn[n].shard)
           /\ sent \subseteq sent' /\ (n \in sent' => n \in sent \/ Send(n))
<1> DEFINE b == <<"bot", n>>
<1>1. b \in Lines
  BY LinesAre
<1>2. ASSUME NEW m \in Messages, Hear(m) \/ Say(m)
      PROVE  /\ bound'[b] = bound[b] \/ (Say(n) /\ bound'[b] = turn[n].shard)
             /\ UNCHANGED <<filed, sent>>
  <2>1. UNCHANGED <<filed, sent>> /\ bound' = [bound EXCEPT ![Line(m)] = turn[m].shard]
    BY <1>2 DEF Hear, Say, AppendHot, Line, warm
  <2>2. Line(m) = b => m = n /\ Say(n)
    BY <1>2 DEF Line, Hear, Say
  <2> QED
    BY <1>1, <2>1, <2>2, LinesAre DEF IInv, Typing, StoresTyped
<1>3. ASSUME NEW m \in Messages, Plain(m) /\ ~File(m)
      PROVE  UNCHANGED <<bound, filed, sent>>
  <2>1. UNCHANGED <<bound, filed>>
    BY <1>3 DEF Plain, QuoteHot, QuoteWarm, OwnerCheck, ActiveHot, ActiveWarm, Load, Activate,
                RowGone, Invoke, Model, Silent, Found, warm, hot
  <2> QED
    BY <1>3, <2>1, PlainRest DEF rest
<1>4. ASSUME NEW m \in Messages, File(m)
      PROVE  /\ UNCHANGED <<bound, sent>>
             /\ filed'[n] = filed[n] \/ (File(n) /\ filed'[n] = turn[n].shard)
  BY <1>4 DEF File, hot, IInv, Typing, StoresTyped
<1>5. ASSUME NEW m \in Messages,
             Receive(m) \/ Touch(m) \/ NewShard(m) \/ EnsureSession(m) \/ HearWarm(m) \/ SayWarm(m)
      PROVE  UNCHANGED <<bound, filed, sent>>
  BY <1>5 DEF Receive, Touch, NewShard, Upsert, EnsureSession, HearWarm, SayWarm, AppendWarm,
              Finish, warm, hot
<1>6. ASSUME NEW m \in Messages, Send(m)
      PROVE  UNCHANGED <<bound, filed>> /\ sent' = sent \cup {m}
  BY <1>6 DEF Send, warm, hot
<1>7. ASSUME NEW o \in Owners, Clearing(o) PROVE UNCHANGED <<bound, filed, sent>>
  BY <1>7 DEF Clearing, ClearBegins, ClearSessions, ClearActive, ClearDrop, ClearConv, ClearRows,
              ClearThreads, ClearStep, warm, hot
<1>8. CASE Expire
  <2>1. /\ UNCHANGED <<filed, sent>>
        /\ bound' = bound \/ \E l \in Lines : bound' = [bound EXCEPT ![l] = None]
    BY <1>8 DEF Expire, warm
  <2> QED
    BY <1>1, <2>1 DEF IInv, Typing, StoresTyped
<1>9. CASE Crash \/ UNCHANGED vars
  BY <1>9 DEF Crash, vars, warm, hot
<1> QED
  BY <1>2, <1>3, <1>4, <1>5, <1>6, <1>7, <1>8, <1>9 DEF Next, Route, Answer, Plain

\* What is recorded of a reply stays right.
LEMMA RepliedStep == ASSUME IInv, RestTyped, Replied, [Next]_vars PROVE Replied'
<1> SUFFICES ASSUME NEW n \in Messages
             PROVE  /\ bound'[<<"bot", n>>] # None
                         => /\ pc'[n] \in {"sayWarm", "done", "failed", "lost"}
                            /\ bound'[<<"bot", n>>] = turn'[n].shard
                    /\ n \in sent' => pc'[n] \in {"file", "say", "sayWarm", "done", "failed", "lost"}
                    /\ n \in sent' /\ pc'[n] \in {"say", "sayWarm", "done"}
                         => filed'[n] = turn'[n].shard
  BY DEF Replied
<1> DEFINE At == {"file", "say", "sayWarm", "done", "failed", "lost"}
<1>1. /\ bound[<<"bot", n>>] # None
            => pc[n] \in {"sayWarm", "done", "failed", "lost"} /\ bound[<<"bot", n>>] = turn[n].shard
      /\ n \in sent => pc[n] \in At
      /\ n \in sent /\ pc[n] \in {"say", "sayWarm", "done"} => filed[n] = turn[n].shard
  BY DEF Replied
<1>2. ASSUME pc[n] \in At
      PROVE  /\ turn'[n].shard = turn[n].shard
             /\ \/ pc'[n] = pc[n] \/ pc'[n] = "lost"
                \/ File(n) /\ pc'[n] = "say"
                \/ Say(n) /\ pc'[n] = "sayWarm"
                \/ pc[n] = "sayWarm" /\ pc'[n] \in {"done", "failed"}
  <2>1. pc[n] \in Spoken
    BY <1>2 DEF Spoken, Speaking, Answering
  <2>2. turn'[n].shard = turn[n].shard
    BY <2>1, AlwaysSteady DEF Steady
  <2>3. ~Route(n)
    BY <1>2 DEF Route, QuoteHot, QuoteWarm, OwnerCheck, ActiveHot, ActiveWarm, Load, Touch,
                Activate, NewShard
  <2>4. Answer(n) => File(n) \/ Say(n) \/ SayWarm(n) \/ (RowGone(n) /\ pc[n] = "sayWarm")
    BY <1>2 DEF Answer, EnsureSession, Hear, HearWarm, RowGone, Invoke, Model, Silent, Send
  <2>5. Answer(n) => \/ File(n) /\ pc'[n] = "say"
                     \/ Say(n) /\ pc'[n] = "sayWarm"
                     \/ pc[n] = "sayWarm" /\ pc'[n] \in {"done", "failed"}
    BY <2>4 DEF File, Say, SayWarm, RowGone, AppendHot, Finish, Move, IInv, Typing, CallsTyped
  <2>6. pc[n] # "none"
    BY <1>2
  <2>7. ~Answer(n) => pc'[n] = pc[n] \/ pc'[n] = "lost"
    BY <2>3, <2>6, CallStays
  <2> QED
    BY <2>2, <2>5, <2>7
<1>3. Send(n) => pc'[n] = "file"
  BY DEF Send, Move, IInv, Typing, CallsTyped
<1>4. File(n) => pc[n] = "file" /\ pc'[n] = "say" /\ filed'[n] = turn[n].shard
  BY DEF File, Move, IInv, Typing, CallsTyped, StoresTyped
<1>5. Say(n) => pc[n] = "say" /\ pc'[n] = "sayWarm"
  BY DEF Say, AppendHot, Move, IInv, Typing, CallsTyped
<1>6. /\ \/ bound'[<<"bot", n>>] \in {bound[<<"bot", n>>], None}
         \/ Say(n) /\ bound'[<<"bot", n>>] = turn[n].shard
      /\ filed'[n] = filed[n] \/ (File(n) /\ filed'[n] = turn[n].shard)
      /\ n \in sent' => n \in sent \/ Send(n)
  BY ReplyMoves
<1>7. ASSUME bound'[<<"bot", n>>] # None
      PROVE  /\ pc'[n] \in {"sayWarm", "done", "failed", "lost"}
             /\ bound'[<<"bot", n>>] = turn'[n].shard
  <2>1. CASE Say(n) /\ bound'[<<"bot", n>>] = turn[n].shard
    BY <1>2, <1>5, <2>1
  <2>2. CASE bound'[<<"bot", n>>] = bound[<<"bot", n>>]
    <3>1. /\ pc[n] \in {"sayWarm", "done", "failed", "lost"}
          /\ bound[<<"bot", n>>] = turn[n].shard
      BY <1>1, <1>7, <2>2
    <3> QED
      BY <1>2, <1>4, <1>5, <2>2, <3>1
  <2> QED
    BY <1>6, <1>7, <2>1, <2>2
<1>8. ASSUME n \in sent' PROVE pc'[n] \in At
  BY <1>1, <1>2, <1>3, <1>6, <1>8
<1>9. ASSUME n \in sent', pc'[n] \in {"say", "sayWarm", "done"} PROVE filed'[n] = turn'[n].shard
  BY <1>1, <1>2, <1>3, <1>4, <1>5, <1>6, <1>9
<1> QED
  BY <1>7, <1>8, <1>9

Idle(u) == u \in Owners => clr[u].at = "idle"
OnlyOne(m) == \A n \in Messages \ {m} : InFlight(n) => turn[n].user # turn[m].user

\* Once a message that comes alone has its shard, its user is at home there.
SettledAt(at, t) ==
    t.shard \notin wiped => /\ at = "activate" => Newest(t.user, t.shard)
                            /\ at \in Answering => AtHome(t.user, t.shard)

Looking == {"quote", "quoteWarm", "owner", "active", "activeWarm"}

\* On its way it is led to where it is due, or to a shard that was dropped.
DueAt(at, t) ==
    t.due # None /\ t.due \notin wiped /\ t.reason # "topic_drift" =>
        /\ at \in {"quote", "quoteWarm"} =>
             /\ t.quote[1] = "bot" /\ pc[t.quote[2]] = "done" /\ t.quote[2] \in sent
             /\ turn[t.quote[2]].user = t.user /\ turn[t.quote[2]].shard = t.due
        /\ at = "owner" => t.shard = t.due /\ row[t.due] = t.user
        /\ at \in {"active", "activeWarm"} => AtHome(t.user, t.due)
        /\ at \in {"load", "touch", "activate", "session"} => t.shard = t.due \/ t.shard \in wiped
        /\ at # "open"

Homely(m) ==
    InFlight(m) /\ turn[m].alone =>
        /\ Idle(turn[m].user) /\ OnlyOne(m)
        /\ pc[m] \in Looking => turn[m].reason = ""
        /\ SettledAt(pc[m], turn[m]) /\ DueAt(pc[m], turn[m])

\* A user who has nothing under way is at home where the last turn ended.
Resting(u) ==
    last[u] # None =>
        /\ Idle(u)
        /\ last[u] \notin wiped /\ (\A m \in Messages : InFlight(m) => turn[m].user # u)
             => AtHome(u, last[u])

HomeInv ==
    /\ Ordered /\ Replied
    /\ \A m \in Messages : Homely(m)
    /\ \A u \in Users : Resting(u)

\* Only its arrival starts a call.
LEMMA StartsOnce ==
    ASSUME IInv, [Next]_vars, NEW m \in Messages, pc[m] = "none", ~Receive(m)
    PROVE  pc'[m] = "none"
<1>1. pc[m] \in Ended
  BY DEF Ended
<1>2. ASSUME NEW n \in Messages, Route(n) PROVE pc'[m] = pc[m]
  <2>1. PICK at \in Routing \cup {"session"} : Moves(n, at)
    BY <1>2, MovesBack
  <2> QED
    BY <1>1, <1>2, <2>1, OneMoves, CallsMove
<1>3. ASSUME NEW n \in Messages, Answer(n) PROVE pc'[m] = pc[m]
  <2>1. PICK at \in Speaking \cup {"done", "failed"} : Moves(n, at)
    BY <1>3, MovesOn
  <2> QED
    BY <1>1, <1>3, <2>1, OneMoves, CallsMove
<1>4. ASSUME NEW n \in Messages, Receive(n) PROVE pc'[m] = pc[m]
  <2>1. n # m
    BY <1>4
  <2> QED
    BY <1>4, <2>1 DEF Receive, Move, IInv, Typing, CallsTyped
<1>5. ASSUME (\E o \in Owners : Clearing(o)) \/ Expire \/ Crash \/ UNCHANGED vars
      PROVE  pc'[m] = pc[m]
  BY <1>1, <1>5, OthersMove
<1> QED
  BY <1>2, <1>3, <1>4, <1>5 DEF Next

\* Only its beginning ends the quiet before a /clear.
LEMMA IdleStays ==
    ASSUME IInv, RestTyped, [Next]_vars, NEW u \in Users, Idle(u), u \in Owners => ~ClearBegins(u)
    PROVE  Idle(u)'
<1> SUFFICES ASSUME u \in Owners PROVE clr'[u].at = "idle"
  BY DEF Idle
<1>1. clr[u].at = "idle" /\ clr[u] \in Clear
  BY ClearTyped DEF Idle
<1>2. ASSUME NEW m \in Messages, Receive(m) PROVE clr'[u].at = "idle"
  BY <1>1, <1>2 DEF Receive, Clear
<1>3. ASSUME NEW m \in Messages, Route(m) \/ Answer(m) PROVE clr'[u].at = "idle"
  BY <1>1, <1>3, CallsMove
<1>4. ASSUME NEW p \in Owners, Clearing(p) PROVE clr'[u].at = "idle"
  <2>1. CASE p = u
    BY <1>1, <1>4, <2>1 DEF Clearing, ClearSessions, ClearActive, ClearDrop, ClearConv, ClearRows,
                            ClearThreads, ClearStep
  <2>2. CASE p # u
    BY <1>1, <1>4, <2>2, ClearsTake
  <2> QED
    BY <2>1, <2>2
<1>5. CASE Expire \/ Crash \/ UNCHANGED vars
  <2>1. clr' = clr \/ clr' = [o \in Owners |-> IdleClear]
    BY <1>5 DEF Expire, Crash, vars, process
  <2>2. IdleClear.at = "idle"
    BY DEF IdleClear
  <2> QED
    BY <1>1, <2>1, <2>2
<1> QED
  BY <1>2, <1>3, <1>4, <1>5 DEF Next

\* What a routed message keeps.
LEMMA RouteKeeps ==
    ASSUME IInv, NEW m \in Messages, Route(m)
    PROVE  /\ turn[m] \in Turn /\ turn'[m].user = turn[m].user
           /\ turn'[m].alone = turn[m].alone /\ turn'[m].due = turn[m].due
           /\ turn'[m].quote = turn[m].quote
<1>1. turn[m] \in Turn
  <2>1. pc[m] # "none"
    BY CallsMove DEF Ended
  <2> QED
    BY <2>1, Known
<1> DEFINE T == turn[m]
<1>2. \/ \E s : turn' = [turn EXCEPT ![m].shard = s]
      \/ \E r : turn' = [turn EXCEPT ![m].reason = r]
      \/ \E o : turn' = [turn EXCEPT ![m].owner = o]
      \/ \E r, b : turn' = [turn EXCEPT ![m].reason = r, ![m].direct = b]
      \/ \E s, r : turn' = [turn EXCEPT ![m].shard = s, ![m].reason = r]
      \/ turn' = turn
  <2>1. CASE QuoteHot(m) \/ QuoteWarm(m) \/ ActiveHot(m) \/ ActiveWarm(m)
    BY <2>1 DEF QuoteHot, QuoteWarm, ActiveHot, ActiveWarm, Found
  <2>2. CASE OwnerCheck(m)
    BY <2>2 DEF OwnerCheck
  <2>3. CASE Load(m)
    BY <2>3 DEF Load
  <2>4. CASE Touch(m)
    BY <2>4 DEF Touch
  <2>5. CASE Activate(m)
    <3>1. \/ turn' = [turn EXCEPT ![m].reason = IF T.reason = "" THEN "user_active" ELSE T.reason]
          \/ turn' = [turn EXCEPT ![m].reason = "topic_drift", ![m].direct = TRUE]
      BY <2>5 DEF Activate
    <3> QED
      BY <3>1
  <2>6. CASE NewShard(m)
    <3>1. \E s \in unused :
             turn' = [turn EXCEPT ![m].shard = s,
                        ![m].reason = IF T.reason = "" THEN "new_user_topic" ELSE T.reason]
      BY <2>6 DEF NewShard
    <3> QED
      BY <3>1
  <2> QED
    BY <2>1, <2>2, <2>3, <2>4, <2>5, <2>6 DEF Route
<1>3. turn = [turn EXCEPT ![m] = turn[m]] /\ DOMAIN turn = Messages
  BY DEF IInv, Typing, CallsTyped
<1> HIDE DEF T
<1> DEFINE Keeps == /\ turn'[m].user = turn[m].user /\ turn'[m].alone = turn[m].alone
                     /\ turn'[m].due = turn[m].due /\ turn'[m].quote = turn[m].quote
<1>4. ASSUME NEW s, turn' = [turn EXCEPT ![m].shard = s] PROVE Keeps
  <2>1. turn'[m] = [turn[m] EXCEPT !.shard = s]
    BY <1>3, <1>4
  <2> QED
    BY <1>1, <2>1 DEF Turn
<1>5. ASSUME NEW r, turn' = [turn EXCEPT ![m].reason = r] PROVE Keeps
  <2>1. turn'[m] = [turn[m] EXCEPT !.reason = r]
    BY <1>3, <1>5
  <2> QED
    BY <1>1, <2>1 DEF Turn
<1>6. ASSUME NEW o, turn' = [turn EXCEPT ![m].owner = o] PROVE Keeps
  <2>1. turn'[m] = [turn[m] EXCEPT !.owner = o]
    BY <1>3, <1>6
  <2> QED
    BY <1>1, <2>1 DEF Turn
<1>7. ASSUME NEW r, NEW b, turn' = [turn EXCEPT ![m].reason = r, ![m].direct = b] PROVE Keeps
  <2>1. turn'[m] = [turn[m] EXCEPT !.reason = r, !.direct = b]
    BY <1>1, <1>3, <1>7 DEF Turn
  <2> QED
    BY <1>1, <2>1 DEF Turn
<1>8. ASSUME NEW s, NEW r, turn' = [turn EXCEPT ![m].shard = s, ![m].reason = r] PROVE Keeps
  <2>1. turn'[m] = [turn[m] EXCEPT !.shard = s, !.reason = r]
    BY <1>1, <1>3, <1>8 DEF Turn
  <2> QED
    BY <1>1, <2>1 DEF Turn
<1>9. turn' = turn => Keeps
  OBVIOUS
<1> HIDE DEF Keeps
<1>10. Keeps
  BY <1>2, <1>4, <1>5, <1>6, <1>7, <1>8, <1>9
<1> QED
  BY <1>1, <1>10 DEF Keeps

\* What a message that is answered keeps as long as it is under way.
LEMMA AnswerKeeps ==
    ASSUME IInv, NEW m \in Messages, Answer(m), pc'[m] \notin Ended
    PROVE  /\ turn[m] \in Turn /\ turn'[m].user = turn[m].user
           /\ turn'[m].alone = turn[m].alone /\ turn'[m].shard = turn[m].shard
           /\ pc[m] \in Answering /\ pc'[m] \in Speaking
<1>1. turn[m] \in Turn /\ pc[m] \in Answering /\ pc[m] # "none"
  <2>1. pc[m] \in Answering /\ pc[m] # "none"
    BY DEF Answer, EnsureSession, Hear, HearWarm, RowGone, Invoke, Model, Silent, Send, File, Say,
           SayWarm, Answering
  <2> QED
    BY <2>1, Known
<1>2. pc'[m] \in Speaking
  <2>1. PICK at \in Speaking \cup {"done", "failed"} : Moves(m, at)
    BY MovesOn
  <2> QED
    BY <2>1, OneMoves DEF Ended
<1>3. ~RowGone(m) /\ ~Silent(m) /\ ~SayWarm(m)
  BY DEF RowGone, Silent, SayWarm, Finish, Move, IInv, Typing, CallsTyped, Ended
<1>4. CASE EnsureSession(m)
  <2>1. turn'[m] = [turn[m] EXCEPT !.due = None, !.owner = None, !.reason = ""]
    BY <1>1, <1>4 DEF EnsureSession, IInv, Typing, CallsTyped, Turn
  <2> QED
    BY <1>1, <1>2, <2>1 DEF Turn
<1>5. CASE Invoke(m)
  <2>1. turn'[m] = [turn[m] EXCEPT !.held = thread[turn[m].shard] \cup {<<"user", m>>}]
    BY <1>5 DEF Invoke, IInv, Typing, CallsTyped
  <2> QED
    BY <1>1, <1>2, <2>1 DEF Turn
<1>6. CASE ~EnsureSession(m) /\ ~Invoke(m)
  <2>1. turn' = turn
    BY <1>3, <1>6 DEF Answer, Hear, HearWarm, Model, Send, File, Say, AppendHot
  <2> QED
    BY <1>1, <1>2, <2>1
<1> QED
  BY <1>4, <1>5, <1>6

\* A message that is alone after a step was so before, and moved itself or stayed.
LEMMA StillAlone ==
    ASSUME IInv, [Next]_vars, NEW m \in Messages, pc'[m] \notin Ended, turn'[m].alone, ~Receive(m)
    PROVE  /\ pc[m] \notin Ended /\ turn[m].alone /\ turn[m] \in Turn
           /\ turn'[m].user = turn[m].user
           /\ Route(m) \/ Answer(m) \/ (pc'[m] = pc[m] /\ turn'[m] = turn[m])
<1>1. pc[m] # "none"
  BY StartsOnce DEF Ended
<1>2. turn[m] \in Turn
  BY <1>1, Known
<1>3. CASE Route(m)
  BY <1>2, <1>3, RouteKeeps, CallsMove
<1>4. CASE Answer(m)
  BY <1>2, <1>4, AnswerKeeps, CallsMove
<1>5. CASE ~Route(m) /\ ~Answer(m)
  <2>1. [turn[m] EXCEPT !.alone = FALSE, !.due = None].alone = FALSE
    BY <1>2 DEF Turn
  <2>2. "lost" \in Ended
    BY DEF Ended
  <2>3. pc'[m] = pc[m] /\ turn'[m] = turn[m]
    BY <1>1, <1>5, <2>1, <2>2, CallStays
  <2> QED
    BY <1>2, <2>3
<1> QED
  BY <1>3, <1>4, <1>5

\* It is still the only one of its user, who has begun no /clear.
LEMMA StillOnlyOne ==
    ASSUME IInv, RestTyped, [Next]_vars, NEW m \in Messages, pc'[m] \notin Ended,
           turn'[m].alone, ~Receive(m), Homely(m)
    PROVE  Idle(turn[m].user)' /\ OnlyOne(m)'
<1>1. /\ pc[m] \notin Ended /\ turn[m].alone /\ turn[m] \in Turn
      /\ turn'[m].user = turn[m].user /\ turn[m].user \in Users
  BY StillAlone, Known DEF Ended
<1>2. Idle(turn[m].user) /\ OnlyOne(m)
  BY <1>1 DEF Homely, InFlight
<1>3. Idle(turn[m].user)'
  <2>1. ASSUME turn[m].user \in Owners, ClearBegins(turn[m].user) PROVE FALSE
    <3>1. turn'[m] = [turn[m] EXCEPT !.alone = FALSE, !.due = None]
      BY <1>1, <2>1 DEF ClearBegins, InFlight
    <3> QED
      BY <1>1, <3>1 DEF Turn
  <2>2. PICK u \in Users : u = turn[m].user
    BY <1>1
  <2>3. Idle(u)'
    BY <1>2, <2>1, <2>2, IdleStays
  <2> QED
    BY <1>1, <2>2, <2>3 DEF Idle
<1>4. ASSUME NEW n \in Messages \ {m}, pc'[n] \notin Ended PROVE turn'[n].user # turn'[m].user
  <2>1. CASE Receive(n)
    <3>1. PICK u \in Users, q \in Quotable \cup {None} :
             turn' = [k \in Messages |->
               CASE k = n -> [user |-> u, quote |-> q, shard |-> None,
                              direct |-> q # None /\ (q[1] = "bot" \/ bound[q] # None),
                              owner |-> None, reason |-> "", held |-> {},
                              alone |-> ~Busy(u),
                              due |-> IF Busy(u) THEN None ELSE Home(u, q)]
                 [] k # n /\ InFlight(k) /\ turn[k].user = u
                      -> [turn[k] EXCEPT !.alone = FALSE, !.due = None]
                 [] OTHER -> turn[k]]
      BY <2>1 DEF Receive
    <3>2. turn'[n].user = u
      BY <3>1
    <3>3. turn[m].user = u => turn'[m] = [turn[m] EXCEPT !.alone = FALSE, !.due = None]
      BY <1>1, <1>4, <3>1 DEF InFlight
    <3>4. turn[m].user # u
      BY <1>1, <3>3 DEF Turn
    <3> QED
      BY <1>1, <3>2, <3>4
  <2>2. CASE ~Receive(n)
    <3>1. pc[n] # "none"
      BY <1>4, <2>2, StartsOnce DEF Ended
    <3>2. pc[n] \notin Ended
      BY <1>4, <3>1, EndsForGood
    <3>3. turn'[n].user = turn[n].user
      BY <3>1, AlwaysSteady DEF Steady
    <3> QED
      BY <1>1, <1>2, <3>2, <3>3 DEF OnlyOne, InFlight
  <2> QED
    BY <2>1, <2>2
<1> QED
  BY <1>3, <1>4 DEF OnlyOne, InFlight

\* While others move, a message that is alone is led where it was.
LEMMA WaitsHomely ==
    ASSUME IInv, [Next]_vars, HomeInv, NEW m \in Messages, pc[m] \notin Ended, turn[m].alone,
           ~Route(m), ~Answer(m), pc'[m] = pc[m], turn'[m] = turn[m]
    PROVE  SettledAt(pc[m], turn[m])' /\ DueAt(pc[m], turn[m])'
<1> DEFINE t == turn[m]
           u == turn[m].user
           d == turn[m].due
<1>1. /\ t \in Turn /\ u \in Users /\ d \in Shards \cup {None} /\ t.shard \in Shards \cup {None}
      /\ pc[m] # "none"
  <2>1. pc[m] # "none"
    BY DEF Ended
  <2> QED
    BY <2>1, Known DEF Turn
<1>2. Idle(u) /\ OnlyOne(m) /\ SettledAt(pc[m], t) /\ DueAt(pc[m], t)
  BY DEF HomeInv, Homely, InFlight
<1>3. \A n \in Messages : Route(n) \/ Answer(n) => turn[n].user # u
  BY <1>2, CallsMove DEF OnlyOne, InFlight
<1>4. \A n \in Messages :
         Touch(n) \/ NewShard(n) \/ Activate(n) \/ Hear(n) \/ Say(n) => turn[n].user # u
  BY <1>3 DEF Route, Answer
<1>5. u \in Owners => ~ClearRows(u)
  BY <1>2 DEF Idle, ClearRows, ClearStep
<1>6. wiped \subseteq wiped' /\ StayOpen
  BY AlwaysOpen DEF StayOpen
<1>7. ASSUME NEW s \in Shards, s \notin wiped', AtHome(u, s)
      PROVE  row'[s] = u /\ active'[u] \in {s, None} /\ Newest(u, s)'
  <2>1. AtHome(u, s) /\ u \in Users
    BY <1>1, <1>7
  <2> HIDE DEF u
  <2>2. PICK v \in Users : v = u
    BY <2>1
  <2>3. AtHome(v, s)'
    BY <1>4, <1>5, <1>7, <2>1, <2>2, HomeStays
  <2>4. row'[s] = v /\ active'[v] \in {s, None}
        /\ \A r \in Shards \ wiped' : row'[r] = v /\ r # s => <<r, s>> \in newer'
    BY <2>3 DEF AtHome, Newest
  <2> QED
    BY <2>2, <2>4, <1>1 DEF u, Newest
<1>8. ASSUME NEW s \in Shards, s \notin wiped', row[s] = u, Newest(u, s)
      PROVE  Newest(u, s)'
  <2>1. PICK v \in Users : v = u
    BY <1>1
  <2>2. row[s] = v /\ Newest(v, s)
    BY <1>8, <2>1
  <2>3. Newest(v, s)'
    BY <1>4, <1>5, <1>8, <2>1, <2>2, NewestStays
  <2> QED
    BY <2>1, <2>3 DEF Newest
<1>9. ASSUME t.shard \notin wiped'
      PROVE  /\ pc[m] = "activate" => Newest(t.user, t.shard)'
             /\ pc[m] \in Answering => AtHome(t.user, t.shard)'
  <2>1. t.shard \notin wiped
    BY <1>6, <1>9
  <2>2. pc[m] = "activate" \/ pc[m] \in Answering => t.shard \in Shards /\ row[t.shard] = u
    BY <1>1, <2>1, Known DEF Checked, Open
  <2>3. pc[m] = "activate" => Newest(u, t.shard)'
    BY <1>2, <1>8, <1>9, <2>1, <2>2 DEF SettledAt
  <2>4. pc[m] \in Answering => /\ row'[t.shard] = u /\ active'[u] \in {t.shard, None}
                               /\ Newest(u, t.shard)'
    BY <1>2, <1>7, <1>9, <2>1, <2>2 DEF SettledAt
  <2> QED
    BY <2>3, <2>4 DEF AtHome, Newest
<1>10. SettledAt(pc[m], turn[m])'
  BY <1>9 DEF SettledAt, AtHome, Newest
<1>11. ASSUME d # None, d \notin wiped', t.reason # "topic_drift"
       PROVE  /\ pc[m] \in {"quote", "quoteWarm"} =>
                    /\ t.quote[1] = "bot" /\ pc'[t.quote[2]] = "done" /\ t.quote[2] \in sent'
                    /\ turn'[t.quote[2]].user = u /\ turn'[t.quote[2]].shard = d
              /\ pc[m] = "owner" => t.shard = d /\ row'[d] = u
              /\ pc[m] \in {"active", "activeWarm"}
                    => row'[d] = u /\ active'[u] \in {d, None} /\ Newest(u, d)'
              /\ pc[m] \in {"load", "touch", "activate", "session"}
                    => t.shard = d \/ t.shard \in wiped'
              /\ pc[m] # "open"
  <2>1. d \notin wiped /\ d \in Shards
    BY <1>1, <1>6, <1>11
  <2>2. ASSUME pc[m] \in {"quote", "quoteWarm"}
        PROVE  /\ t.quote[1] = "bot" /\ pc'[t.quote[2]] = "done" /\ t.quote[2] \in sent'
               /\ turn'[t.quote[2]].user = u /\ turn'[t.quote[2]].shard = d
    <3> DEFINE k == t.quote[2]
    <3>1. /\ t.quote[1] = "bot" /\ pc[k] = "done" /\ k \in sent
          /\ turn[k].user = u /\ turn[k].shard = d
      BY <1>2, <1>11, <2>1, <2>2 DEF DueAt
    <3>2. t.quote \in Lines
      BY <2>2, Known
    <3>3. k \in Messages
      BY <3>2 DEF Lines
    <3>4. pc'[k] = pc[k] /\ turn'[k] = turn[k]
      BY <3>1, <3>3, EndsForGood DEF Ended
    <3>5. k \in sent'
      BY <3>1, <3>3, ReplyMoves
    <3> QED
      BY <3>1, <3>4, <3>5
  <2>3. ASSUME pc[m] = "owner" PROVE t.shard = d /\ row'[d] = u
    <3>1. t.shard = d /\ row[d] = u
      BY <1>2, <1>11, <2>1, <2>3 DEF DueAt
    <3>2. d \notin unused
      BY <1>1, <3>1, Known
    <3> QED
      BY <1>1, <1>6, <1>11, <2>1, <3>1, <3>2 DEF StayOpen, Open
  <2>4. ASSUME pc[m] \in {"active", "activeWarm"}
        PROVE  row'[d] = u /\ active'[u] \in {d, None} /\ Newest(u, d)'
    BY <1>2, <1>7, <1>11, <2>1, <2>4 DEF DueAt
  <2>5. ASSUME pc[m] \in {"load", "touch", "activate", "session"}
        PROVE  t.shard = d \/ t.shard \in wiped'
    BY <1>2, <1>6, <1>11, <2>1, <2>5 DEF DueAt
  <2>6. pc[m] # "open"
    BY <1>2, <1>11, <2>1 DEF DueAt
  <2> QED
    BY <2>2, <2>3, <2>4, <2>5, <2>6
<1>12. DueAt(pc[m], turn[m])'
  BY <1>11 DEF DueAt, AtHome, Newest
<1> QED
  BY <1>10, <1>12

\* A step of the routing that writes nothing leaves home where it is.
LEMMA LooksOnly ==
    ASSUME IInv, [Next]_vars, NEW m \in Messages, Route(m), ~Touch(m), ~NewShard(m), ~Activate(m)
    PROVE  /\ UNCHANGED <<row, newer, active, wiped, sent>>
           /\ \A n \in Messages \ {m} : pc'[n] = pc[n] /\ turn'[n] = turn[n]
<1>1. UNCHANGED <<row, newer, active, wiped, sent>>
  BY DEF Route, QuoteHot, QuoteWarm, OwnerCheck, ActiveHot, ActiveWarm, Load, Found, warm, hot,
         history
<1>2. PICK at \in Routing \cup {"session"} : Moves(m, at)
  BY MovesBack
<1> QED
  BY <1>1, <1>2, OneMoves

\* A message that is alone is led home, if its way is not cut by a /clear.
LEMMA RoutesHomely ==
    ASSUME IInv, [Next]_vars, HomeInv, NEW m \in Messages, turn[m].alone, Route(m)
    PROVE  /\ pc'[m] \in Looking => turn'[m].reason = ""
           /\ SettledAt(pc[m], turn[m])' /\ DueAt(pc[m], turn[m])'
<1> DEFINE t == turn[m]
           u == turn[m].user
           d == turn[m].due
<1>1. /\ t \in Turn /\ u \in Users /\ d \in Shards \cup {None}
      /\ pc[m] # "none" /\ pc[m] \notin Ended
  <2>1. pc[m] # "none" /\ pc[m] \notin Ended
    BY CallsMove DEF Ended
  <2> QED
    BY <2>1, Known DEF Turn
<1>2. /\ SettledAt(pc[m], t) /\ DueAt(pc[m], t)
      /\ pc[m] \in Looking => t.reason = ""
  BY <1>1 DEF HomeInv, Homely, InFlight
<1>3. /\ turn'[m].user = u /\ turn'[m].due = d /\ turn'[m].quote = t.quote
  BY RouteKeeps
<1> DEFINE Goal(at, s) ==
      /\ pc'[m] = at /\ turn'[m].shard = s
      /\ at \in Looking => turn'[m].reason = ""
      /\ at # "activate" /\ at \notin Answering
      /\ d # None /\ d \notin wiped /\ turn'[m].reason # "topic_drift" =>
           /\ at \in {"quote", "quoteWarm"} =>
                /\ t.quote[1] = "bot" /\ t.quote[2] # m
                /\ pc[t.quote[2]] = "done" /\ t.quote[2] \in sent
                /\ turn[t.quote[2]].user = u /\ turn[t.quote[2]].shard = d
                /\ t.quote[2] \in Messages
           /\ at = "owner" => s = d /\ row[d] = u
           /\ at \in {"active", "activeWarm"} => AtHome(u, d)
           /\ at \in {"load", "touch"} => s = d \/ s \in wiped
           /\ at # "open"
<1>4. ASSUME NEW at, NEW s, Goal(at, s), ~Touch(m), ~NewShard(m), ~Activate(m)
      PROVE  /\ pc'[m] \in Looking => turn'[m].reason = ""
             /\ SettledAt(pc[m], turn[m])' /\ DueAt(pc[m], turn[m])'
  <2>1. /\ UNCHANGED <<row, newer, active, wiped, sent>>
        /\ \A n \in Messages \ {m} : pc'[n] = pc[n] /\ turn'[n] = turn[n]
    BY <1>4, LooksOnly
  <2>2. "activate" \notin Answering /\ "session" \in Answering
    BY DEF Answering
  <2>3. SettledAt(pc[m], turn[m])'
    BY <1>4 DEF SettledAt
  <2>4. ASSUME d # None, d \notin wiped', turn'[m].reason # "topic_drift"
        PROVE  /\ at \in {"quote", "quoteWarm"} =>
                     /\ t.quote[1] = "bot" /\ pc'[t.quote[2]] = "done" /\ t.quote[2] \in sent'
                     /\ turn'[t.quote[2]].user = u /\ turn'[t.quote[2]].shard = d
               /\ at = "owner" => s = d /\ row'[d] = u
               /\ at \in {"active", "activeWarm"}
                     => row'[d] = u /\ active'[u] \in {d, None}
                        /\ \A r \in Shards \ wiped' : row'[r] = u /\ r # d => <<r, d>> \in newer'
               /\ at \in {"load", "touch", "activate", "session"} => s = d \/ s \in wiped'
               /\ at # "open"
    BY <1>4, <2>1, <2>2, <2>4 DEF AtHome, Newest
  <2>5. DueAt(pc[m], turn[m])'
    BY <1>3, <1>4, <2>4 DEF DueAt, AtHome, Newest
  <2> QED
    BY <1>4, <2>3, <2>5
<1>5. ASSUME NEW s, NEW at, turn' = [turn EXCEPT ![m].shard = s], pc' = [pc EXCEPT ![m] = at]
      PROVE  turn'[m].shard = s /\ turn'[m].reason = t.reason /\ pc'[m] = at
  <2>1. turn'[m] = [turn[m] EXCEPT !.shard = s] /\ pc'[m] = at
    BY <1>5 DEF IInv, Typing, CallsTyped
  <2> QED
    BY <1>1, <2>1 DEF Turn
<1>6. ASSUME pc[m] \in {"quote", "quoteWarm"}, d # None, d \notin wiped
      PROVE  /\ t.quote[1] = "bot" /\ t.quote[2] # m /\ t.quote[2] \in Messages
             /\ pc[t.quote[2]] = "done" /\ t.quote[2] \in sent
             /\ turn[t.quote[2]].user = u /\ turn[t.quote[2]].shard = d
             /\ bound[t.quote] \in {None, d} /\ filed[t.quote[2]] = d /\ row[d] = u
  <2> DEFINE k == t.quote[2]
  <2>1. t.quote \in Lines
    BY <1>6, Known
  <2>2. k \in Messages /\ t.quote = <<t.quote[1], k>>
    BY <2>1 DEF Lines
  <2>3. /\ t.quote[1] = "bot" /\ pc[k] = "done" /\ k \in sent
        /\ turn[k].user = u /\ turn[k].shard = d
    BY <1>2, <1>6 DEF DueAt, Looking
  <2>4. bound[t.quote] \in {None, d} /\ filed[k] = d
    BY <2>2, <2>3 DEF HomeInv, Replied
  <2>5. row[d] = u
    BY <1>6, <2>2, <2>3, Known DEF Checked, Open
  <2> QED
    BY <1>6, <2>2, <2>3, <2>4, <2>5
<1>7. CASE QuoteHot(m)
  <2> DEFINE s == bound[t.quote]
             at == IF s = None THEN "quoteWarm" ELSE "owner"
  <2>1. pc[m] = "quote" /\ turn' = [turn EXCEPT ![m].shard = s] /\ pc' = [pc EXCEPT ![m] = at]
    BY <1>7 DEF QuoteHot, Found, Move
  <2>2. turn'[m].shard = s /\ turn'[m].reason = "" /\ pc'[m] = at
    BY <1>2, <1>5, <2>1 DEF Looking
  <2>3. at \in {"quoteWarm", "owner"} /\ at \notin Answering /\ at # "activate"
    BY DEF Answering
  <2>4. Goal(at, s)
    BY <1>1, <1>6, <2>1, <2>2, <2>3
  <2>5. ~Touch(m) /\ ~NewShard(m) /\ ~Activate(m)
    BY <2>1 DEF Touch, NewShard, Activate
  <2> HIDE DEF Goal, at, s
  <2> QED
    BY <1>4, <2>4, <2>5
<1>8. CASE QuoteWarm(m)
  <2> DEFINE s == IF t.quote[1] = "bot" THEN filed[t.quote[2]] ELSE None
             at == IF s = None THEN "active" ELSE "owner"
  <2>1. pc[m] = "quoteWarm" /\ turn' = [turn EXCEPT ![m].shard = s] /\ pc' = [pc EXCEPT ![m] = at]
    BY <1>8 DEF QuoteWarm, Found, Move
  <2>2. turn'[m].shard = s /\ turn'[m].reason = "" /\ pc'[m] = at
    BY <1>2, <1>5, <2>1 DEF Looking
  <2>3. at \in {"active", "owner"} /\ at \notin Answering /\ at # "activate"
    BY DEF Answering
  <2>4. Goal(at, s)
    BY <1>1, <1>6, <2>1, <2>2, <2>3
  <2>5. ~Touch(m) /\ ~NewShard(m) /\ ~Activate(m)
    BY <2>1 DEF Touch, NewShard, Activate
  <2> HIDE DEF Goal, at, s
  <2> QED
    BY <1>4, <2>4, <2>5
<1>9. CASE OwnerCheck(m)
  <2>1. /\ pc[m] = "owner"
        /\ \/ /\ Foreign(row[t.shard], u)
              /\ turn' = [turn EXCEPT ![m].reason = "reply_foreign_shard"]
              /\ pc' = [pc EXCEPT ![m] = "open"]
           \/ /\ ~Foreign(row[t.shard], u)
              /\ turn' = [turn EXCEPT ![m].reason = "reply_chain"]
              /\ pc' = [pc EXCEPT ![m] = "load"]
    BY <1>9 DEF OwnerCheck, Move
  <2>2. d # None /\ d \notin wiped => t.shard = d /\ ~Foreign(row[t.shard], u)
    BY <1>2, <2>1 DEF DueAt, Looking, Foreign
  <2>3. turn'[m].shard = t.shard /\ pc'[m] \in {"open", "load"}
    <3>1. PICK r \in {"reply_foreign_shard", "reply_chain"} :
             turn' = [turn EXCEPT ![m].reason = r]
      BY <2>1
    <3>2. turn'[m] = [turn[m] EXCEPT !.reason = r]
      BY <3>1 DEF IInv, Typing, CallsTyped
    <3>3. turn'[m].shard = t.shard
      BY <1>1, <3>2 DEF Turn
    <3>4. pc'[m] \in {"open", "load"}
      BY <2>1 DEF IInv, Typing, CallsTyped
    <3> QED
      BY <3>3, <3>4
  <2>4. d # None /\ d \notin wiped => pc'[m] = "load"
    BY <2>1, <2>2 DEF IInv, Typing, CallsTyped
  <2>5. /\ \A at \in {"open", "load"} : at \notin Looking /\ at # "activate" /\ at \notin Answering
    BY DEF Looking, Answering
  <2>6. Goal(pc'[m], t.shard)
    BY <2>2, <2>3, <2>4, <2>5
  <2>7. ~Touch(m) /\ ~NewShard(m) /\ ~Activate(m)
    BY <2>1 DEF Touch, NewShard, Activate
  <2> HIDE DEF Goal
  <2> QED
    BY <1>4, <2>6, <2>7
<1>10. CASE ActiveHot(m)
  <2> DEFINE s == active[u]
             at == IF s = None THEN "activeWarm" ELSE "load"
  <2>1. pc[m] = "active" /\ turn' = [turn EXCEPT ![m].shard = s] /\ pc' = [pc EXCEPT ![m] = at]
    BY <1>10 DEF ActiveHot, Found, Move
  <2>2. turn'[m].shard = s /\ turn'[m].reason = "" /\ pc'[m] = at
    BY <1>2, <1>5, <2>1 DEF Looking
  <2>3. at \in {"activeWarm", "load"} /\ at \notin Answering /\ at # "activate"
    BY DEF Answering
  <2>4. d # None /\ d \notin wiped => AtHome(u, d)
    BY <1>2, <2>1 DEF DueAt, Looking
  <2>5. d # None /\ d \notin wiped => s \in {d, None}
    BY <2>4 DEF AtHome
  <2>6. Goal(at, s)
    BY <2>2, <2>3, <2>4, <2>5
  <2>7. ~Touch(m) /\ ~NewShard(m) /\ ~Activate(m)
    BY <2>1 DEF Touch, NewShard, Activate
  <2> HIDE DEF Goal, at, s
  <2> QED
    BY <1>4, <2>6, <2>7
<1>11. CASE ActiveWarm(m)
  <2>1. PICK s \in (IF Latest(u) = {} THEN {None} ELSE Latest(u)) : Found(m, s, "load", "open")
    BY <1>11 DEF ActiveWarm
  <2> DEFINE at == IF s = None THEN "open" ELSE "load"
  <2>2. pc[m] = "activeWarm" /\ turn' = [turn EXCEPT ![m].shard = s] /\ pc' = [pc EXCEPT ![m] = at]
    BY <1>11, <2>1 DEF ActiveWarm, Found, Move
  <2>3. turn'[m].shard = s /\ turn'[m].reason = "" /\ pc'[m] = at
    BY <1>2, <1>5, <2>2 DEF Looking
  <2>4. at \in {"open", "load"} /\ at \notin Answering /\ at # "activate"
    BY DEF Answering
  <2>5. ASSUME d # None, d \notin wiped PROVE s # None /\ (s = d \/ s \in wiped)
    <3>1. AtHome(u, d) /\ d \in Shards
      BY <1>1, <1>2, <2>2, <2>5 DEF DueAt, Looking
    <3>2. d \in {r \in Shards : row[r] = u}
      BY <3>1 DEF AtHome
    <3>3. \A r \in {r \in Shards : row[r] = u} : row[r] # None
      BY <1>1, ShardAssumption
    <3>4. \E q \in {r \in Shards : row[r] = u} :
             \A p \in {r \in Shards : row[r] = u} : <<q, p>> \notin newer
      BY <3>2, <3>3 DEF HomeInv, Ordered
    <3>5. Latest(u) # {}
      BY <3>4 DEF Latest
    <3>6. s \in Latest(u)
      BY <2>1, <3>5
    <3>7. s \in Shards /\ row[s] = u /\ <<s, d>> \notin newer
      BY <3>2, <3>6 DEF Latest
    <3> QED
      BY <3>1, <3>7, ShardAssumption DEF AtHome, Newest
  <2>6. Goal(at, s)
    BY <2>3, <2>4, <2>5
  <2>7. ~Touch(m) /\ ~NewShard(m) /\ ~Activate(m)
    BY <2>2 DEF Touch, NewShard, Activate
  <2> HIDE DEF Goal, at
  <2> QED
    BY <1>4, <2>6, <2>7
<1>12. CASE Load(m)
  <2>1. /\ pc[m] = "load" /\ pc' = [pc EXCEPT ![m] = "touch"]
        /\ turn' = [turn EXCEPT ![m].owner = row[t.shard]]
    BY <1>12 DEF Load, Move
  <2>2. turn'[m].shard = t.shard /\ turn'[m].reason = t.reason /\ pc'[m] = "touch"
    BY <1>1, <2>1 DEF IInv, Typing, CallsTyped, Turn
  <2>3. "touch" \notin Looking /\ "touch" \notin Answering
    BY DEF Looking, Answering
  <2>4. d # None /\ d \notin wiped /\ t.reason # "topic_drift" => t.shard = d \/ t.shard \in wiped
    BY <1>2, <2>1 DEF DueAt
  <2>5. Goal("touch", t.shard)
    BY <2>2, <2>3, <2>4
  <2>6. ~Touch(m) /\ ~NewShard(m) /\ ~Activate(m)
    BY <2>1 DEF Touch, NewShard, Activate
  <2> HIDE DEF Goal
  <2> QED
    BY <1>4, <2>5, <2>6
<1>13. CASE Touch(m) \/ NewShard(m)
  <2>1. Newest(u, t.shard)'
    BY <1>13, TakenIsNewest
  <2>2. /\ pc'[m] = "activate" /\ wiped' = wiped
        /\ "activate" \notin Looking /\ "activate" \notin Answering
    BY <1>13 DEF Touch, NewShard, Move, history, IInv, Typing, CallsTyped, Looking, Answering
  <2>3. SettledAt(pc[m], turn[m])'
    BY <2>1, <2>2 DEF SettledAt
  <2>4. ASSUME d # None, d \notin wiped, turn'[m].reason # "topic_drift"
        PROVE  turn'[m].shard = d \/ turn'[m].shard \in wiped
    <3>1. CASE Touch(m)
      BY <1>2, <2>4, <3>1 DEF Touch, DueAt
    <3>2. CASE NewShard(m)
      <4>1. PICK s \in unused :
               turn' = [turn EXCEPT ![m].shard = s,
                                    ![m].reason = IF @ = "" THEN "new_user_topic" ELSE @]
        BY <3>2 DEF NewShard
      <4>2. t.reason = "topic_drift" => turn'[m].reason = "topic_drift"
        BY <1>1, <4>1 DEF IInv, Typing, CallsTyped, Turn
      <4> QED
        BY <1>2, <2>4, <3>2, <4>2 DEF NewShard, DueAt
    <3> QED
      BY <1>13, <3>1, <3>2
  <2>5. DueAt(pc[m], turn[m])'
    BY <1>3, <2>2, <2>4 DEF DueAt
  <2> QED
    BY <2>2, <2>3, <2>5
<1>14. CASE Activate(m)
  <2>1. /\ pc[m] = "activate" /\ UNCHANGED <<row, newer, wiped>>
        /\ active' = [active EXCEPT ![u] = t.shard]
        /\ \/ /\ turn' = [turn EXCEPT ![m].reason = IF t.reason = "" THEN "user_active" ELSE t.reason]
              /\ pc' = [pc EXCEPT ![m] = "session"]
           \/ /\ turn' = [turn EXCEPT ![m].reason = "topic_drift", ![m].direct = TRUE]
              /\ pc' = [pc EXCEPT ![m] = "open"]
    BY <1>14 DEF Activate, Move, warm, history
  <2>2. active'[u] = t.shard /\ t.shard \in Shards
    BY <1>1, <2>1, Known DEF Checked, IInv, Typing, StoresTyped
  <2>3. CASE pc' = [pc EXCEPT ![m] = "session"]
             /\ turn' = [turn EXCEPT ![m].reason = IF t.reason = "" THEN "user_active" ELSE t.reason]
    <3>1. /\ pc'[m] = "session" /\ turn'[m].shard = t.shard
          /\ t.reason = "topic_drift" => turn'[m].reason = "topic_drift"
          /\ "session" \notin Looking
      BY <1>1, <2>3 DEF IInv, Typing, CallsTyped, Turn, Looking
    <3>2. ASSUME t.shard \notin wiped PROVE row[t.shard] = u /\ Newest(u, t.shard)
      BY <1>2, <2>1, <3>2, Known DEF SettledAt, Checked, Open
    <3>3. SettledAt(pc[m], turn[m])'
      BY <1>3, <2>1, <2>2, <3>1, <3>2 DEF SettledAt, AtHome, Newest
    <3>4. DueAt(pc[m], turn[m])'
      BY <1>2, <1>3, <2>1, <3>1 DEF DueAt
    <3> QED
      BY <3>1, <3>3, <3>4
  <2>4. CASE pc' = [pc EXCEPT ![m] = "open"]
             /\ turn' = [turn EXCEPT ![m].reason = "topic_drift", ![m].direct = TRUE]
    <3>1. pc'[m] = "open" /\ turn'[m].reason = "topic_drift"
      BY <1>1, <2>4 DEF IInv, Typing, CallsTyped, Turn
    <3>2. "open" \notin Looking /\ "open" \notin Answering
      BY DEF Looking, Answering
    <3> QED
      BY <3>1, <3>2 DEF SettledAt, DueAt
  <2> QED
    BY <2>1, <2>3, <2>4
<1> QED
  BY <1>7, <1>8, <1>9, <1>10, <1>11, <1>12, <1>13, <1>14 DEF Route

\* While it is answered, a message that is alone stays where it is at home.
LEMMA AnswersHomely ==
    ASSUME IInv, [Next]_vars, HomeInv, NEW m \in Messages, turn[m].alone, Answer(m),
           pc'[m] \notin Ended
    PROVE  /\ pc'[m] \notin Looking
           /\ SettledAt(pc[m], turn[m])' /\ DueAt(pc[m], turn[m])'
<1>1. /\ turn[m] \in Turn /\ turn[m].user \in Users /\ turn[m].shard \in Shards
      /\ turn'[m].user = turn[m].user /\ turn'[m].shard = turn[m].shard
      /\ pc[m] \in Answering /\ pc'[m] \in Speaking /\ pc[m] \notin Ended
  <2>1. pc[m] \in Answering /\ pc'[m] \in Speaking
    BY AnswerKeeps
  <2>2. turn[m] \in Turn /\ turn[m].user \in Users /\ turn[m].shard \in Shards
    BY <2>1, Known DEF Checked, Answering
  <2> QED
    BY <2>1, <2>2, AnswerKeeps, CallsMove
<1>2. \A at \in Speaking : /\ at \in Answering /\ at # "activate" /\ at \notin Looking
                           /\ at \notin {"load", "touch", "activate", "session", "open"}
  BY DEF Speaking, Answering, Looking
<1>3. /\ UNCHANGED <<row, newer, wiped>>
      /\ active' = active \/ active' = [active EXCEPT ![turn[m].user] = turn[m].shard]
  BY DEF Answer, EnsureSession, Hear, HearWarm, RowGone, Invoke, Model, Silent, Send, File, Say,
         SayWarm, AppendHot, AppendWarm, Finish, warm, hot, history
<1>4. ASSUME turn[m].shard \notin wiped
      PROVE  /\ row'[turn[m].shard] = turn[m].user
             /\ active'[turn[m].user] \in {turn[m].shard, None}
             /\ \A r \in Shards \ wiped' : row'[r] = turn[m].user /\ r # turn[m].shard
                                             => <<r, turn[m].shard>> \in newer'
  <2>1. AtHome(turn[m].user, turn[m].shard)
    BY <1>1, <1>4 DEF HomeInv, Homely, InFlight, SettledAt
  <2> QED
    BY <1>1, <1>3, <2>1 DEF AtHome, Newest, IInv, Typing, StoresTyped
<1>5. SettledAt(pc[m], turn[m])'
  BY <1>1, <1>2, <1>3, <1>4 DEF SettledAt, AtHome, Newest
<1>6. DueAt(pc[m], turn[m])'
  BY <1>1, <1>2 DEF DueAt, Looking
<1> QED
  BY <1>1, <1>2, <1>5, <1>6

\* A message that comes alone is due where the user is at home, or where the reply
\* that it quotes was given.
LEMMA ArrivesHomely ==
    ASSUME IInv, [Next]_vars, HomeInv, NEW m \in Messages, Receive(m)
    PROVE  Homely(m)'
<1>1. PICK u \in Users, q \in Quotable \cup {None} :
         /\ turn' = [n \in Messages |->
              CASE n = m -> [user |-> u, quote |-> q, shard |-> None,
                             direct |-> q # None /\ (q[1] = "bot" \/ bound[q] # None),
                             owner |-> None, reason |-> "", held |-> {},
                             alone |-> ~Busy(u),
                             due |-> IF Busy(u) THEN None ELSE Home(u, q)]
                [] n # m /\ InFlight(n) /\ turn[n].user = u
                     -> [turn[n] EXCEPT !.alone = FALSE, !.due = None]
                [] OTHER -> turn[n]]
         /\ pc' = [pc EXCEPT ![m] = IF q = None THEN "active" ELSE "quote"]
  BY DEF Receive, Move
<1>2. /\ turn'[m].user = u /\ turn'[m].quote = q /\ turn'[m].shard = None
      /\ turn'[m].reason = "" /\ turn'[m].alone = ~Busy(u)
      /\ turn'[m].due = IF Busy(u) THEN None ELSE Home(u, q)
  BY <1>1
<1>3. pc'[m] = IF q = None THEN "active" ELSE "quote"
  BY <1>1 DEF IInv, Typing, CallsTyped
<1>4. \A n \in Messages \ {m} : pc'[n] = pc[n]
  BY <1>1 DEF IInv, Typing, CallsTyped
<1>5. /\ UNCHANGED <<row, newer, active, wiped, sent, last>>
      /\ \A o \in Owners : clr'[o] = [clr[o] EXCEPT !.calm = FALSE]
  BY DEF Receive, warm, hot, history
<1> SUFFICES ASSUME ~Busy(u) PROVE Homely(m)'
  BY <1>2 DEF Homely
<1>6. Idle(u)'
  <2>1. Idle(u)
    BY DEF Busy, Idle
  <2>2. \A o \in Owners : [clr[o] EXCEPT !.calm = FALSE].at = clr[o].at \/ clr[o].at # "idle"
    OBVIOUS
  <2> QED
    BY <1>5, <2>1, <2>2 DEF Idle
<1>7. OnlyOne(m)'
  <2>1. ASSUME NEW n \in Messages \ {m}, pc'[n] \notin Ended PROVE turn'[n].user # u
    <3>1. pc[n] # "none" /\ InFlight(n)
      BY <1>4, <2>1 DEF InFlight, Ended
    <3>2. turn[n].user # u
      BY <2>1, <3>1 DEF Busy
    <3>3. turn'[n].user = turn[n].user
      BY <3>1, <1>1, <2>1, <3>2
    <3> QED
      BY <3>2, <3>3
  <2> QED
    BY <1>2, <2>1 DEF OnlyOne, InFlight
<1>8. SettledAt(pc[m], turn[m])'
  BY <1>3 DEF SettledAt, Answering
<1>9. ASSUME Home(u, q) # None, Home(u, q) \notin wiped, q # None
      PROVE  /\ q[1] = "bot" /\ pc'[q[2]] = "done" /\ q[2] \in sent'
             /\ turn'[q[2]].user = u /\ turn'[q[2]].shard = Home(u, q)
  <2>1. /\ q[1] = "bot" /\ pc[q[2]] = "done" /\ turn[q[2]].user = u
        /\ turn[q[2]].shard = Home(u, q)
    BY <1>9 DEF Home
  <2>2. q \in Lines /\ q[2] \in sent
    BY <1>9, <2>1 DEF Quotable
  <2>3. q[2] \in Messages
    BY <2>2 DEF Lines
  <2>4. pc'[q[2]] = pc[q[2]] /\ turn'[q[2]] = turn[q[2]]
    BY <2>1, <2>3, EndsForGood DEF Ended
  <2> QED
    BY <1>5, <2>1, <2>2, <2>4
<1>10. ASSUME Home(u, q) # None, Home(u, q) \notin wiped, q = None
       PROVE  AtHome(u, Home(u, q))
  <2>1. last[u] = Home(u, q)
    BY <1>10 DEF Home
  <2>2. \A n \in Messages : InFlight(n) => turn[n].user # u
    BY DEF Busy
  <2> QED
    BY <1>10, <2>1, <2>2 DEF HomeInv, Resting
<1>11. DueAt(pc[m], turn[m])'
  <2>1. turn'[m].due = Home(u, q)
    BY <1>2
  <2> QED
    BY <1>2, <1>3, <1>5, <1>9, <1>10, <2>1 DEF DueAt, AtHome, Newest
<1> QED
  BY <1>2, <1>6, <1>7, <1>8, <1>11 DEF Homely, Idle

\* Every message that is alone keeps its way home.
LEMMA HomelyStep ==
    ASSUME IInv, RestTyped, [Next]_vars, HomeInv, NEW m \in Messages PROVE Homely(m)'
<1>1. CASE Receive(m)
  BY <1>1, ArrivesHomely
<1>2. CASE ~Receive(m)
  <2> SUFFICES ASSUME pc'[m] \notin Ended, turn'[m].alone PROVE Homely(m)'
    BY DEF Homely, InFlight
  <2>1. /\ pc[m] \notin Ended /\ turn[m].alone
        /\ Route(m) \/ Answer(m) \/ (pc'[m] = pc[m] /\ turn'[m] = turn[m])
    BY <1>2, StillAlone
  <2>2. Homely(m)
    BY DEF HomeInv
  <2>3. Idle(turn[m].user)' /\ OnlyOne(m)'
    BY <1>2, <2>2, StillOnlyOne
  <2>4. /\ pc'[m] \in Looking => turn'[m].reason = ""
        /\ SettledAt(pc[m], turn[m])' /\ DueAt(pc[m], turn[m])'
    <3>1. CASE Route(m)
      BY <2>1, <3>1, RoutesHomely
    <3>2. CASE Answer(m)
      BY <2>1, <3>2, AnswersHomely
    <3>3. CASE ~Route(m) /\ ~Answer(m)
      <4>1. pc[m] \in Looking => turn[m].reason = ""
        BY <2>1, <2>2 DEF Homely, InFlight
      <4> QED
        BY <2>1, <3>3, <4>1, WaitsHomely
    <3> QED
      BY <3>1, <3>2, <3>3
  <2> QED
    BY <2>3, <2>4 DEF Homely
<1> QED
  BY <1>1, <1>2

\* How the place where a user's last turn ended becomes known and is forgotten.
LEMMA LastMoves ==
    ASSUME IInv, [Next]_vars, NEW u \in Users
    PROVE  \/ last'[u] = None
           \/ \E m \in Messages : /\ Silent(m) \/ SayWarm(m)
                                  /\ turn[m].user = u /\ turn[m].alone
                                  /\ last'[u] = turn[m].shard
           \/ /\ last'[u] = last[u]
              /\ \A m \in Messages : Silent(m) \/ SayWarm(m) \/ RowGone(m) => turn[m].user # u
              /\ Crash => \A m \in Messages : InFlight(m) => turn[m].user # u
              /\ u \in Owners => ~ClearBegins(u)
<1> DEFINE Ends(m) == Silent(m) \/ SayWarm(m) \/ RowGone(m)
           Begins == \E o \in Owners : ClearBegins(o)
<1>1. ASSUME NEW m \in Messages, NEW at, Finish(m, at), turn[m].user = u
      PROVE  last'[u] = IF turn[m].alone /\ at = "done" THEN turn[m].shard ELSE None
  BY <1>1 DEF Finish, IInv, Typing, StoresTyped
<1>2. ASSUME NEW m \in Messages, NEW at, Finish(m, at), turn[m].user # u
      PROVE  last'[u] = last[u]
  BY <1>2 DEF Finish, IInv, Typing, StoresTyped
<1>3. ASSUME NEW m \in Messages, Ends(m)
      PROVE  \/ Finish(m, "done") /\ (Silent(m) \/ SayWarm(m))
             \/ Finish(m, "failed")
  BY <1>3 DEF Silent, SayWarm, RowGone
<1>4. ASSUME NEW m \in Messages, Ends(m)
      PROVE  ~Crash /\ ~Begins /\ \A n \in Messages \ {m} : ~Ends(n)
  <2>1. pc'[m] \in {"done", "failed"} /\ pc[m] \notin {"done", "failed"}
    BY <1>4 DEF Silent, SayWarm, RowGone, Finish, Move, IInv, Typing, CallsTyped
  <2>2. ~Crash
    BY <2>1 DEF Crash
  <2>3. ~Begins
    BY <2>1 DEF ClearBegins
  <2>4. ASSUME NEW n \in Messages \ {m}, Ends(n) PROVE FALSE
    <3>1. \E at : pc' = [pc EXCEPT ![n] = at]
      BY <2>4 DEF Silent, SayWarm, RowGone, Finish, Move
    <3> QED
      BY <2>1, <3>1 DEF IInv, Typing, CallsTyped
  <2> QED
    BY <2>2, <2>3, <2>4
<1>5. CASE \E m \in Messages : Ends(m)
  <2>1. PICK m \in Messages : Ends(m)
    BY <1>5
  <2>2. CASE turn[m].user = u
    BY <1>1, <1>3, <2>1, <2>2
  <2>3. CASE turn[m].user # u
    <3>1. last'[u] = last[u]
      BY <1>2, <1>3, <2>1, <2>3
    <3> QED
      BY <1>4, <2>1, <2>3, <3>1
  <2> QED
    BY <2>2, <2>3
<1>6. CASE Begins
  <2>1. PICK o \in Owners : ClearBegins(o)
    BY <1>6
  <2>2. last' = [last EXCEPT ![o] = None] /\ pc' = pc
    BY <2>1 DEF ClearBegins
  <2>3. \A m \in Messages : ~Ends(m)
    BY <1>4, <1>6
  <2>4. u \in Owners /\ ClearBegins(u) => last'[u] = None
    BY DEF ClearBegins, IInv, Typing, StoresTyped
  <2>5. u # o => last'[u] = last[u]
    BY <2>2 DEF IInv, Typing, StoresTyped
  <2>6. u = o => last'[u] = None
    BY <2>2 DEF IInv, Typing, StoresTyped
  <2>7. Crash => \A m \in Messages : ~InFlight(m)
    <3>1. "lost" \in Ended
      BY DEF Ended
    <3> QED
      BY <2>2, <3>1 DEF Crash, InFlight
  <2> QED
    BY <2>3, <2>4, <2>5, <2>6, <2>7
<1>7. CASE Crash
  <2>1. last'[u] = IF \E m \in Messages : InFlight(m) /\ turn[m].user = u THEN None ELSE last[u]
    BY <1>7 DEF Crash
  <2>2. \A m \in Messages : ~Ends(m)
    BY <1>4, <1>7
  <2> QED
    BY <1>6, <2>1, <2>2
<1>8. CASE ~Begins /\ ~Crash /\ \A m \in Messages : ~Ends(m)
  <2>1. last' = last
    <3>1. ASSUME NEW m \in Messages, Receive(m) \/ (Plain(m) /\ ~RowGone(m) /\ ~Silent(m))
          PROVE  last' = last
      BY <3>1 DEF Plain, QuoteHot, QuoteWarm, OwnerCheck, ActiveHot, ActiveWarm, Load, Activate,
                  File, Invoke, Model, Found, Receive, history
    <3>2. ASSUME NEW m \in Messages, Touch(m) \/ NewShard(m) \/ EnsureSession(m) \/ Hear(m)
                                     \/ HearWarm(m) \/ Send(m) \/ Say(m)
          PROVE  last' = last
      BY <3>2 DEF Touch, NewShard, EnsureSession, Hear, HearWarm, Send, Say, AppendHot, history
    <3>3. ASSUME NEW o \in Owners, ClearSessions(o) \/ ClearActive(o) \/ ClearDrop(o)
                                   \/ ClearConv(o) \/ ClearRows(o) \/ ClearThreads(o)
          PROVE  last' = last
      BY <3>3 DEF ClearSessions, ClearActive, ClearDrop, ClearConv, ClearRows, ClearThreads, history
    <3>4. CASE Expire \/ UNCHANGED vars
      BY <3>4 DEF Expire, vars, history
    <3> HIDE DEF Begins
    <3>5. ASSUME NEW o \in Owners, ClearBegins(o) PROVE FALSE
      BY <1>8, <3>5 DEF Begins
    <3>6. ASSUME NEW m \in Messages, Route(m) \/ Answer(m) PROVE last' = last
      BY <1>8, <3>1, <3>2, <3>6 DEF Route, Answer, Plain
    <3> QED
      BY <1>8, <3>1, <3>3, <3>4, <3>5, <3>6 DEF Next, Clearing
  <2> QED
    BY <1>8, <2>1
<1> QED
  BY <1>5, <1>6, <1>7, <1>8

\* Where the last turn ended the user stays at home.
LEMMA RestingStep ==
    ASSUME IInv, RestTyped, [Next]_vars, HomeInv, NEW u \in Users PROVE Resting(u)'
<1> SUFFICES ASSUME last'[u] # None PROVE Resting(u)'
  BY DEF Resting
<1>1. ASSUME NEW m \in Messages, Silent(m) \/ SayWarm(m), turn[m].user = u, turn[m].alone,
             last'[u] = turn[m].shard
      PROVE  Resting(u)'
  <2>1. pc[m] \in Answering /\ pc[m] \notin Ended /\ pc[m] # "none"
    BY <1>1 DEF Silent, SayWarm, Answering, Ended
  <2>2. turn[m].shard \in Shards
    BY <2>1, Known DEF Checked
  <2>3. Homely(m)
    BY DEF HomeInv
  <2>4. Idle(u) /\ (turn[m].shard \notin wiped => AtHome(u, turn[m].shard))
    BY <1>1, <2>1, <2>3 DEF Homely, InFlight, SettledAt
  <2>5. UNCHANGED <<row, newer, active, wiped, clr>>
    BY <1>1 DEF Silent, SayWarm, AppendWarm, Finish, hot
  <2> QED
    BY <1>1, <2>4, <2>5 DEF Resting, Idle, AtHome, Newest
<1>2. ASSUME last'[u] = last[u],
             \A m \in Messages : Silent(m) \/ SayWarm(m) \/ RowGone(m) => turn[m].user # u,
             Crash => \A m \in Messages : InFlight(m) => turn[m].user # u,
             u \in Owners => ~ClearBegins(u)
      PROVE  Resting(u)'
  <2>1. Resting(u) /\ Idle(u)
    BY <1>2 DEF HomeInv, Resting
  <2>2. Idle(u)'
    BY <1>2, <2>1, IdleStays
  <2>3. PICK d \in Shards : d = last[u]
    BY <1>2 DEF IInv, Typing, StoresTyped
  <2>4. ASSUME d \notin wiped', \A m \in Messages : pc'[m] \notin Ended => turn'[m].user # u
        PROVE  AtHome(u, d)'
    <3>1. ASSUME NEW m \in Messages, InFlight(m), turn[m].user = u PROVE FALSE
      <4>1. pc[m] # "none" /\ pc[m] \notin Ended
        BY <3>1 DEF InFlight, Ended
      <4>2. turn'[m].user = u
        BY <3>1, <4>1, AlwaysSteady DEF Steady
      <4>3. pc'[m] \in Ended
        BY <2>4, <4>2
      <4>4. CASE Route(m)
        <5>1. PICK at \in Routing \cup {"session"} : Moves(m, at)
          BY <4>4, MovesBack
        <5> QED
          BY <4>3, <5>1, OneMoves, Places
      <4>5. CASE Answer(m)
        <5>1. \/ Silent(m) \/ SayWarm(m) \/ RowGone(m)
              \/ \E at \in {"hear", "hearWarm", "invoke", "model", "send", "silent", "file", "say",
                            "sayWarm"} : pc' = [pc EXCEPT ![m] = at]
          BY <4>5 DEF Answer, EnsureSession, Hear, HearWarm, Invoke, Model, Send, File, Say,
                      AppendHot, Move
        <5>2. \/ Silent(m) \/ SayWarm(m) \/ RowGone(m) \/ pc'[m] \notin Ended
          BY <5>1 DEF IInv, Typing, CallsTyped, Ended
        <5> QED
          BY <1>2, <3>1, <4>3, <5>2
      <4>6. CASE ~Route(m) /\ ~Answer(m)
        BY <1>2, <3>1, <4>1, <4>3, <4>6, CallStays
      <4> QED
        BY <4>4, <4>5, <4>6
    <3>2. d \notin wiped
      BY <2>4, AlwaysOpen DEF StayOpen
    <3>3. AtHome(u, d)
      BY <1>2, <2>1, <2>3, <3>1, <3>2 DEF Resting
    <3>4. \A m \in Messages : Touch(m) \/ NewShard(m) \/ Activate(m) \/ Hear(m) \/ Say(m)
                                => turn[m].user # u
      BY <3>1, CallsMove DEF Route, Answer, InFlight
    <3>5. u \in Owners => ~ClearRows(u)
      BY <2>1 DEF Idle, ClearRows, ClearStep
    <3> QED
      BY <2>4, <3>3, <3>4, <3>5, HomeStays
  <2> QED
    BY <1>2, <2>2, <2>3, <2>4 DEF Resting, InFlight, AtHome, Newest
<1> QED
  BY <1>1, <1>2, LastMoves

\* No step leads a message that is alone away from home.
LEMMA HomeStep == ASSUME IInv, RestTyped, HomeInv, [Next]_vars PROVE HomeInv'
<1>1. Ordered' /\ Replied'
  BY OrderedStep, RepliedStep DEF HomeInv
<1> QED
  BY <1>1, HomelyStep, RestingStep DEF HomeInv

\* In the beginning nobody has a home.
LEMMA InitHome == Init => HomeInv
<1> SUFFICES ASSUME Init PROVE HomeInv
  OBVIOUS
<1>1. Ordered
  BY DEF Init, Ordered
<1>2. Replied
  BY LinesAre DEF Init, Replied
<1>3. (\A m \in Messages : Homely(m)) /\ (\A u \in Users : Resting(u))
  BY DEF Init, Homely, Resting, InFlight, Ended
<1> QED
  BY <1>1, <1>2, <1>3 DEF HomeInv

\* A turn that comes alone continues where the user's last turn ended or where the
\* quoted reply was given, for any number of users, overlapping turns of others,
\* expired keys and restarts (router.py:61-88).
THEOREM ReturnsHome == Spec => []RoutedHome
<1>1. StoresInv /\ HomeInv /\ [Next]_vars => HomeInv'
  BY HomeStep DEF StoresInv
<1>2. HomeInv => RoutedHome
  <2> SUFFICES ASSUME HomeInv, NEW m \in Messages, pc[m] = "session", turn[m].alone,
                      turn[m].reason # "topic_drift", turn[m].due # None,
                      {turn[m].due, turn[m].shard} \cap wiped = {}
               PROVE  turn[m].shard = turn[m].due
    BY DEF RoutedHome
  <2>1. InFlight(m)
    BY DEF InFlight, Ended
  <2>2. DueAt("session", turn[m])
    BY <2>1 DEF HomeInv, Homely
  <2> QED
    BY <2>2 DEF DueAt
<1> QED
  BY <1>1, <1>2, InitHome, Kept, PTL DEF Spec
=============================================================================

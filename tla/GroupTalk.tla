----------------------------- MODULE GroupTalk -----------------------------
(***************************************************************************)
(* When the bot speaks up in a group: core/group_talk.py, the trigger of   *)
(* core/group_context and the engagement that core/chat.py keeps of one    *)
(* chat in memory.  It answers whoever calls it; it opens uncalled only    *)
(* after a cooldown; and for a while after a reply it follows up, a        *)
(* limited number of times.                                                *)
(*                                                                         *)
(* Many messages are handled at once.  The engagement is read when one     *)
(* arrives, the reply is noted a model call later, by the engagement that  *)
(* was read.  Time is kept as what is left of the engagement and what has  *)
(* passed since the last reply.                                            *)
(***************************************************************************)
EXTENDS Naturals, FiniteSets

CONSTANTS
    Slots,          \* messages on their way at once
    Members,
    EngageSec,      \* group_engage_sec, in ticks
    EngageReplies,  \* group_engage_replies
    Cooldown,       \* group_chime_cooldown_sec, in ticks
    TechChance,     \* group_tech_chance and group_chatty_chance, in percent
    ChattyChance,
    RequireAt,      \* group_require_at
    NoMember

ASSUME TalkAssumption ==
    /\ IsFiniteSet(Slots)
    /\ NoMember \notin Members
    /\ {EngageSec, EngageReplies, Cooldown} \subseteq Nat
    /\ {TechChance, ChattyChance} \subseteq 0 .. 100
    /\ RequireAt \in BOOLEAN

VARIABLES
    left,         \* until engaged_until
    lastUser,     \* last_user_id
    repliesLeft,  \* replies_left
    quiet,        \* since _last_group_reply, Cooldown at most
    hearing,      \* what each message on its way has read
    \* History: never read by the actions.
    followUps,    \* follow-ups since the engagement was opened
    openings      \* uncalled openings since the group was last quiet

engagement == <<left, lastUser, repliesLeft>>
talkVars == <<engagement, quiet, hearing, followUps, openings>>

(* direct is an at, the bot's name, a reply to it, or the owner's command. *)
(* A text is short below 8 characters and long from 16 on.                 *)
Texts == [direct : BOOLEAN, filler : BOOLEAN, tech : BOOLEAN, question : BOOLEAN,
          size : {"short", "middle", "long"}, media : BOOLEAN, near : BOOLEAN]

Unheard == [mode |-> "none", engaged |-> FALSE, user |-> NoMember]

TalkTypeOK ==
    /\ left \in 0 .. EngageSec
    /\ lastUser \in Members \cup {NoMember}
    /\ repliesLeft \in 0 .. EngageReplies
    /\ quiet \in 0 .. Cooldown
    /\ hearing \in [Slots -> [mode : {"none", "direct", "chime"}, engaged : BOOLEAN,
                              user : Members \cup {NoMember}]]
    /\ followUps \in Nat
    /\ openings \in Nat

-----------------------------------------------------------------------------
(* The policy.  Scores and thresholds are in units of 1/10000, so that     *)
(* percents of the chances are whole.                                      *)

AtLeast(a, b) == IF a > b THEN a ELSE b

(* ChatOrchestrator._engagement.                                           *)
Engaged == left > 0 /\ repliesLeft > 0
CanOpen == quiet >= Cooldown

Relevant(t) == t.tech \/ t.question \/ t.media

(* Mutant: the cooldown only holds back what is no technical question.     *)
ScoreHasty(t, engaged, same, canOpen) ==
    IF t.filler /\ ~t.media THEN 0
    ELSE IF engaged THEN IF same THEN 9200 ELSE IF Relevant(t) THEN 7800 ELSE 1500
    ELSE IF t.tech THEN 5500 + 45 * TechChance
    ELSE IF ~canOpen THEN 0
    ELSE 500

(* score_group_reply: the first case that applies.                         *)
Score(t, engaged, same, canOpen) ==
    IF t.filler /\ ~t.media THEN 0
    ELSE IF engaged THEN IF same THEN 9200 ELSE IF Relevant(t) THEN 7800 ELSE 1500
    ELSE IF ~canOpen THEN 0
    ELSE IF t.tech THEN 5500 + 45 * TechChance
    ELSE IF t.question /\ (t.media \/ t.size # "short") THEN 5000 + 40 * TechChance
    ELSE IF t.size = "long" THEN 2000 + 35 * ChattyChance
    ELSE 500

(* The bar a score has to reach; 13000 and 10000 are 1.3 and 1.0.         *)
Threshold(t, engaged) ==
    IF engaged THEN 5000
    ELSE IF t.tech \/ t.question
         THEN IF 130 * TechChance > 9500 THEN 500 ELSE 10000 - 130 * TechChance
    ELSE AtLeast(2000, 10000 - 100 * ChattyChance)

(* decide_group_reply, of a text that does not call the bot.               *)
Reaches(t, engaged, same, canOpen) ==
    Score(t, engaged, same, canOpen) >= Threshold(t, engaged)

(* decide_trigger; where there is no pipeline no text is near to a shard,  *)
(* and this is decide_group_reply.                                         *)
Decision(t, engaged, same, canOpen) ==
    IF ~RequireAt \/ t.direct THEN "direct"
    ELSE IF \/ t.near /\ canOpen /\ ~(t.filler /\ ~t.media)
            \/ Reaches(t, engaged, same, canOpen)
         THEN "chime"
    ELSE "ignore"

-----------------------------------------------------------------------------
(* Turns of the bot.                                                       *)

Heard(s) == hearing[s].mode # "none"

(* A message arrives that is not ignored.                                  *)
Receive(s, u, t) ==
    LET same == Engaged /\ lastUser = u
        mode == Decision(t, Engaged, same, CanOpen)
    IN  /\ ~Heard(s)
        /\ mode # "ignore"
        /\ hearing' = [hearing EXCEPT ![s] = [mode |-> mode, engaged |-> Engaged, user |-> u]]
        /\ UNCHANGED <<engagement, quiet, followUps, openings>>

(* handle(): what was read on arrival tells an opening from a follow-up.   *)
Opening(s) == hearing[s].mode = "direct" \/ ~hearing[s].engaged
Uncalled(s) == hearing[s].mode = "chime" /\ ~hearing[s].engaged

Forget(s) == hearing' = [hearing EXCEPT ![s] = Unheard]

(* Mutant: a follow-up does not count.                                     *)
AnswerUncounted(s) ==
    /\ Heard(s)
    /\ left' = EngageSec
    /\ lastUser' = hearing[s].user
    /\ repliesLeft' = IF Opening(s) THEN EngageReplies ELSE repliesLeft
    /\ quiet' = 0
    /\ Forget(s)
    /\ followUps' = IF Opening(s) THEN 0 ELSE followUps + 1
    /\ openings' = IF Uncalled(s) THEN openings + 1 ELSE openings

(* Mutant: a late follow-up lowers the count below zero.                   *)
AnswerUnfloored(s) ==
    /\ Heard(s)
    /\ left' = EngageSec
    /\ lastUser' = hearing[s].user
    /\ repliesLeft' = IF Opening(s) THEN EngageReplies ELSE repliesLeft - 1
    /\ quiet' = 0
    /\ Forget(s)
    /\ followUps' = IF Opening(s) THEN 0 ELSE followUps + 1
    /\ openings' = IF Uncalled(s) THEN openings + 1 ELSE openings

(* The reply goes out, an apology too, and _note_group_sent records it.    *)
Answer(s) ==
    /\ Heard(s)
    /\ left' = EngageSec
    /\ lastUser' = hearing[s].user
    /\ repliesLeft' = IF Opening(s) THEN EngageReplies
                      ELSE IF repliesLeft = 0 THEN 0 ELSE repliesLeft - 1
    /\ quiet' = 0
    /\ Forget(s)
    /\ followUps' = IF Opening(s) THEN 0 ELSE followUps + 1
    /\ openings' = IF Uncalled(s) THEN openings + 1 ELSE openings

(* The model has nothing to add, or the turn raises before the note: when  *)
(* that is after sending, the reply is out and recorded nowhere.           *)
Unnoted(s) ==
    /\ Heard(s)
    /\ Forget(s)
    /\ UNCHANGED <<engagement, quiet, followUps, openings>>

(* The end of /clear; turns on their way go on with what they have read.   *)
ForgetChat ==
    /\ left' = 0
    /\ lastUser' = NoMember
    /\ repliesLeft' = 0
    /\ quiet' = Cooldown
    /\ followUps' = 0
    /\ openings' = 0
    /\ UNCHANGED hearing

TalkTick ==
    /\ left' = IF left = 0 THEN 0 ELSE left - 1
    /\ quiet' = IF CanOpen THEN quiet ELSE quiet + 1
    /\ openings' = IF quiet' = Cooldown THEN 0 ELSE openings
    /\ UNCHANGED <<lastUser, repliesLeft, hearing, followUps>>

TalkInit ==
    /\ left = 0
    /\ lastUser = NoMember
    /\ repliesLeft = 0
    /\ quiet = Cooldown
    /\ hearing = [s \in Slots |-> Unheard]
    /\ followUps = 0
    /\ openings = 0

TalkNext ==
    \/ \E s \in Slots :
          \/ \E u \in Members, t \in Texts : Receive(s, u, t)
          \/ Answer(s)
          \/ Unnoted(s)
    \/ ForgetChat
    \/ TalkTick

TalkSpec == TalkInit /\ [][TalkNext]_talkVars

-----------------------------------------------------------------------------
(* Properties.                                                             *)

(* After it was called or has opened, the bot follows up as often as it is *)
(* set to and, since turns read the count before they change it, once more *)
(* for every other message that was on its way: never without end.         *)
FollowUpsBounded ==
    followUps > 0 => followUps < EngageReplies + Cardinality(Slots)

(* Between two quiet spells as long as the cooldown the bot opens uncalled *)
(* no more often than messages can be on their way at once: whoever passed *)
(* the cooldown had arrived before the first of these replies.             *)
OpeningsBounded ==
    Cooldown > 0 => openings <= Cardinality(Slots)
=============================================================================

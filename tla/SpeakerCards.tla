--------------------------- MODULE SpeakerCards ---------------------------
(***************************************************************************)
(* What the bot knows of one speaker of a group: the card of               *)
(* core/group_context/profile.py in the row of user_profiles.  A reply     *)
(* starts a background job that reads the card, lets a model extract a new *)
(* one from the last turns, which takes its time, merges the two and puts  *)
(* the whole card.  The console and /clear delete the row meanwhile.       *)
(***************************************************************************)
EXTENDS Naturals, Sequences, SequencesExt, FiniteSets

CONSTANTS
    Jobs,      \* refresh jobs of the speaker
    Phrases,   \* contents of the fields that the newest one wins
    Techs,     \* entries of the stack
    Taboos,
    StackMax,
    NoRow,     \* no row of the speaker
    Empty,     \* a field that is left empty
    MaxAge     \* ticks in REFRESH_AFTER_SEC

(* recent stands for address, reply_pref and evidence too; familiarity is  *)
(* stranger, peer or familiar; stack is without repetitions.               *)
Cards == [familiarity : 0 .. 2, stack : SeqOf(Techs, StackMax),
          taboos : SUBSET Taboos, recent : Phrases \cup {Empty}]

NewCard == [familiarity |-> 0, stack |-> <<>>, taboos |-> {}, recent |-> Empty]

ASSUME CardsAssumption ==
    /\ StackMax \in Nat \ {0}
    /\ MaxAge \in Nat \ {0}
    /\ Empty \notin Phrases
    /\ NoRow \notin Cards

VARIABLES
    row,       \* the stored card
    age,       \* ticks since it was put, MaxAge at most
    job,       \* how far each job is
    card,      \* the card it has read, then the one it puts
    \* History: never read by the actions.
    forced,    \* it followed a compression
    overtaken  \* another put or deleted the row since it read it

cardVars == <<row, age, job, card, forced, overtaken>>

CardsTypeOK ==
    /\ row \in Cards \cup {NoRow}
    /\ age \in 0 .. MaxAge
    /\ job \in [Jobs -> {"none", "extracting", "putting"}]
    /\ card \in [Jobs -> Cards]
    /\ {forced, overtaken} \subseteq [Jobs -> BOOLEAN]

-----------------------------------------------------------------------------
(* Merging.                                                                *)

(* _norm_stack: each entry where it comes first, and no more than STACK_MAX.*)
Firsts(s) == {i \in DOMAIN s : \A k \in 1 .. i - 1 : s[k] # s[i]}
UpTo(S, i) == {k \in S : k <= i}
Nth(S, n) == CHOOSE i \in S : Cardinality(UpTo(S, i)) = n

NormStack(s) ==
    LET kept == Min({Cardinality(Firsts(s)), StackMax})
    IN  [n \in 1 .. kept |-> s[Nth(Firsts(s), n)]]

Upgraded(old, new) == IF new > old THEN new ELSE old
Prefer(new, old) == IF new = Empty THEN old ELSE new

(* Mutant: the newest entries go first.                                    *)
MergeNewestFirst(old, new) ==
    [familiarity |-> Upgraded(old.familiarity, new.familiarity),
     stack |-> NormStack(new.stack \o old.stack),
     taboos |-> old.taboos \cup new.taboos,
     recent |-> Prefer(new.recent, old.recent)]

(* merge_profile.                                                          *)
Merge(old, new) ==
    [familiarity |-> Upgraded(old.familiarity, new.familiarity),
     stack |-> NormStack(old.stack \o new.stack),
     taboos |-> old.taboos \cup new.taboos,
     recent |-> Prefer(new.recent, old.recent)]

(* extract_profile_card keeps nothing that would not be worth a prompt;    *)
(* recent could be the address alone.                                      *)
WorthKeeping(c) ==
    c.familiarity > 0 \/ c.stack # <<>> \/ c.taboos # {} \/ c.recent # Empty

-----------------------------------------------------------------------------
(* The jobs.                                                               *)

CardFromRow == IF row = NoRow THEN NewCard ELSE row

Due(compressed) == compressed \/ row = NoRow \/ age = MaxAge

(* maybe_refresh_profile, with enough turns to learn from.                 *)
ReadCard(j, compressed) ==
    /\ job[j] = "none"
    /\ Due(compressed)
    /\ job' = [job EXCEPT ![j] = "extracting"]
    /\ card' = [card EXCEPT ![j] = CardFromRow]
    /\ forced' = [forced EXCEPT ![j] = compressed]
    /\ overtaken' = [overtaken EXCEPT ![j] = FALSE]
    /\ UNCHANGED <<row, age>>

Extracted(j, new) ==
    /\ job[j] = "extracting"
    /\ WorthKeeping(new)
    /\ job' = [job EXCEPT ![j] = "putting"]
    /\ card' = [card EXCEPT ![j] = Merge(@, new)]
    /\ UNCHANGED <<row, age, forced, overtaken>>

Ends(j) ==
    /\ job' = [job EXCEPT ![j] = "none"]
    /\ card' = [card EXCEPT ![j] = NewCard]
    /\ forced' = [forced EXCEPT ![j] = FALSE]

(* No card can be extracted, or the database raises.                       *)
GiveUp(j) ==
    /\ job[j] \in {"extracting", "putting"}
    /\ Ends(j)
    /\ UNCHANGED <<row, age, overtaken>>

Overtake(js) == overtaken' = [j \in Jobs |-> overtaken[j] \/ j \in js]

PutCard(j) ==
    /\ job[j] = "putting"
    /\ row' = card[j]
    /\ age' = 0
    /\ Ends(j)
    /\ Overtake({k \in Jobs \ {j} : job[k] # "none"})

(* DELETE /api/profiles, and /clear.                                       *)
DeleteCard ==
    /\ row # NoRow
    /\ row' = NoRow
    /\ age' = 0
    /\ Overtake({k \in Jobs : job[k] # "none"})
    /\ UNCHANGED <<job, card, forced>>

CardTick ==
    /\ row # NoRow /\ age < MaxAge
    /\ age' = age + 1
    /\ UNCHANGED <<row, job, card, forced, overtaken>>

CardsInit ==
    /\ row = NoRow
    /\ age = 0
    /\ job = [j \in Jobs |-> "none"]
    /\ card = [j \in Jobs |-> NewCard]
    /\ forced = [j \in Jobs |-> FALSE]
    /\ overtaken = forced

CardsNext ==
    \/ \E j \in Jobs :
          \/ \E compressed \in BOOLEAN : ReadCard(j, compressed)
          \/ \E new \in Cards : Extracted(j, new)
          \/ GiveUp(j)
          \/ PutCard(j)
    \/ DeleteCard
    \/ CardTick

CardsSpec == CardsInit /\ [][CardsNext]_cardVars

-----------------------------------------------------------------------------
(* Unless another put or deletion overtook it, a job adds to the card and  *)
(* takes nothing away: familiarity never sinks, no taboo and no entry of   *)
(* the stack is lost, nothing that was filled becomes empty, and a card    *)
(* younger than a day changes after a compression only.                    *)
CardOnlyGrows ==
    [][\A j \in Jobs :
          job[j] = "putting" /\ job'[j] = "none" /\ ~overtaken[j] /\ row # NoRow =>
          /\ row'.familiarity >= row.familiarity
          /\ row.taboos \subseteq row'.taboos
          /\ IsPrefix(row.stack, row'.stack)
          /\ row.recent # Empty => row'.recent # Empty
          /\ age = MaxAge \/ forced[j]]_cardVars
=============================================================================

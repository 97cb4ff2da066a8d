--------------------------- MODULE DialogueProofs ---------------------------
(***************************************************************************)
(* The parts of a dialogue, for any values of their constants: how often   *)
(* the bot speaks up in a group, what the jobs of a speaker leave of its   *)
(* card and the writers of an owner of its pad; and that the instance TLC  *)
(* checks, where the initial state says which part moves, is one of each.  *)
(***************************************************************************)
EXTENDS MCDialogue, ToolLoopProofs

-----------------------------------------------------------------------------
(* GroupTalk: the engagement of a chat.                                   *)

(* Messages on their way that will count as follow-ups, and as openings.   *)
Following == {s \in Slots : hearing[s].mode = "chime" /\ hearing[s].engaged}
OpeningUp == {s \in Slots : hearing[s].mode = "chime" /\ ~hearing[s].engaged}

N == Cardinality(Slots)

(* While replies are left every follow-up is one of them.  With none left  *)
(* no message joins those that are to follow up, and the one that took the *)
(* last is not among them any more.                                        *)
FollowInv ==
    /\ Following # {} => EngageReplies > 0
    /\ repliesLeft > 0 => followUps + repliesLeft <= EngageReplies
    /\ repliesLeft = 0 /\ (followUps > 0 \/ Following # {})
         => followUps + Cardinality(Following) < EngageReplies + N

(* After a reply nobody joins those that are to open before the cooldown.  *)
OpenInv ==
    Cooldown > 0 =>
      /\ CanOpen => openings = 0
      /\ ~CanOpen => openings + Cardinality(OpeningUp) <= N

-----------------------------------------------------------------------------
(* A set of slots is finite and no larger than all of them.                *)
LEMMA SlotsCounted ==
    ASSUME NEW S \in SUBSET Slots
    PROVE  /\ IsFiniteSet(S)
           /\ Cardinality(S) \in Nat
           /\ N \in Nat
           /\ Cardinality(S) <= N
BY TalkAssumption, FS_Subset, FS_CardinalityType DEF N

(* One slot less counts one less; and all but one count less than all.     *)
LEMMA OneSlotLess ==
    ASSUME NEW S \in SUBSET Slots, NEW s \in Slots
    PROVE  /\ s \in S => Cardinality(S \ {s}) = Cardinality(S) - 1
           /\ s \notin S => S \ {s} = S
           /\ Cardinality(S \ {s}) <= Cardinality(S)
           /\ Cardinality(S \ {s}) < N
<1>1. s \in S => Cardinality(S \ {s}) = Cardinality(S) - 1
  BY SlotsCounted, FS_RemoveElement
<1>2. Cardinality(Slots \ {s}) = N - 1
  BY TalkAssumption, FS_RemoveElement DEF N
<1>3. IsFiniteSet(Slots \ {s}) /\ S \ {s} \in SUBSET (Slots \ {s})
  BY SlotsCounted
<1>4. Cardinality(S \ {s}) <= N - 1 /\ Cardinality(S \ {s}) \in Nat
  BY <1>2, <1>3, FS_Subset, FS_CardinalityType
<1>5. N \in Nat
  BY SlotsCounted
<1>6. Cardinality(S \ {s}) <= Cardinality(S)
  BY SlotsCounted, FS_Subset
<1> QED BY <1>1, <1>4, <1>5, <1>6

(* Nothing empty is counted.                                               *)
LEMMA NoneCounted == Cardinality({}) = 0
BY FS_EmptySet

(* No threshold of a group that is not engaged can be met by a score of    *)
(* zero.                                                                   *)
LEMMA ThresholdPositive ==
    ASSUME NEW t \in Texts
    PROVE  ~(0 >= Threshold(t, FALSE))
<1>1. TechChance \in 0 .. 100 /\ ChattyChance \in 0 .. 100
  BY TalkAssumption
<1>2. AtLeast(2000, 10000 - 100 * ChattyChance) \in Nat \ {0}
  BY <1>1 DEF AtLeast
<1>3. CASE ~(t.tech \/ t.question)
  BY <1>2, <1>3 DEF Threshold
<1>4. CASE t.tech \/ t.question
  BY <1>1, <1>4 DEF Threshold
<1> QED BY <1>3, <1>4

(* Who has been called by nobody opens only after the cooldown.            *)
LEMMA OpensAfterCooldown ==
    ASSUME NEW t \in Texts, NEW same, Decision(t, FALSE, same, FALSE) = "chime"
    PROVE  FALSE
<1>1. Score(t, FALSE, same, FALSE) = 0
  BY DEF Score
<1> QED BY <1>1, ThresholdPositive DEF Decision, Reaches

-----------------------------------------------------------------------------
(* Every action keeps the types.                                           *)
LEMMA TalkTypeStep == TalkTypeOK /\ [TalkNext]_talkVars => TalkTypeOK'
<1> SUFFICES ASSUME TalkTypeOK, [TalkNext]_talkVars PROVE TalkTypeOK'
  OBVIOUS
<1> USE DEF TalkTypeOK
<1> DEFINE Hearings == [mode : {"none", "direct", "chime"}, engaged : BOOLEAN,
                        user : Members \cup {NoMember}]
<1>0. EngageSec \in Nat /\ EngageReplies \in Nat /\ Cooldown \in Nat
  BY TalkAssumption
<1>a. Unheard \in Hearings
  BY DEF Unheard
<1>1. ASSUME NEW s \in Slots, NEW u \in Members, NEW t \in Texts, Receive(s, u, t)
      PROVE  TalkTypeOK'
  <2> DEFINE mode == Decision(t, Engaged, Engaged /\ lastUser = u, CanOpen)
  <2>1. mode \in {"direct", "chime"}
    BY <1>1 DEF Receive, Decision, Reaches
  <2>2. [mode |-> mode, engaged |-> Engaged, user |-> u] \in Hearings
    BY <2>1 DEF Engaged
  <2>3. hearing' \in [Slots -> Hearings]
    BY <1>1, <2>2 DEF Receive
  <2> QED BY <1>1, <2>3 DEF Receive, engagement
<1>2. ASSUME NEW s \in Slots, Answer(s) PROVE TalkTypeOK'
  <2>1. hearing' \in [Slots -> Hearings] /\ hearing[s].user \in Members \cup {NoMember}
    BY <1>2, <1>a DEF Answer, Forget
  <2>2. repliesLeft' \in 0 .. EngageReplies /\ left' \in 0 .. EngageSec
    BY <1>0, <1>2 DEF Answer
  <2>3. quiet' \in 0 .. Cooldown /\ followUps' \in Nat /\ openings' \in Nat
    BY <1>0, <1>2 DEF Answer
  <2> QED BY <1>2, <2>1, <2>2, <2>3 DEF Answer
<1>3. ASSUME NEW s \in Slots, Unnoted(s) PROVE TalkTypeOK'
  <2>1. hearing' \in [Slots -> Hearings]
    BY <1>3, <1>a DEF Unnoted, Forget
  <2> QED BY <1>3, <2>1 DEF Unnoted, engagement
<1>4. ASSUME ForgetChat PROVE TalkTypeOK'
  BY <1>0, <1>4 DEF ForgetChat
<1>5. ASSUME TalkTick PROVE TalkTypeOK'
  BY <1>0, <1>5 DEF TalkTick, CanOpen
<1>6. ASSUME UNCHANGED talkVars PROVE TalkTypeOK'
  BY <1>6 DEF talkVars, engagement
<1> QED BY <1>1, <1>2, <1>3, <1>4, <1>5, <1>6 DEF TalkNext

(* The engagement of a chat and its counters keep their types.             *)
THEOREM TalkTypeCorrect == TalkSpec => []TalkTypeOK
<1>1. TalkInit => TalkTypeOK
  BY TalkAssumption DEF TalkInit, TalkTypeOK, Unheard
<1> QED BY <1>1, TalkTypeStep, PTL DEF TalkSpec

-----------------------------------------------------------------------------
(* A message that is forgotten is not pending any more.                    *)
LEMMA ForgottenLeaves ==
    ASSUME TalkTypeOK, NEW s \in Slots, Forget(s)
    PROVE  Following' = Following \ {s} /\ OpeningUp' = OpeningUp \ {s}
<1>1. \A r \in Slots : hearing'[r] = IF r = s THEN Unheard ELSE hearing[r]
  BY DEF Forget, TalkTypeOK
<1> QED BY <1>1 DEF Following, OpeningUp, Unheard

(* What a message that arrives joins.                                      *)
LEMMA ArrivalJoins ==
    ASSUME TalkTypeOK, NEW s \in Slots, NEW u \in Members, NEW t \in Texts, Receive(s, u, t)
    PROVE  /\ ~Engaged => Following' = Following
           /\ ~CanOpen => OpeningUp' = OpeningUp
<1> DEFINE mode == Decision(t, Engaged, Engaged /\ lastUser = u, CanOpen)
<1>1. /\ hearing[s].mode = "none"
      /\ \A r \in Slots : hearing'[r] = IF r = s THEN [mode |-> mode, engaged |-> Engaged,
                                                       user |-> u] ELSE hearing[r]
  BY DEF Receive, Heard, TalkTypeOK
<1>2. ASSUME ~Engaged PROVE Following' = Following
  BY <1>1, <1>2 DEF Following
<1>3. ASSUME ~CanOpen PROVE OpeningUp' = OpeningUp
  <2>1. mode = "chime" => Engaged
    <3>1. CASE Engaged
      BY <3>1
    <3>2. CASE ~Engaged
      <4>1. Engaged = FALSE /\ CanOpen = FALSE /\ (Engaged /\ lastUser = u) = FALSE
        BY <1>3, <3>2 DEF Engaged, CanOpen
      <4>2. mode = Decision(t, FALSE, FALSE, FALSE)
        BY <4>1, Zenon
      <4> QED BY <4>2, OpensAfterCooldown
    <3> QED BY <3>1, <3>2
  <2> QED BY <1>1, <2>1 DEF OpeningUp
<1> QED BY <1>2, <1>3

(* Every action keeps FollowInv.                                           *)
LEMMA FollowStep == TalkTypeOK /\ FollowInv /\ [TalkNext]_talkVars => FollowInv'
<1> SUFFICES ASSUME TalkTypeOK, FollowInv, [TalkNext]_talkVars PROVE FollowInv'
  OBVIOUS
<1>0. /\ EngageReplies \in Nat /\ N \in Nat /\ N' = N
      /\ followUps \in Nat /\ repliesLeft \in 0 .. EngageReplies
      /\ Following \in SUBSET Slots /\ Following' \in SUBSET Slots
      /\ Cardinality(Following) \in Nat /\ Cardinality(Following') \in Nat
      /\ Cardinality(Following) <= N
  <2>1. Following \in SUBSET Slots /\ Following' \in SUBSET Slots
    BY DEF Following
  <2> QED BY <2>1, SlotsCounted, TalkAssumption DEF N, TalkTypeOK
<1>1. ASSUME NEW s \in Slots, NEW u \in Members, NEW t \in Texts, Receive(s, u, t)
      PROVE  FollowInv'
  <2>1. repliesLeft' = repliesLeft /\ followUps' = followUps
    BY <1>1 DEF Receive, engagement
  <2>2. CASE Engaged
    BY <1>0, <2>1, <2>2 DEF FollowInv, Engaged
  <2>3. CASE ~Engaged
    BY <1>0, <1>1, <2>1, <2>3, ArrivalJoins DEF FollowInv
  <2> QED BY <2>2, <2>3
<1>2. ASSUME NEW s \in Slots, Answer(s) PROVE FollowInv'
  <2>1. Following' = Following \ {s}
    BY <1>2, ForgottenLeaves DEF Answer
  <2>2. CASE Opening(s)
    <3>1. repliesLeft' = EngageReplies /\ followUps' = 0
      BY <1>2, <2>2 DEF Answer
    <3> QED BY <1>0, <2>1, <3>1 DEF FollowInv
  <2>3. CASE ~Opening(s)
    <3>1. s \in Following
      BY <1>2, <2>3 DEF Answer, Heard, Opening, Following, TalkTypeOK
    <3>2. Cardinality(Following') = Cardinality(Following) - 1 /\ Cardinality(Following') < N
      BY <1>0, <2>1, <3>1, OneSlotLess
    <3>3. /\ followUps' = followUps + 1
          /\ repliesLeft' = IF repliesLeft = 0 THEN 0 ELSE repliesLeft - 1
      BY <1>2, <2>3 DEF Answer
    <3>4. EngageReplies > 0
      BY <3>1 DEF FollowInv
    <3>5. CASE repliesLeft = 0
      BY <1>0, <3>1, <3>2, <3>3, <3>4, <3>5 DEF FollowInv
    <3>6. CASE repliesLeft > 0
      <4>1. followUps + repliesLeft <= EngageReplies
        BY <3>6 DEF FollowInv
      <4> QED BY <1>0, <3>2, <3>3, <3>4, <3>6, <4>1 DEF FollowInv
    <3> QED BY <1>0, <3>5, <3>6
  <2> QED BY <2>2, <2>3
<1>3. ASSUME NEW s \in Slots, Unnoted(s) PROVE FollowInv'
  <2>1. Following' = Following \ {s} /\ repliesLeft' = repliesLeft /\ followUps' = followUps
    BY <1>3, ForgottenLeaves DEF Unnoted, engagement
  <2>2. Cardinality(Following') <= Cardinality(Following)
    BY <1>0, <2>1, OneSlotLess
  <2> QED BY <1>0, <2>1, <2>2 DEF FollowInv
<1>4. ASSUME ForgetChat PROVE FollowInv'
  <2>1. Following' = Following /\ repliesLeft' = 0 /\ followUps' = 0
    BY <1>4 DEF ForgetChat, Following
  <2> QED BY <1>0, <2>1 DEF FollowInv
<1>5. ASSUME TalkTick PROVE FollowInv'
  BY <1>5 DEF TalkTick, FollowInv, Following, N
<1>6. ASSUME UNCHANGED talkVars PROVE FollowInv'
  BY <1>6 DEF talkVars, engagement, FollowInv, Following, N
<1> QED BY <1>1, <1>2, <1>3, <1>4, <1>5, <1>6 DEF TalkNext

(* For any number of messages at once: the follow-ups of one engagement    *)
(* stay below the configured number and one for each message on its way.   *)
THEOREM FollowUpsStayBounded == TalkSpec => []FollowUpsBounded
<1>1. TalkInit => FollowInv
  <2> SUFFICES ASSUME TalkInit PROVE FollowInv
    OBVIOUS
  <2>1. Following = {} /\ repliesLeft = 0 /\ followUps = 0
    BY DEF TalkInit, Following, Unheard
  <2> QED BY <2>1 DEF FollowInv
<1>2. TalkTypeOK /\ FollowInv => FollowUpsBounded
  <2> SUFFICES ASSUME TalkTypeOK, FollowInv, followUps > 0
               PROVE  followUps < EngageReplies + N
    BY DEF FollowUpsBounded, N
  <2>1. Following \in SUBSET Slots
    BY DEF Following
  <2>2. Cardinality(Following) \in Nat /\ N \in Nat /\ EngageReplies \in Nat
    BY <2>1, SlotsCounted, TalkAssumption
  <2> QED BY <2>2 DEF FollowInv, TalkTypeOK
<1> QED BY <1>1, <1>2, TalkTypeCorrect, FollowStep, PTL DEF TalkSpec

(* Every action keeps OpenInv.                                             *)
LEMMA OpenStep == TalkTypeOK /\ OpenInv /\ [TalkNext]_talkVars => OpenInv'
<1> SUFFICES ASSUME TalkTypeOK, OpenInv, [TalkNext]_talkVars, Cooldown > 0 PROVE OpenInv'
  BY DEF OpenInv
<1>0. /\ Cooldown \in Nat /\ N \in Nat
      /\ openings \in Nat /\ quiet \in 0 .. Cooldown
      /\ OpeningUp \in SUBSET Slots /\ OpeningUp' \in SUBSET Slots
      /\ Cardinality(OpeningUp) \in Nat /\ Cardinality(OpeningUp') \in Nat
      /\ Cardinality(OpeningUp) <= N /\ Cardinality(OpeningUp') <= N
  <2>1. OpeningUp \in SUBSET Slots /\ OpeningUp' \in SUBSET Slots
    BY DEF OpeningUp
  <2> QED BY <2>1, SlotsCounted, TalkAssumption DEF TalkTypeOK
<1>1. ASSUME NEW s \in Slots, NEW u \in Members, NEW t \in Texts, Receive(s, u, t)
      PROVE  OpenInv'
  <2>1. quiet' = quiet /\ openings' = openings
    BY <1>1 DEF Receive
  <2> QED BY <1>1, <2>1, ArrivalJoins DEF OpenInv, CanOpen, N
<1>2. ASSUME NEW s \in Slots, Answer(s) PROVE OpenInv'
  <2>1. OpeningUp' = OpeningUp \ {s} /\ quiet' = 0
    BY <1>2, ForgottenLeaves DEF Answer
  <2>2. openings + Cardinality(OpeningUp) <= N
    BY <1>0 DEF OpenInv
  <2>3. CASE Uncalled(s)
    <3>1. s \in OpeningUp
      BY <2>3 DEF Uncalled, OpeningUp
    <3>2. Cardinality(OpeningUp') = Cardinality(OpeningUp) - 1
      BY <1>0, <2>1, <3>1, OneSlotLess
    <3>3. openings' = openings + 1
      BY <1>2, <2>3 DEF Answer
    <3> QED BY <1>0, <2>1, <2>2, <3>2, <3>3 DEF OpenInv, CanOpen, N
  <2>4. CASE ~Uncalled(s)
    <3>1. s \notin OpeningUp
      BY <2>4 DEF Uncalled, OpeningUp
    <3>2. OpeningUp' = OpeningUp /\ openings' = openings
      BY <1>2, <2>1, <2>4, <3>1 DEF Answer
    <3> QED BY <1>0, <2>1, <2>2, <3>2 DEF OpenInv, CanOpen, N
  <2> QED BY <2>3, <2>4
<1>3. ASSUME NEW s \in Slots, Unnoted(s) PROVE OpenInv'
  <2>1. OpeningUp' = OpeningUp \ {s} /\ quiet' = quiet /\ openings' = openings
    BY <1>3, ForgottenLeaves DEF Unnoted
  <2>2. Cardinality(OpeningUp') <= Cardinality(OpeningUp)
    BY <1>0, <2>1, OneSlotLess
  <2> QED BY <1>0, <2>1, <2>2 DEF OpenInv, CanOpen, N
<1>4. ASSUME ForgetChat PROVE OpenInv'
  BY <1>0, <1>4 DEF ForgetChat, OpenInv, CanOpen
<1>5. ASSUME TalkTick PROVE OpenInv'
  <2>1. OpeningUp' = OpeningUp
    BY <1>5 DEF TalkTick, OpeningUp
  <2>2. CASE quiet' = Cooldown
    BY <1>0, <1>5, <2>2 DEF TalkTick, OpenInv, CanOpen
  <2>3. CASE quiet' # Cooldown
    <3>1. ~CanOpen /\ ~CanOpen' /\ openings' = openings
      BY <1>0, <1>5, <2>3 DEF TalkTick, CanOpen
    <3> QED BY <2>1, <3>1 DEF OpenInv, N
  <2> QED BY <2>2, <2>3
<1>6. ASSUME UNCHANGED talkVars PROVE OpenInv'
  BY <1>6 DEF talkVars, engagement, OpenInv, OpeningUp, CanOpen, N
<1> QED BY <1>1, <1>2, <1>3, <1>4, <1>5, <1>6 DEF TalkNext

(* For any number of messages at once: between two quiet spells the bot    *)
(* opens uncalled at most once for each of them.                           *)
THEOREM OpeningsStayBounded == TalkSpec => []OpeningsBounded
<1>1. TalkInit => OpenInv
  BY TalkAssumption DEF TalkInit, OpenInv, CanOpen
<1>2. TalkTypeOK /\ OpenInv => OpeningsBounded
  <2> SUFFICES ASSUME TalkTypeOK, OpenInv, Cooldown > 0 PROVE openings <= N
    BY DEF OpeningsBounded, N
  <2>1. OpeningUp \in SUBSET Slots
    BY DEF OpeningUp
  <2>2. Cardinality(OpeningUp) \in Nat /\ N \in Nat
    BY <2>1, SlotsCounted
  <2> QED BY <2>2 DEF OpenInv, TalkTypeOK
<1> QED BY <1>1, <1>2, TalkTypeCorrect, OpenStep, PTL DEF TalkSpec

-----------------------------------------------------------------------------
(* SpeakerCards: the card of a speaker.                                   *)

(* No entry twice.                                                         *)
Distinct(s) == \A i, k \in DOMAIN s : s[i] = s[k] => i = k

(* A card that lost nothing of an old one.                                 *)
Adds(c, old) ==
    /\ c.familiarity >= old.familiarity
    /\ old.taboos \subseteq c.taboos
    /\ IsPrefix(old.stack, c.stack)
    /\ old.recent # Empty => c.recent # Empty

(* A job that nobody has overtaken still holds what it has read, then what *)
(* it makes of it; and it had a reason to read.                            *)
CardsInv ==
    /\ row # NoRow => Distinct(row.stack)
    /\ \A j \in Jobs : Distinct(card[j].stack)
    /\ \A j \in Jobs : ~overtaken[j] =>
          /\ job[j] = "extracting" => card[j] = CardFromRow
          /\ job[j] = "putting" /\ row # NoRow => Adds(card[j], row)
          /\ job[j] # "none" /\ row # NoRow => age = MaxAge \/ forced[j]

(* The step CardOnlyGrows speaks of.                                       *)
GrowsStep ==
    \A j \in Jobs :
       job[j] = "putting" /\ job'[j] = "none" /\ ~overtaken[j] /\ row # NoRow =>
       /\ row'.familiarity >= row.familiarity
       /\ row.taboos \subseteq row'.taboos
       /\ IsPrefix(row.stack, row'.stack)
       /\ row.recent # Empty => row'.recent # Empty
       /\ age = MaxAge \/ forced[j]

-----------------------------------------------------------------------------
(* Ranks in a set of positions.                                            *)

(* A part of a finite set of positions is counted.                         *)
LEMMA RankTyped ==
    ASSUME NEW N0 \in Nat, NEW S \in SUBSET (1 .. N0), NEW T \in SUBSET S
    PROVE  /\ IsFiniteSet(S) /\ IsFiniteSet(T)
           /\ Cardinality(S) \in Nat /\ Cardinality(T) \in Nat
           /\ Cardinality(T) <= Cardinality(S)
           /\ T # {} => Cardinality(T) > 0
<1>1. IsFiniteSet(1 .. N0)
  BY FS_Interval
<1>2. IsFiniteSet(S)
  BY <1>1, FS_Subset
<1>3. IsFiniteSet(T) /\ Cardinality(T) <= Cardinality(S)
  BY <1>2, FS_Subset
<1>4. Cardinality(S) \in Nat /\ Cardinality(T) \in Nat
  BY <1>2, <1>3, FS_CardinalityType
<1>5. T # {} => Cardinality(T) # 0
  BY <1>3, FS_EmptySet
<1> QED BY <1>2, <1>3, <1>4, <1>5

(* Every rank up to the size of the set is taken.                          *)
LEMMA RankTaken ==
    ASSUME NEW N0 \in Nat, NEW S \in SUBSET (1 .. N0), NEW n \in 1 .. Cardinality(S)
    PROVE  Nth(S, n) \in S /\ Cardinality(UpTo(S, Nth(S, n))) = n
<1> DEFINE G == {i \in S : Cardinality(UpTo(S, i)) >= n}
<1>1. \A i \in S : UpTo(S, i) \in SUBSET S /\ i \in Nat
  BY DEF UpTo
<1>2. \A i \in S : Cardinality(UpTo(S, i)) \in Nat
  BY <1>1, RankTyped
<1>3. Cardinality(S) \in Nat /\ S # {} /\ n \in Nat \ {0} /\ n <= Cardinality(S)
  <2>1. Cardinality(S) \in Nat
    BY RankTyped
  <2> QED BY <2>1, FS_EmptySet
<1>4. G # {} /\ G \in SUBSET Nat
  <2>1. S \in SUBSET (0 .. N0)
    OBVIOUS
  <2>2. Max(S) \in S /\ \A y \in S : Max(S) >= y
    BY <1>3, <2>1, GreatestExists
  <2>3. UpTo(S, Max(S)) = S
    BY <2>2 DEF UpTo
  <2>4. Max(S) \in G
    BY <1>3, <2>2, <2>3
  <2> QED BY <1>1, <2>4
<1> DEFINE i == Min(G)
<1>5. i \in G /\ \A y \in G : i <= y
  <2> HIDE DEF G
  <2> QED BY <1>4, LeastExists
<1> HIDE DEF i
<1>6. i \in S /\ Cardinality(UpTo(S, i)) >= n
  BY <1>5
<1>7. Cardinality(UpTo(S, i)) = n
  <2> SUFFICES ASSUME Cardinality(UpTo(S, i)) > n PROVE FALSE
    BY <1>2, <1>3, <1>6
  <2> DEFINE B == UpTo(S, i) \ {i}
  <2>1. i \in UpTo(S, i) /\ IsFiniteSet(UpTo(S, i)) /\ i \in Nat
    BY <1>1, <1>6, RankTyped DEF UpTo
  <2>2. Cardinality(B) = Cardinality(UpTo(S, i)) - 1
    BY <2>1, FS_RemoveElement
  <2>3. B \subseteq S /\ \A k \in S : k \in B <=> k < i
    <3>1. B \subseteq S /\ \A k \in S : k \in B <=> k <= i /\ k # i
      BY DEF UpTo
    <3> HIDE DEF B
    <3>2. ASSUME NEW k \in S PROVE k \in B <=> k < i
      <4>1. k \in Nat /\ (k \in B <=> k <= i /\ k # i)
        BY <3>1
      <4> QED BY <2>1, <4>1
    <3> QED BY <3>1, <3>2
  <2> HIDE DEF B
  <2>4. Cardinality(B) >= n /\ B # {}
    <3>1. Cardinality(UpTo(S, i)) \in Nat
      BY <1>2, <1>6
    <3>2. Cardinality(B) >= n
      BY <1>3, <2>2, <3>1
    <3> QED BY <1>3, <3>2, FS_EmptySet
  <2>5. B \in SUBSET (0 .. N0)
    <3>1. S \in SUBSET (0 .. N0)
      OBVIOUS
    <3> QED BY <2>3, <3>1, Zenon
  <2> DEFINE j == Max(B)
  <2>6. j \in B /\ \A y \in B : j >= y
    BY <2>4, <2>5, GreatestExists
  <2> HIDE DEF j
  <2>7. j \in S /\ j < i /\ j \in Nat
    BY <1>1, <2>3, <2>6
  <2>8. UpTo(S, j) = B
    <3>1. UpTo(S, j) \subseteq S /\ \A k \in S : k \in UpTo(S, j) <=> k <= j
      BY DEF UpTo
    <3>2. ASSUME NEW k \in S PROVE k \in UpTo(S, j) <=> k \in B
      <4>1. k \in Nat /\ (k \in UpTo(S, j) <=> k <= j) /\ (k \in B <=> k < i)
        BY <2>3, <3>1
      <4>2. k \in B => j >= k
        BY <2>6
      <4> QED BY <2>1, <2>7, <4>1, <4>2
    <3> QED BY <2>3, <3>1, <3>2
  <2>9. j \in G
    BY <2>4, <2>7, <2>8
  <2> QED BY <1>5, <2>1, <2>7, <2>9
<1> QED BY <1>6, <1>7 DEF Nth

(* No two positions have the same rank.                                    *)
LEMMA RankUnique ==
    ASSUME NEW N0 \in Nat, NEW S \in SUBSET (1 .. N0), NEW i \in S, NEW j \in S,
           Cardinality(UpTo(S, i)) = Cardinality(UpTo(S, j))
    PROVE  i = j
<1>1. ASSUME NEW a \in S, NEW b \in S, a < b,
             Cardinality(UpTo(S, a)) = Cardinality(UpTo(S, b))
      PROVE  FALSE
  <2>1. UpTo(S, a) \in SUBSET UpTo(S, b) /\ UpTo(S, b) \in SUBSET S
    <3>1. \A k \in S : k \in Nat
      OBVIOUS
    <3>2. \A k \in S : k <= a => k <= b
      BY <1>1, <3>1
    <3> QED BY <3>2, Zenon DEF UpTo
  <2>2. IsFiniteSet(UpTo(S, b))
    BY <2>1, RankTyped
  <2>3. UpTo(S, a) = UpTo(S, b)
    BY <1>1, <2>1, <2>2, FS_Subset
  <2>4. b \in UpTo(S, b) /\ b \notin UpTo(S, a)
    BY <1>1 DEF UpTo
  <2> QED BY <2>3, <2>4
<1>2. i \in Nat /\ j \in Nat /\ ~ (i < j) /\ ~ (j < i)
  BY <1>1
<1> QED BY <1>2

-----------------------------------------------------------------------------
(* Stacks.                                                                 *)

(* How a list that may be a stack is typed.                                *)
LEMMA StackTyped ==
    /\ SeqOf(Techs, StackMax) \subseteq Seq(Techs)
    /\ \A s \in Seq(Techs) : s \in SeqOf(Techs, StackMax) <=> Len(s) <= StackMax
    /\ <<>> \in SeqOf(Techs, StackMax)
<1>1. StackMax \in Nat
  BY CardsAssumption
<1>2. ASSUME NEW s \in SeqOf(Techs, StackMax)
      PROVE  s \in Seq(Techs) /\ Len(s) <= StackMax
  <2>1. PICK m \in 0 .. StackMax : s \in [1 .. m -> Techs]
    BY Zenon DEF SeqOf
  <2> QED BY <1>1, <2>1
<1>3. ASSUME NEW s \in Seq(Techs), Len(s) <= StackMax
      PROVE  s \in SeqOf(Techs, StackMax)
  <2>1. Len(s) \in Nat /\ s \in [1 .. Len(s) -> Techs]
    BY LenProperties
  <2>2. Len(s) \in 0 .. StackMax
    BY <1>1, <1>3, <2>1
  <2> QED BY <2>1, <2>2, Zenon DEF SeqOf
<1>4. <<>> \in Seq(Techs) /\ Len(<<>>) <= StackMax
  BY <1>1, EmptySeq
<1> QED BY <1>2, <1>3, <1>4

(* What _norm_stack leaves of a list: each position it keeps is one where  *)
(* an entry comes first, and it keeps them in order.                       *)
LEMMA NormStackShape ==
    ASSUME NEW s \in Seq(Techs)
    PROVE  LET F == Firsts(s)  r == NormStack(s)
           IN  /\ F \in SUBSET (1 .. Len(s))
               /\ r \in Seq(Techs)
               /\ Len(r) \in Nat /\ Len(r) <= StackMax /\ Len(r) <= Cardinality(F)
               /\ Len(r) = StackMax \/ Len(r) = Cardinality(F)
               /\ \A n \in 1 .. Len(r) : /\ Nth(F, n) \in F
                                         /\ Cardinality(UpTo(F, Nth(F, n))) = n
                                         /\ r[n] = s[Nth(F, n)]
<1> DEFINE F == Firsts(s)  m == Min({Cardinality(F), StackMax})
           r == [n \in 1 .. m |-> s[Nth(F, n)]]
<1>1. Len(s) \in Nat /\ DOMAIN s = 1 .. Len(s)
  BY LenProperties
<1>2. F \in SUBSET (1 .. Len(s))
  BY <1>1 DEF Firsts
<1> HIDE DEF F
<1>3. Cardinality(F) \in Nat /\ StackMax \in Nat
  BY <1>1, <1>2, RankTyped, CardsAssumption
<1>4. m \in {Cardinality(F), StackMax} /\ m <= Cardinality(F) /\ m <= StackMax /\ m \in Nat
  <2>1. {Cardinality(F), StackMax} \in SUBSET Nat /\ {Cardinality(F), StackMax} # {}
    BY <1>3
  <2>2. m \in {Cardinality(F), StackMax} /\ \A y \in {Cardinality(F), StackMax} : m <= y
    BY <2>1, LeastExists
  <2> HIDE DEF m
  <2> QED BY <1>3, <2>2
<1> HIDE DEF m
<1>5. ASSUME NEW n \in 1 .. m
      PROVE  Nth(F, n) \in F /\ Cardinality(UpTo(F, Nth(F, n))) = n /\ s[Nth(F, n)] \in Techs
  <2>1. n \in 1 .. Cardinality(F)
    BY <1>3, <1>4
  <2>2. Nth(F, n) \in F /\ Cardinality(UpTo(F, Nth(F, n))) = n
    BY <1>1, <1>2, <2>1, RankTaken
  <2> QED BY <1>1, <1>2, <2>2, ElementOfSeq
<1>6. r \in Seq(Techs) /\ Len(r) = m /\ \A n \in 1 .. m : r[n] = s[Nth(F, n)]
  BY <1>4, <1>5
<1>7. NormStack(s) = r
  BY DEF NormStack, F, m
<1> HIDE DEF r
<1> QED BY <1>2, <1>4, <1>5, <1>6, <1>7 DEF F

(* No entry comes first twice.                                             *)
LEMMA NormStackDistinct ==
    ASSUME NEW s \in Seq(Techs)
    PROVE  Distinct(NormStack(s))
<1> DEFINE F == Firsts(s)  r == NormStack(s)
<1>1. /\ F \in SUBSET (1 .. Len(s)) /\ r \in Seq(Techs) /\ Len(r) \in Nat
      /\ \A n \in 1 .. Len(r) : /\ Nth(F, n) \in F
                                /\ Cardinality(UpTo(F, Nth(F, n))) = n
                                /\ r[n] = s[Nth(F, n)]
  BY NormStackShape
<1>2. Len(s) \in Nat /\ DOMAIN s = 1 .. Len(s)
  BY LenProperties
<1>3. ASSUME NEW a \in F, NEW b \in F, s[a] = s[b] PROVE a = b
  <2>1. /\ a \in 1 .. Len(s) /\ \A k \in 1 .. a - 1 : s[k] # s[a]
        /\ b \in 1 .. Len(s) /\ \A k \in 1 .. b - 1 : s[k] # s[b]
    BY <1>2 DEF Firsts
  <2>2. ~ (a < b) /\ ~ (b < a)
    BY <1>2, <1>3, <2>1
  <2> QED BY <1>2, <2>1, <2>2
<1>4. DOMAIN r = 1 .. Len(r)
  BY <1>1, LenProperties
<1> HIDE DEF F, r
<1>5. ASSUME NEW i \in 1 .. Len(r), NEW k \in 1 .. Len(r), r[i] = r[k] PROVE i = k
  <2>1. /\ Nth(F, i) \in F /\ Cardinality(UpTo(F, Nth(F, i))) = i /\ r[i] = s[Nth(F, i)]
        /\ Nth(F, k) \in F /\ Cardinality(UpTo(F, Nth(F, k))) = k /\ r[k] = s[Nth(F, k)]
    BY <1>1
  <2>2. Nth(F, i) = Nth(F, k)
    BY <1>3, <1>5, <2>1
  <2> QED BY <2>1, <2>2
<1> QED BY <1>4, <1>5 DEF Distinct, r

(* A stack without repetitions stays in front of what is added to it.      *)
LEMMA NormStackKeeps ==
    ASSUME NEW old \in Seq(Techs), Distinct(old), Len(old) <= StackMax,
           NEW new \in Seq(Techs)
    PROVE  IsPrefix(old, NormStack(old \o new))
<1> DEFINE s == old \o new  F == Firsts(s)  r == NormStack(s)  m == Len(old)
<1>1. /\ m \in Nat /\ DOMAIN old = 1 .. m
      /\ s \in Seq(Techs) /\ Len(s) = m + Len(new) /\ Len(new) \in Nat
      /\ \A i \in 1 .. m : s[i] = old[i]
  <2>1. m \in Nat /\ Len(new) \in Nat /\ DOMAIN old = 1 .. m
    BY LenProperties
  <2>2. /\ s \in Seq(Techs) /\ Len(s) = m + Len(new)
        /\ \A i \in 1 .. m + Len(new) : s[i] = IF i <= m THEN old[i] ELSE new[i - m]
    BY ConcatProperties, Zenon
  <2> HIDE DEF s, m
  <2> QED BY <2>1, <2>2
<1> HIDE DEF s
<1>2. DOMAIN s = 1 .. Len(s)
  BY <1>1, LenProperties
<1>3. /\ F \in SUBSET (1 .. Len(s)) /\ r \in Seq(Techs) /\ Len(r) \in Nat
      /\ Len(r) <= StackMax
      /\ Len(r) = StackMax \/ Len(r) = Cardinality(F)
      /\ \A n \in 1 .. Len(r) : /\ Nth(F, n) \in F
                                /\ Cardinality(UpTo(F, Nth(F, n))) = n
                                /\ r[n] = s[Nth(F, n)]
  BY <1>1, NormStackShape
<1>4. 1 .. m \in SUBSET F
  <2> SUFFICES ASSUME NEW i \in 1 .. m, NEW k \in 1 .. i - 1, s[k] = s[i] PROVE FALSE
    BY <1>1, <1>2 DEF Firsts
  <2>1. k \in 1 .. m /\ k # i
    BY <1>1
  <2> QED BY <1>1, <2>1 DEF Distinct
<1> HIDE DEF F, r, m
<1>5. ASSUME NEW i \in 1 .. m PROVE Cardinality(UpTo(F, i)) = i
  <2>1. UpTo(F, i) = 1 .. i
    <3>1. \A k \in F : k \in Nat /\ k >= 1
      BY <1>3
    <3>2. \A k \in 1 .. i : k \in F /\ k <= i
      BY <1>1, <1>4
    <3>3. \A k \in F : k <= i => k \in 1 .. i
      BY <1>1, <3>1
    <3> QED BY <3>2, <3>3 DEF UpTo
  <2> QED BY <1>1, <2>1, FS_Interval
<1>9. Len(s) \in Nat /\ F \in SUBSET (1 .. Len(s))
  BY <1>1, <1>3
<1>6. m <= Len(r)
  <2>1. Cardinality(1 .. m) = m
    BY <1>1, FS_Interval
  <2>2. m <= Cardinality(F) /\ Cardinality(F) \in Nat
    BY <1>4, <1>9, <2>1, RankTyped
  <2>3. m <= StackMax /\ StackMax \in Nat
    BY CardsAssumption DEF m
  <2> QED BY <1>1, <1>3, <2>2, <2>3
<1>7. ASSUME NEW i \in 1 .. m PROVE r[i] = old[i]
  <2>1. i \in 1 .. Len(r) /\ i \in F
    BY <1>1, <1>3, <1>4, <1>6
  <2>2. Nth(F, i) \in F /\ Cardinality(UpTo(F, Nth(F, i))) = Cardinality(UpTo(F, i))
    BY <1>3, <1>5, <2>1
  <2>3. Nth(F, i) = i
    BY <1>9, <2>1, <2>2, RankUnique
  <2> QED BY <1>1, <1>3, <2>1, <2>3
<1>8. SubSeq(old, 1, m) = SubSeq(r, 1, m)
  <2>1. /\ SubSeq(old, 1, m) \in Seq(Techs) /\ Len(SubSeq(old, 1, m)) = m
        /\ \A i \in 1 .. m : SubSeq(old, 1, m)[i] = old[i]
    <3>1. \A i \in 1 .. m : old[i] \in Techs
      BY <1>1, ElementOfSeq
    <3> QED BY <1>1, <3>1, SubSeqProperties
  <2>2. /\ SubSeq(r, 1, m) \in Seq(Techs) /\ Len(SubSeq(r, 1, m)) = m
        /\ \A i \in 1 .. m : SubSeq(r, 1, m)[i] = r[i]
    <3>1. \A i \in 1 .. m : r[i] \in Techs
      BY <1>1, <1>3, <1>6, ElementOfSeq
    <3> QED BY <1>1, <3>1, SubSeqProperties
  <2>3. \A i \in 1 .. m : SubSeq(old, 1, m)[i] = SubSeq(r, 1, m)[i]
    BY <1>7, <2>1, <2>2
  <2> QED BY <2>1, <2>2, <2>3, SeqEqual
<1> QED BY <1>6, <1>8 DEF IsPrefix, m, r, s

-----------------------------------------------------------------------------
(* Cards.                                                                  *)

(* Merging two cards makes a card without repetitions in its stack, and    *)
(* nothing of the old one is lost.                                         *)
LEMMA MergeAdds ==
    ASSUME NEW old \in Cards, NEW new \in Cards
    PROVE  /\ Merge(old, new) \in Cards
           /\ Distinct(Merge(old, new).stack)
           /\ Distinct(old.stack) => Adds(Merge(old, new), old)
<1>1. /\ old.stack \in Seq(Techs) /\ Len(old.stack) <= StackMax
      /\ new.stack \in Seq(Techs)
  BY StackTyped DEF Cards
<1> DEFINE r == NormStack(old.stack \o new.stack)
<1>2. r \in Seq(Techs) /\ Len(r) <= StackMax /\ Distinct(r)
  <2>1. old.stack \o new.stack \in Seq(Techs)
    BY <1>1, ConcatProperties
  <2> QED BY <2>1, NormStackShape, NormStackDistinct
<1>3. r \in SeqOf(Techs, StackMax)
  BY <1>2, StackTyped
<1>4. Distinct(old.stack) => IsPrefix(old.stack, r)
  BY <1>1, NormStackKeeps
<1> DEFINE f == Upgraded(old.familiarity, new.familiarity)  p == Prefer(new.recent, old.recent)
<1>5. f \in 0 .. 2 /\ f >= old.familiarity
  BY DEF Upgraded, Cards
<1>6. p \in Phrases \cup {Empty} /\ (old.recent # Empty => p # Empty)
  BY DEF Prefer, Cards
<1>7. Merge(old, new) = [familiarity |-> f, stack |-> r, taboos |-> old.taboos \cup new.taboos,
                         recent |-> p]
  BY DEF Merge
<1>8. old.taboos \cup new.taboos \in SUBSET Taboos
  BY DEF Cards
<1> HIDE DEF f, p, r
<1>9. Merge(old, new) \in Cards
  BY <1>3, <1>5, <1>6, <1>7, <1>8 DEF Cards
<1> QED BY <1>2, <1>4, <1>5, <1>6, <1>7, <1>9 DEF Adds

(* A speaker who is not known has an empty card.                           *)
LEMMA NewCardTyped == NewCard \in Cards /\ Distinct(NewCard.stack)
BY StackTyped DEF NewCard, Cards, Distinct

(* What a job reads is a card.                                             *)
LEMMA ReadTyped ==
    ASSUME row \in Cards \cup {NoRow}
    PROVE  /\ CardFromRow \in Cards
           /\ (row # NoRow => Distinct(row.stack)) => Distinct(CardFromRow.stack)
BY NewCardTyped DEF CardFromRow

(* Every action keeps the types.                                           *)
LEMMA CardsTypeStep == CardsTypeOK /\ [CardsNext]_cardVars => CardsTypeOK'
<1> SUFFICES ASSUME CardsTypeOK, [CardsNext]_cardVars PROVE CardsTypeOK'
  OBVIOUS
<1> USE DEF CardsTypeOK
<1>0. MaxAge \in Nat \ {0}
  BY CardsAssumption
<1>1. ASSUME NEW j \in Jobs, NEW compressed \in BOOLEAN, ReadCard(j, compressed)
      PROVE  CardsTypeOK'
  BY <1>1, ReadTyped DEF ReadCard
<1>2. ASSUME NEW j \in Jobs, NEW new \in Cards, Extracted(j, new) PROVE CardsTypeOK'
  <2>1. Merge(card[j], new) \in Cards
    BY MergeAdds
  <2> QED BY <1>2, <2>1 DEF Extracted
<1>3. ASSUME NEW j \in Jobs, GiveUp(j) PROVE CardsTypeOK'
  BY <1>3, NewCardTyped DEF GiveUp, Ends
<1>4. ASSUME NEW j \in Jobs, PutCard(j) PROVE CardsTypeOK'
  BY <1>0, <1>4, NewCardTyped DEF PutCard, Ends, Overtake
<1>5. ASSUME DeleteCard PROVE CardsTypeOK'
  BY <1>0, <1>5 DEF DeleteCard, Overtake
<1>6. ASSUME CardTick PROVE CardsTypeOK'
  BY <1>0, <1>6 DEF CardTick
<1>7. ASSUME UNCHANGED cardVars PROVE CardsTypeOK'
  BY <1>7 DEF cardVars
<1> QED BY <1>1, <1>2, <1>3, <1>4, <1>5, <1>6, <1>7 DEF CardsNext

(* The row, its age and the cards of the jobs keep their types.            *)
THEOREM CardsTypeCorrect == CardsSpec => []CardsTypeOK
<1>1. CardsInit => CardsTypeOK
  BY CardsAssumption, NewCardTyped DEF CardsInit, CardsTypeOK
<1> QED BY <1>1, CardsTypeStep, PTL DEF CardsSpec

(* What CardsInv says of one job.                                          *)
Holds(j) ==
    ~overtaken[j] =>
      /\ job[j] = "extracting" => card[j] = CardFromRow
      /\ job[j] = "putting" /\ row # NoRow => Adds(card[j], row)
      /\ job[j] # "none" /\ row # NoRow => age = MaxAge \/ forced[j]

(* Every action keeps what the jobs hold.                                  *)
LEMMA CardsStep == CardsTypeOK /\ CardsInv /\ [CardsNext]_cardVars => CardsInv'
<1> SUFFICES ASSUME CardsTypeOK, CardsInv, [CardsNext]_cardVars PROVE CardsInv'
  OBVIOUS
<1>0. /\ row \in Cards \cup {NoRow} /\ age \in 0 .. MaxAge /\ MaxAge \in Nat \ {0}
      /\ job \in [Jobs -> {"none", "extracting", "putting"}]
      /\ card \in [Jobs -> Cards]
      /\ forced \in [Jobs -> BOOLEAN] /\ overtaken \in [Jobs -> BOOLEAN]
  BY CardsAssumption DEF CardsTypeOK
<1>a. /\ row # NoRow => Distinct(row.stack)
      /\ \A j \in Jobs : Distinct(card[j].stack) /\ Holds(j)
  BY DEF CardsInv, Holds
<1>b. /\ row' # NoRow => Distinct(row'.stack)
      /\ \A j \in Jobs : Distinct(card'[j].stack) /\ Holds(j)'
      => CardsInv'
  BY DEF CardsInv, Holds
<1>1. ASSUME NEW j \in Jobs, NEW compressed \in BOOLEAN, ReadCard(j, compressed)
      PROVE  CardsInv'
  <2>1. ASSUME NEW k \in Jobs PROVE Distinct(card'[k].stack) /\ Holds(k)'
    <3>1. CASE k = j
      <4>1. /\ job'[j] = "extracting" /\ card'[j] = CardFromRow /\ forced'[j] = compressed
            /\ row' = row /\ age' = age
        BY <1>0, <1>1 DEF ReadCard
      <4>2. CardFromRow' = CardFromRow
        BY <4>1 DEF CardFromRow
      <4>3. compressed \/ row = NoRow \/ age = MaxAge
        BY <1>1 DEF ReadCard, Due
      <4> QED BY <1>0, <1>a, <3>1, <4>1, <4>2, <4>3, ReadTyped DEF Holds
    <3>2. CASE k # j
      BY <1>0, <1>1, <1>a, <3>2 DEF ReadCard, Holds, CardFromRow
    <3> QED BY <3>1, <3>2
  <2> QED BY <1>1, <1>a, <1>b, <2>1 DEF ReadCard
<1>2. ASSUME NEW j \in Jobs, NEW new \in Cards, Extracted(j, new) PROVE CardsInv'
  <2>1. ASSUME NEW k \in Jobs PROVE Distinct(card'[k].stack) /\ Holds(k)'
    <3>1. CASE k = j
      <4>1. /\ job[j] = "extracting" /\ job'[j] = "putting" /\ card'[j] = Merge(card[j], new)
            /\ UNCHANGED <<row, age, forced, overtaken>>
        BY <1>0, <1>2 DEF Extracted
      <4>2. /\ Distinct(Merge(card[j], new).stack)
            /\ Adds(Merge(card[j], new), card[j])
        BY <1>0, <1>a, MergeAdds
      <4>3. ~overtaken[j] /\ row # NoRow => card[j] = row
        BY <1>a, <4>1 DEF Holds, CardFromRow
      <4> QED BY <1>0, <1>a, <3>1, <4>1, <4>2, <4>3 DEF Holds
    <3>2. CASE k # j
      BY <1>0, <1>2, <1>a, <3>2 DEF Extracted, Holds, CardFromRow
    <3> QED BY <3>1, <3>2
  <2> QED BY <1>2, <1>a, <1>b, <2>1 DEF Extracted
<1>3. ASSUME NEW j \in Jobs, GiveUp(j) PROVE CardsInv'
  <2>1. ASSUME NEW k \in Jobs PROVE Distinct(card'[k].stack) /\ Holds(k)'
    <3>1. CASE k = j
      <4>1. job'[j] = "none" /\ card'[j] = NewCard
        BY <1>0, <1>3 DEF GiveUp, Ends
      <4> QED BY <3>1, <4>1, NewCardTyped DEF Holds
    <3>2. CASE k # j
      BY <1>0, <1>3, <1>a, <3>2 DEF GiveUp, Ends, Holds, CardFromRow
    <3> QED BY <3>1, <3>2
  <2> QED BY <1>3, <1>a, <1>b, <2>1 DEF GiveUp
<1>4. ASSUME NEW j \in Jobs, PutCard(j) PROVE CardsInv'
  <2>0. /\ row' = card[j]
        /\ job' = [job EXCEPT ![j] = "none"] /\ card' = [card EXCEPT ![j] = NewCard]
        /\ overtaken' = [k \in Jobs |-> overtaken[k] \/ k \in {i \in Jobs \ {j} : job[i] # "none"}]
    BY <1>4 DEF PutCard, Ends, Overtake
  <2>1. ASSUME NEW k \in Jobs PROVE Distinct(card'[k].stack) /\ Holds(k)'
    <3>1. CASE k = j
      <4>1. job'[j] = "none" /\ card'[j] = NewCard
        BY <1>0, <2>0
      <4> QED BY <3>1, <4>1, NewCardTyped DEF Holds
    <3>2. CASE k # j
      <4>1. job'[k] = job[k] /\ card'[k] = card[k] /\ (job[k] # "none" => overtaken'[k])
        BY <1>0, <2>0, <3>2
      <4> QED BY <1>0, <1>a, <4>1 DEF Holds
    <3> QED BY <3>1, <3>2
  <2> QED BY <1>a, <1>b, <2>0, <2>1
<1>5. ASSUME DeleteCard PROVE CardsInv'
  <2>0. /\ row' = NoRow /\ UNCHANGED <<job, card>>
        /\ overtaken' = [k \in Jobs |-> overtaken[k] \/ k \in {i \in Jobs : job[i] # "none"}]
    BY <1>5 DEF DeleteCard, Overtake
  <2>1. ASSUME NEW k \in Jobs PROVE Distinct(card'[k].stack) /\ Holds(k)'
    <3>1. job[k] # "none" => overtaken'[k]
      BY <2>0
    <3> QED BY <1>0, <1>a, <2>0, <3>1 DEF Holds
  <2> QED BY <1>b, <2>0, <2>1
<1>6. ASSUME CardTick PROVE CardsInv'
  <2>0. age < MaxAge /\ row # NoRow /\ UNCHANGED <<row, job, card, forced, overtaken>>
    BY <1>6 DEF CardTick
  <2>1. ASSUME NEW k \in Jobs PROVE Distinct(card'[k].stack) /\ Holds(k)'
    <3>1. age # MaxAge
      BY <1>0, <2>0
    <3>2. CardFromRow' = CardFromRow
      BY <2>0 DEF CardFromRow
    <3> QED BY <1>a, <2>0, <3>1, <3>2 DEF Holds
  <2> QED BY <1>a, <1>b, <2>0, <2>1
<1>7. ASSUME UNCHANGED cardVars PROVE CardsInv'
  BY <1>7 DEF cardVars, CardsInv, CardFromRow
<1> QED BY <1>1, <1>2, <1>3, <1>4, <1>5, <1>6, <1>7 DEF CardsNext

(* Who puts a card has made it of the row, unless it was overtaken; who    *)
(* gives up leaves the row alone.                                          *)
LEMMA GrowsFromJobs == CardsTypeOK /\ CardsInv /\ [CardsNext]_cardVars => GrowsStep
<1> SUFFICES ASSUME CardsTypeOK, CardsInv, [CardsNext]_cardVars,
                    NEW j \in Jobs, job[j] = "putting", job'[j] = "none",
                    ~overtaken[j], row # NoRow
             PROVE  /\ row'.familiarity >= row.familiarity
                    /\ row.taboos \subseteq row'.taboos
                    /\ IsPrefix(row.stack, row'.stack)
                    /\ row.recent # Empty => row'.recent # Empty
                    /\ age = MaxAge \/ forced[j]
  BY DEF GrowsStep
<1>1. Adds(card[j], row) /\ (age = MaxAge \/ forced[j])
  BY DEF CardsInv
<1>2. row' = row \/ row' = card[j]
  <2>0. job \in [Jobs -> {"none", "extracting", "putting"}]
    BY DEF CardsTypeOK
  <2>1. ASSUME NEW i \in Jobs, PutCard(i) PROVE row' = card[j]
    <3>1. row' = card[i] /\ job' = [job EXCEPT ![i] = "none"]
      BY <2>1 DEF PutCard, Ends
    <3>2. i = j
      BY <2>0, <3>1
    <3> QED BY <3>1, <3>2
  <2>2. ASSUME DeleteCard PROVE FALSE
    BY <2>2 DEF DeleteCard
  <2> QED BY <2>1, <2>2 DEF CardsNext, cardVars, ReadCard, Extracted, GiveUp, CardTick
<1>3. Adds(row, row)
  <2>1. row.familiarity \in Int /\ Len(row.stack) \in Int
    <3>1. row \in Cards
      BY DEF CardsTypeOK
    <3>2. row.stack \in Seq(Techs) /\ row.familiarity \in Int
      BY <3>1, StackTyped DEF Cards
    <3> QED BY <3>2, LenProperties
  <2> QED BY <2>1 DEF Adds, IsPrefix
<1> QED BY <1>1, <1>2, <1>3 DEF Adds

(* A job that nobody overtook adds to the card of a speaker and takes      *)
(* nothing away, and changes one younger than a day after a compression    *)
(* only: for any fields, any stacks and any number of jobs at once.        *)
THEOREM CardsOnlyGrow == CardsSpec => CardOnlyGrows
<1>1. CardsInit => CardsTypeOK /\ CardsInv
  <2> SUFFICES ASSUME CardsInit PROVE CardsTypeOK /\ CardsInv
    OBVIOUS
  <2>1. CardsTypeOK
    BY CardsAssumption, NewCardTyped DEF CardsInit, CardsTypeOK
  <2>2. CardsInv
    BY NewCardTyped DEF CardsInit, CardsInv
  <2> QED BY <2>1, <2>2
<1>2. CardsTypeOK /\ CardsInv /\ [CardsNext]_cardVars
        => CardsTypeOK' /\ CardsInv' /\ GrowsStep
  BY CardsTypeStep, CardsStep, GrowsFromJobs
<1>3. CardOnlyGrows <=> [][GrowsStep]_cardVars
  BY DEF CardOnlyGrows, GrowsStep
<1> QED BY <1>1, <1>2, <1>3, PTL DEF CardsSpec

-----------------------------------------------------------------------------
(* OwnerPad: the pad of an owner.                                         *)

(* What writer w should put into field f now.                              *)
Means(w, f) ==
    IF f = "focus" /\ w \in OwnerTurns THEN said[w][f] ELSE Or(said[w][f], pad[f])

(* A draft holds what its writer means, where nobody has put the field     *)
(* since; the stamp only from the second reading on.                       *)
DraftInv ==
    \A w \in Writers :
       /\ at[w] = "loaded" =>
            /\ draft[w]["last_proactive_at"] = said[w]["last_proactive_at"]
            /\ \A f \in Kept \ behind[w] : draft[w][f] = Means(w, f)
       /\ at[w] = "reloaded" => \A f \in Fields \ behind[w] : draft[w][f] = Means(w, f)

(* The step OwnFieldsOnly speaks of.                                       *)
OwnFieldsStep ==
    \A w \in Writers : at[w] # "done" /\ at'[w] = "done" =>
       \A f \in Fields \ behind[w] : pad'[f] = Means(w, f)

-----------------------------------------------------------------------------
(* A blank row is a row.                                                   *)
LEMMA BlankTyped == BlankRow \in Rows
BY DEF BlankRow, Rows

(* Putting a row changes what the others are behind with by fields.        *)
LEMMA PutsTyped ==
    ASSUME NEW new \in Rows, NEW ws, behind \in [Writers -> SUBSET Fields], Puts(new, ws)
    PROVE  pad' \in Rows /\ behind' \in [Writers -> SUBSET Fields]
<1>1. Kept \subseteq Fields
  BY DEF Fields
<1> QED BY <1>1 DEF Puts, Taken

(* Every action keeps the types.                                           *)
LEMMA PadTypeStep == PadTypeOK /\ [PadNext]_padVars => PadTypeOK'
<1> SUFFICES ASSUME PadTypeOK, [PadNext]_padVars PROVE PadTypeOK'
  OBVIOUS
<1> USE DEF PadTypeOK
<1>1. ASSUME NEW w \in OwnerTurns, NEW text \in Notes \cup {Blank},
             NEW open \in Notes \cup {Blank}, NEW reflect \in Notes \cup {Blank},
             EndTurn(w, text, open, reflect)
      PROVE  PadTypeOK'
  <2>1. w \in Writers
    BY DEF Writers
  <2>2. [BlankRow EXCEPT !["focus"] = text, !["open_summary"] = open,
                         !["reflect_notes"] = reflect] \in Rows
    BY BlankTyped DEF Rows
  <2>3. /\ Or(open, pad["open_summary"]) \in Notes \cup {Blank}
        /\ Or(reflect, pad["reflect_notes"]) \in Notes \cup {Blank}
    BY DEF Or, Rows, Fields, Kept
  <2>4. [BlankRow EXCEPT !["focus"] = text,
                         !["open_summary"] = Or(open, pad["open_summary"]),
                         !["reflect_notes"] = Or(reflect, pad["reflect_notes"])] \in Rows
    BY <2>3, BlankTyped DEF Rows
  <2> QED BY <1>1, <2>1, <2>2, <2>4 DEF EndTurn, Advance
<1>2. ASSUME NEW w \in Pings, NEW now \in Notes, MarkProactive(w, now) PROVE PadTypeOK'
  <2>1. w \in Writers
    BY DEF Writers
  <2>2. /\ [BlankRow EXCEPT !["last_proactive_at"] = now] \in Rows
        /\ [pad EXCEPT !["last_proactive_at"] = now] \in Rows
    BY BlankTyped DEF Rows
  <2> QED BY <1>2, <2>1, <2>2 DEF MarkProactive, Advance
<1>3. ASSUME NEW w \in Writers, Reload(w) PROVE PadTypeOK'
  <2>1. draft[w] \in Rows /\ "last_proactive_at" \in Fields
    BY DEF Fields
  <2>2. Or(draft[w]["last_proactive_at"], pad["last_proactive_at"]) \in Notes \cup {Blank}
    BY <2>1 DEF Or, Rows
  <2>3. [draft[w] EXCEPT !["last_proactive_at"] =
           Or(draft[w]["last_proactive_at"], pad["last_proactive_at"])] \in Rows
    BY <2>1, <2>2 DEF Rows
  <2> QED BY <1>3, <2>3 DEF Reload, Advance
<1>4. ASSUME NEW w \in Writers, Save(w) PROVE PadTypeOK'
  <2>1. draft[w] \in Rows
    OBVIOUS
  <2>2. pad' \in Rows /\ behind' \in [Writers -> SUBSET Fields]
    BY <1>4, <2>1, PutsTyped DEF Save
  <2> QED BY <1>4, <2>2 DEF Save, Advance
<1>5. ASSUME NEW w \in Writers, SaveFails(w) PROVE PadTypeOK'
  BY <1>5 DEF SaveFails, Advance
<1>6. ASSUME ClearPad PROVE PadTypeOK'
  <2>1. pad' \in Rows /\ behind' \in [Writers -> SUBSET Fields]
    BY <1>6, BlankTyped, PutsTyped DEF ClearPad
  <2> QED BY <1>6, <2>1 DEF ClearPad
<1>7. ASSUME UNCHANGED padVars PROVE PadTypeOK'
  BY <1>7 DEF padVars
<1> QED BY <1>1, <1>2, <1>3, <1>4, <1>5, <1>6, <1>7 DEF PadNext, Reflections

(* The pad and what its writers hold keep their types.                     *)
THEOREM PadTypeCorrect == PadSpec => []PadTypeOK
<1>1. PadInit => PadTypeOK
  BY BlankTyped DEF PadInit, PadTypeOK
<1> QED BY <1>1, PadTypeStep, PTL DEF PadSpec

-----------------------------------------------------------------------------
(* A put leaves no field of another writer's draft unmarked.               *)
LEMMA PutsKeepDrafts ==
    ASSUME PadTypeOK, DraftInv, NEW new \in Rows, NEW ws, Puts(new, ws),
           UNCHANGED <<draft, said>>,
           \A v \in Writers : v \in ws => at'[v] = "done",
           \A v \in Writers : v \notin ws => at'[v] = at[v]
    PROVE  DraftInv'
<1> SUFFICES ASSUME NEW v \in Writers
             PROVE  /\ at'[v] = "loaded" =>
                         /\ draft'[v]["last_proactive_at"] = said'[v]["last_proactive_at"]
                         /\ \A f \in Kept \ behind'[v] : draft'[v][f] = Means(v, f)'
                    /\ at'[v] = "reloaded" =>
                         \A f \in Fields \ behind'[v] : draft'[v][f] = Means(v, f)'
  BY DEF DraftInv
<1>1. CASE v \in ws
  BY <1>1
<1>2. CASE v \notin ws
  <2>1. at'[v] = at[v]
    BY <1>2
  <2>2. at[v] = "loaded" => Kept \subseteq behind'[v]
    BY <1>2 DEF Puts, Taken
  <2>3. at[v] = "reloaded" => Fields \subseteq behind'[v]
    BY <1>2 DEF Puts, Taken
  <2> QED BY <2>1, <2>2, <2>3 DEF DraftInv
<1> QED BY <1>1, <1>2

(* A step that touches neither the row nor a draft, and at most ends a     *)
(* writer, changes nothing that a draft is held against.                   *)
LEMMA QuietStep ==
    ASSUME DraftInv, UNCHANGED <<pad, draft, said, behind>>,
           \A v \in Writers : at'[v] \in {at[v], "done", "failed"}
    PROVE  DraftInv'
BY DEF DraftInv, Means

(* Every action keeps the drafts.                                          *)
LEMMA DraftStep == PadTypeOK /\ DraftInv /\ [PadNext]_padVars => DraftInv'
<1> SUFFICES ASSUME PadTypeOK, DraftInv, [PadNext]_padVars PROVE DraftInv'
  OBVIOUS
<1>1. ASSUME NEW w \in OwnerTurns, NEW text \in Notes \cup {Blank},
             NEW open \in Notes \cup {Blank}, NEW reflect \in Notes \cup {Blank},
             EndTurn(w, text, open, reflect)
      PROVE  DraftInv'
  <2>1. w \in Writers /\ at'[w] = "loaded"
    BY <1>1 DEF Writers, EndTurn, Advance, PadTypeOK
  <2>2. /\ said'[w] = [BlankRow EXCEPT !["focus"] = text, !["open_summary"] = open,
                                       !["reflect_notes"] = reflect]
        /\ draft'[w] = [BlankRow EXCEPT !["focus"] = text,
                           !["open_summary"] = Or(open, pad["open_summary"]),
                           !["reflect_notes"] = Or(reflect, pad["reflect_notes"])]
    BY <1>1, <2>1 DEF EndTurn, PadTypeOK
  <2>3. draft'[w]["last_proactive_at"] = said'[w]["last_proactive_at"]
    BY <2>2 DEF BlankRow, Fields, Kept
  <2>4. \A f \in Kept : draft'[w][f] = Means(w, f)'
    <3>1. /\ said'[w]["focus"] = text /\ draft'[w]["focus"] = text
          /\ said'[w]["open_summary"] = open
          /\ draft'[w]["open_summary"] = Or(open, pad["open_summary"])
          /\ said'[w]["reflect_notes"] = reflect
          /\ draft'[w]["reflect_notes"] = Or(reflect, pad["reflect_notes"])
      BY <2>2 DEF BlankRow, Fields, Kept
    <3>2. pad' = pad
      BY <1>1 DEF EndTurn
    <3> QED BY <3>1, <3>2 DEF Means, Kept
  <2>5. \A v \in Writers \ {w} : /\ at'[v] = at[v] /\ draft'[v] = draft[v]
                                 /\ said'[v] = said[v]
    BY <1>1 DEF EndTurn, Advance, PadTypeOK
  <2>6. pad' = pad /\ behind' = behind
    BY <1>1 DEF EndTurn
  <2> QED BY <2>1, <2>3, <2>4, <2>5, <2>6 DEF DraftInv, Means
<1>2. ASSUME NEW w \in Pings, NEW now \in Notes, MarkProactive(w, now) PROVE DraftInv'
  <2>1. w \in Writers /\ w \notin OwnerTurns /\ at'[w] = "loaded"
    BY <1>2, PadAssumption DEF Writers, MarkProactive, Advance, PadTypeOK
  <2>2. /\ said'[w] = [BlankRow EXCEPT !["last_proactive_at"] = now]
        /\ draft'[w] = [pad EXCEPT !["last_proactive_at"] = now]
    BY <1>2, <2>1 DEF MarkProactive, PadTypeOK
  <2>3. draft'[w]["last_proactive_at"] = said'[w]["last_proactive_at"]
    BY <2>2 DEF BlankRow, Fields, Kept, PadTypeOK, Rows
  <2>4. \A f \in Kept : draft'[w][f] = Means(w, f)'
    BY <1>2, <2>1, <2>2 DEF Means, Or, BlankRow, Fields, Kept, MarkProactive, PadTypeOK, Rows
  <2>5. \A v \in Writers \ {w} : /\ at'[v] = at[v] /\ draft'[v] = draft[v]
                                 /\ said'[v] = said[v]
    BY <1>2 DEF MarkProactive, Advance, PadTypeOK
  <2>6. pad' = pad /\ behind' = behind
    BY <1>2 DEF MarkProactive
  <2> QED BY <2>1, <2>3, <2>4, <2>5, <2>6 DEF DraftInv, Means
<1>3. ASSUME NEW w \in Writers, Reload(w) PROVE DraftInv'
  <2>1. at[w] = "loaded" /\ at'[w] = "reloaded"
    BY <1>3 DEF Reload, Advance, PadTypeOK
  <2>2. draft'[w] = [draft[w] EXCEPT !["last_proactive_at"] =
                       Or(draft[w]["last_proactive_at"], pad["last_proactive_at"])]
    BY <1>3 DEF Reload, PadTypeOK
  <2>3. draft'[w]["last_proactive_at"] = Means(w, "last_proactive_at")
    BY <2>1, <2>2 DEF DraftInv, Means, PadTypeOK, Rows, Fields
  <2>4. \A f \in Kept \ behind[w] : draft'[w][f] = Means(w, f)
    BY <2>1, <2>2 DEF DraftInv, PadTypeOK, Rows, Fields, Kept
  <2>5. UNCHANGED <<pad, said, behind>>
    BY <1>3 DEF Reload
  <2>6. \A f \in Fields \ behind'[w] : draft'[w][f] = Means(w, f)'
    BY <2>3, <2>4, <2>5 DEF Fields, Means
  <2>7. \A v \in Writers \ {w} : at'[v] = at[v] /\ draft'[v] = draft[v]
    BY <1>3 DEF Reload, Advance, PadTypeOK
  <2> QED BY <2>1, <2>5, <2>6, <2>7 DEF DraftInv, Means
<1>4. ASSUME NEW w \in Writers, Save(w) PROVE DraftInv'
  <2>1. draft[w] \in Rows /\ at'[w] = "done" /\ \A v \in Writers \ {w} : at'[v] = at[v]
    BY <1>4 DEF Save, Advance, PadTypeOK
  <2> QED BY <1>4, <2>1, PutsKeepDrafts DEF Save
<1>5. ASSUME NEW w \in Writers, SaveFails(w) PROVE DraftInv'
  <2>1. \A v \in Writers : at'[v] \in {at[v], "done", "failed"}
    BY <1>5 DEF SaveFails, Advance, PadTypeOK
  <2> QED BY <1>5, <2>1, QuietStep DEF SaveFails
<1>6. ASSUME ClearPad PROVE DraftInv'
  BY <1>6, BlankTyped, PutsKeepDrafts DEF ClearPad
<1>7. ASSUME UNCHANGED padVars PROVE DraftInv'
  BY <1>7, QuietStep DEF padVars
<1> QED BY <1>1, <1>2, <1>3, <1>4, <1>5, <1>6, <1>7 DEF PadNext, Reflections

(* Only Save ends a writer, and it puts the draft.                         *)
LEMMA OwnFieldsFromDraft == PadTypeOK /\ DraftInv /\ [PadNext]_padVars => OwnFieldsStep
<1> SUFFICES ASSUME PadTypeOK, DraftInv, [PadNext]_padVars,
                    NEW w \in Writers, at[w] # "done", at'[w] = "done",
                    NEW f \in Fields \ behind[w]
             PROVE  pad'[f] = Means(w, f)
  BY DEF OwnFieldsStep
<1>1. Save(w)
  <2>1. CASE \E v \in Writers : Save(v)
    BY <2>1 DEF Save, Advance, PadTypeOK
  <2>2. CASE ~\E v \in Writers : Save(v)
    BY <2>2 DEF PadNext, Reflections, EndTurn, MarkProactive, Reload, SaveFails, ClearPad, Advance,
                PadTypeOK, padVars
  <2> QED BY <2>1, <2>2
<1>2. pad' = draft[w] /\ at[w] = "reloaded"
  BY <1>1 DEF Save, Puts
<1> QED BY <1>2 DEF DraftInv

(* For any number of writers: whoever puts the row leaves alone what it    *)
(* has nothing to say about, save what another put after it had read.      *)
THEOREM OwnFieldsKept == PadSpec => OwnFieldsOnly
<1>1. PadInit => DraftInv
  BY DEF PadInit, DraftInv
<1>2. PadTypeOK /\ DraftInv /\ [PadNext]_padVars
        => [\A w \in Writers : at[w] # "done" /\ at'[w] = "done" =>
              \A f \in Fields \ behind[w] :
                 pad'[f] = IF f = "focus" /\ w \in OwnerTurns THEN said[w][f]
                           ELSE Or(said[w][f], pad[f])]_padVars
  BY OwnFieldsFromDraft DEF OwnFieldsStep, Means
<1> QED BY <1>1, <1>2, PadTypeCorrect, DraftStep, PTL DEF PadSpec, OwnFieldsOnly

-----------------------------------------------------------------------------
(* The four parts side by side.                                            *)

(* What the instance lets happen is what a part does, or nothing to it.    *)
LEMMA PartsMove ==
    [MCNext]_<<talkVars, loopVars, cardVars, padVars, part>>
      => /\ [TalkNext]_talkVars
         /\ [LoopNext]_loopVars
         /\ [CardsNext]_cardVars
         /\ [PadNext]_padVars
<1>1. TalkMove => TalkNext
  <2>1. FewTexts \subseteq Texts
    BY DEF FewTexts
  <2> QED BY <2>1 DEF TalkMove, TalkNext
<1>2. CardsMove => CardsNext
  <2>1. FewCards \subseteq Cards
    BY DEF FewCards
  <2> QED BY <2>1 DEF CardsMove, CardsNext
<1>3. PadMove => PadNext
  BY DEF PadMove, PadNext, Reflections
<1> QED BY <1>1, <1>2, <1>3 DEF MCNext

(* Each part of the instance is an instance of the part: what is proved of *)
(* the parts holds of it, whichever of them moves.                         *)
THEOREM PartsImplemented == MCSpec => TalkSpec /\ LoopSpec /\ CardsSpec /\ PadSpec
<1>1. MCInit => TalkInit /\ LoopInit /\ CardsInit /\ PadInit
  BY DEF MCInit
<1> QED BY <1>1, PartsMove, PTL DEF MCSpec, TalkSpec, LoopSpec, CardsSpec, PadSpec

(* All parts keep their types together.                                    *)
THEOREM DialogueTypeCorrect == MCSpec => []DialogueTypeOK
<1>1. TalkTypeOK /\ LoopTypeOK /\ CardsTypeOK /\ PadTypeOK => DialogueTypeOK
  BY DEF DialogueTypeOK
<1> QED BY <1>1, PartsImplemented, TalkTypeCorrect, LoopTypeCorrect, CardsTypeCorrect,
           PadTypeCorrect, PTL

=============================================================================

-------------------------- MODULE ToolLoopProofs ---------------------------
(***************************************************************************)
(* What a turn of the model keeps of its thread, how many rounds it takes  *)
(* and how long a provider goes on refusing it: for any settings of the    *)
(* window, and for threads of any length.                                  *)
(***************************************************************************)
EXTENDS ToolLoop, FiniteSetTheorems, SequenceTheorems, TLAPS

(* The last human's message and what has followed it.                      *)
Turn(s) == From(s, LastHuman(s))

(* A thread or a window that is not empty and begins with a human.         *)
Opened(s) == s \in Seq(Kinds) /\ s # <<>> /\ s[1] = "human"

(* No result without its call.                                             *)
Paired(s) == \A i \in DOMAIN s : s[i] = "tool" => i > 1 /\ s[i - 1] \in {"call", "tool"}

(* What every step keeps: between supersteps only the last call can lack   *)
(* its results, unless a human's message came last; and the supersteps of  *)
(* a turn are two for each round that its messages hold.                   *)
LoopInv ==
    /\ thread # <<>> => thread[1] = "human"
    /\ Paired(thread)
    /\ stage # "idle" => thread # <<>>
    /\ stage \in {"agent", "tools"} => ToolRounds(thread) <= MaxToolRounds
    /\ stage = "agent" =>
          /\ steps = 2 * ToolRounds(thread)
          /\ Complete(thread) \/ thread[Len(thread)] = "human"
    /\ stage = "tools" =>
          /\ steps = 2 * ToolRounds(thread) - 1
          /\ thread[Len(thread)] = "call"
          /\ \A i \in 1 .. Len(thread) - 1 : thread[i] = "call" => thread[i + 1] = "tool"

(* Every refusal has left a message at the end.                            *)
TailInv ==
    refusals > 0 =>
      LET n == refusals + IF stage = "agent" THEN 1 ELSE 0
      IN  /\ stage \in {"idle", "agent"}
          /\ n < Len(thread)
          /\ \A k \in Len(thread) - n + 1 .. Len(thread) : thread[k] = "human"

-----------------------------------------------------------------------------
(* Sets of numbers.                                                        *)

(* The least of some natural numbers.                                      *)
LEMMA LeastExists ==
    ASSUME NEW S \in SUBSET Nat, S # {}
    PROVE  Min(S) \in S /\ \A y \in S : Min(S) <= y
<1>1. PICK x \in S : \A y \in S : ~ (<<y, x>> \in OpToRel(<, Nat))
  BY NatLessThanWellFounded, WFMin, Zenon
<1>2. \A y \in S : ~ (y < x)
  BY <1>1, Zenon DEF OpToRel
<1>3. \A y \in S : x <= y
  BY <1>2
<1> QED BY <1>3 DEF Min

(* The greatest of some natural numbers that do not exceed n.              *)
LEMMA GreatestExists ==
    ASSUME NEW n \in Nat, NEW S \in SUBSET (0 .. n), S # {}
    PROVE  Max(S) \in S /\ \A y \in S : Max(S) >= y
<1> DEFINE T == {d \in Nat : n - d \in S}
<1>1. T \in SUBSET Nat /\ T # {}
  <2>1. PICK s \in S : TRUE
    OBVIOUS
  <2>2. n - s \in T
    BY <2>1
  <2> QED BY <2>2
<1> DEFINE d == Min(T)
<1>2. d \in T /\ \A e \in T : d <= e
  <2> HIDE DEF T
  <2> QED BY <1>1, LeastExists
<1>3. n - d \in S /\ \A y \in S : n - d >= y
  <2>1. ASSUME NEW y \in S PROVE n - d >= y
    <3>1. n - y \in T /\ d \in Nat
      BY <1>2
    <3> HIDE DEF d, T
    <3> QED BY <1>2, <3>1
  <2> QED BY <1>2, <2>1
<1> HIDE DEF d
<1>4. \E x \in S : \A y \in S : x >= y
  BY <1>3
<1> QED BY <1>4 DEF Max

(* A greatest element is the greatest.                                     *)
LEMMA GreatestIs ==
    ASSUME NEW n \in Nat, NEW S \in SUBSET (0 .. n), NEW m \in S, \A y \in S : y <= m
    PROVE  Max(S) = m
<1>1. Max(S) \in S /\ \A y \in S : Max(S) >= y
  BY GreatestExists
<1>2. Max(S) >= m /\ Max(S) <= m /\ Max(S) \in 0 .. n /\ m \in 0 .. n
  BY <1>1
<1> QED BY <1>2

(* A finite set of natural numbers is bounded.                             *)
LEMMA FiniteBounded ==
    ASSUME NEW S \in SUBSET Nat, IsFiniteSet(S)
    PROVE  \E n \in Nat : S \subseteq 0 .. n
<1> DEFINE Bad == {T \in FiniteSubsetsOf(Nat) : ~ \E n \in Nat : T \subseteq 0 .. n}
<1> SUFFICES ASSUME Bad # {} PROVE FALSE
  BY DEF FiniteSubsetsOf
<1>1. PICK T \in Bad : \A U \in Bad : ~ (<<U, T>> \in StrictSubsetOrdering(Nat))
  <2>1. Bad \subseteq FiniteSubsetsOf(Nat)
    OBVIOUS
  <2> HIDE DEF Bad
  <2> QED BY <2>1, FS_StrictSubsetOrderingWellFounded, WFMin, Zenon
<1>2. T \in SUBSET Nat /\ IsFiniteSet(T) /\ ~ \E n \in Nat : T \subseteq 0 .. n
  BY DEF FiniteSubsetsOf
<1>3. PICK x \in T : TRUE
  <2>1. T # {}
    BY <1>2
  <2> QED BY <2>1
<1>4. T \ {x} \in SUBSET Nat /\ IsFiniteSet(T \ {x}) /\ T \ {x} # T
  BY <1>2, <1>3, FS_RemoveElement
<1>5. <<T \ {x}, T>> \in StrictSubsetOrdering(Nat)
  BY <1>2, <1>4 DEF StrictSubsetOrdering
<1>6. PICK n \in Nat : T \ {x} \subseteq 0 .. n
  BY <1>1, <1>4, <1>5 DEF FiniteSubsetsOf
<1>7. x \in Nat /\ n + x \in Nat /\ T \subseteq 0 .. (n + x)
  BY <1>2, <1>3, <1>6
<1> QED BY <1>2, <1>7

-----------------------------------------------------------------------------
(* Threads.                                                                *)

(* The tail of a thread, message by message.                               *)
LEMMA FromFacts ==
    ASSUME NEW s \in Seq(Kinds), NEW i \in 1 .. Len(s)
    PROVE  /\ From(s, i) \in Seq(Kinds)
           /\ Len(From(s, i)) = Len(s) - i + 1
           /\ \A k \in 1 .. Len(s) - i + 1 : From(s, i)[k] = s[i + k - 1]
<1>1. Len(s) \in Nat /\ i \in Int /\ \A k \in i .. Len(s) : s[k] \in Kinds
  BY LenProperties, ElementOfSeq
<1> QED BY <1>1, SubSeqProperties DEF From

(* A thread that begins with a human has a last one.                       *)
LEMMA LastHumanFacts ==
    ASSUME NEW s, Opened(s)
    PROVE  /\ Len(s) \in Nat \ {0} /\ DOMAIN s = 1 .. Len(s)
           /\ LastHuman(s) \in 1 .. Len(s)
           /\ s[LastHuman(s)] = "human"
           /\ \A k \in 1 .. Len(s) : s[k] = "human" => k <= LastHuman(s)
<1>1. Len(s) \in Nat \ {0} /\ DOMAIN s = 1 .. Len(s)
  BY EmptySeq, LenProperties DEF Opened
<1> DEFINE S == {0} \cup Humans(s)
<1>2. S \in SUBSET (0 .. Len(s)) /\ S # {} /\ 1 \in S
  BY <1>1 DEF Opened, Humans
<1>3. Max(S) \in S /\ \A y \in S : Max(S) >= y
  <2> HIDE DEF S
  <2> QED BY <1>1, <1>2, GreatestExists
<1>4. LastHuman(s) = Max(S)
  BY DEF LastHuman
<1>5. LastHuman(s) \in S /\ \A y \in S : LastHuman(s) >= y
  <2> HIDE DEF S
  <2> QED BY <1>3, <1>4
<1>6. LastHuman(s) >= 1 /\ LastHuman(s) \in Humans(s)
  BY <1>2, <1>5
<1> QED BY <1>1, <1>5, <1>6 DEF Humans

(* The last human is known by what follows it.                             *)
LEMMA LastHumanIs ==
    ASSUME NEW s, Opened(s), NEW h \in 1 .. Len(s), s[h] = "human",
           \A k \in h + 1 .. Len(s) : s[k] # "human"
    PROVE  LastHuman(s) = h
<1>1. LastHuman(s) >= h /\ LastHuman(s) \in 1 .. Len(s) /\ s[LastHuman(s)] = "human"
  BY LastHumanFacts
<1>2. ~ (LastHuman(s) > h)
  BY <1>1
<1> QED BY <1>1, <1>2

(* A tail that starts with a human loses neither the last turn nor the     *)
(* call of a result.                                                       *)
LEMMA FromKeepsTurn ==
    ASSUME NEW s, Opened(s), NEW st \in 1 .. LastHuman(s), s[st] = "human"
    PROVE  /\ Opened(From(s, st))
           /\ LastHuman(From(s, st)) = LastHuman(s) - st + 1
           /\ Turn(From(s, st)) = Turn(s)
           /\ Paired(s) => Paired(From(s, st))
           /\ Complete(s) => Complete(From(s, st))
<1> DEFINE w == From(s, st)  L == LastHuman(s)
<1>1. /\ s \in Seq(Kinds) /\ Len(s) \in Nat \ {0} /\ DOMAIN s = 1 .. Len(s)
      /\ L \in 1 .. Len(s) /\ s[L] = "human"
      /\ \A k \in 1 .. Len(s) : s[k] = "human" => k <= L
      /\ st \in 1 .. Len(s)
  BY LastHumanFacts DEF Opened
<1>2. /\ w \in Seq(Kinds)
      /\ Len(w) = Len(s) - st + 1
      /\ \A k \in 1 .. Len(s) - st + 1 : w[k] = s[st + k - 1]
  BY <1>1, FromFacts
<1> HIDE DEF w, L
<1>8. \A k, m \in Int : k \in 1 .. Len(w) /\ m = st + k - 1 => w[k] = s[m]
  BY <1>2
<1>3. Opened(w) /\ DOMAIN w = 1 .. Len(w)
  <2>1. w[1] = s[st]
    BY <1>1, <1>2
  <2>2. w # <<>>
    BY <1>1, <1>2, EmptySeq
  <2> QED BY <1>2, <2>1, <2>2, LenProperties DEF Opened
<1>4. LastHuman(w) = L - st + 1
  <2>1. L - st + 1 \in 1 .. Len(w)
    BY <1>1, <1>2 DEF L
  <2>2. w[L - st + 1] = "human"
    BY <1>1, <1>2, <2>1
  <2>3. \A k \in (L - st + 1) + 1 .. Len(w) : w[k] # "human"
    BY <1>1, <1>2, <2>1
  <2> QED BY <1>3, <2>1, <2>2, <2>3, LastHumanIs
<1>5. Turn(w) = Turn(s)
  <2>1. L - st + 1 \in 1 .. Len(w)
    BY <1>1, <1>2 DEF L
  <2>2. /\ Turn(w) \in Seq(Kinds)
        /\ Len(Turn(w)) = Len(w) - (L - st + 1) + 1
        /\ \A k \in 1 .. Len(w) - (L - st + 1) + 1 : Turn(w)[k] = w[(L - st + 1) + k - 1]
    BY <1>2, <1>4, <2>1, FromFacts DEF Turn
  <2>3. /\ Turn(s) \in Seq(Kinds)
        /\ Len(Turn(s)) = Len(s) - L + 1
        /\ \A k \in 1 .. Len(s) - L + 1 : Turn(s)[k] = s[L + k - 1]
    BY <1>1, FromFacts DEF Turn, L
  <2>4. Len(Turn(w)) = Len(Turn(s))
    BY <1>1, <1>2, <2>2, <2>3
  <2>5. ASSUME NEW k \in 1 .. Len(Turn(w)) PROVE Turn(w)[k] = Turn(s)[k]
    <3>1. Turn(w)[k] = w[(L - st + 1) + k - 1] /\ (L - st + 1) + k - 1 \in 1 .. Len(s) - st + 1
      BY <1>1, <1>2, <2>1, <2>2
    <3>2. w[(L - st + 1) + k - 1] = s[st + ((L - st + 1) + k - 1) - 1]
      BY <1>2, <3>1
    <3>3. st + ((L - st + 1) + k - 1) - 1 = L + k - 1
      BY <1>1, <2>2, <2>3, <2>4
    <3> QED BY <1>1, <2>3, <2>4, <3>1, <3>2, <3>3
  <2> QED BY <2>2, <2>3, <2>4, <2>5, SeqEqual
<1>6. ASSUME Paired(s) PROVE Paired(w)
  <2> SUFFICES ASSUME NEW i \in 1 .. Len(w), w[i] = "tool"
               PROVE  i > 1 /\ w[i - 1] \in {"call", "tool"}
    BY <1>3 DEF Paired
  <2>1. i > 1
    BY <1>3 DEF Opened
  <2>2. s[st + i - 1] = "tool" /\ st + i - 1 \in 1 .. Len(s)
    BY <1>1, <1>2
  <2>3. s[(st + i - 1) - 1] \in {"call", "tool"}
    BY <1>1, <1>6, <2>2 DEF Paired
  <2>4. w[i - 1] = s[(st + i - 1) - 1]
    <3>1. i - 1 \in Int /\ (st + i - 1) - 1 \in Int
      BY <1>1
    <3>2. i - 1 \in 1 .. Len(w) /\ (st + i - 1) - 1 = st + (i - 1) - 1
      BY <1>1, <1>2, <2>1
    <3> QED BY <1>8, <3>1, <3>2
  <2> QED BY <2>1, <2>3, <2>4
<1>7. ASSUME Complete(s) PROVE Complete(w)
  <2> SUFFICES ASSUME NEW i \in 1 .. Len(w), w[i] = "call"
               PROVE  i < Len(w) /\ w[i + 1] = "tool"
    BY <1>3 DEF Complete
  <2>1. s[st + i - 1] = "call" /\ st + i - 1 \in 1 .. Len(s)
    BY <1>1, <1>2
  <2>2. st + i - 1 < Len(s) /\ s[(st + i - 1) + 1] = "tool"
    BY <1>1, <1>7, <2>1 DEF Complete
  <2>3. i < Len(w)
    BY <1>1, <1>2, <2>2
  <2>4. w[i + 1] = s[(st + i - 1) + 1]
    <3>1. i + 1 \in Int /\ (st + i - 1) + 1 \in Int
      BY <1>1
    <3>2. i + 1 \in 1 .. Len(w) /\ (st + i - 1) + 1 = st + (i + 1) - 1
      BY <1>1, <1>2, <2>3
    <3> QED BY <1>8, <3>1, <3>2
  <2> QED BY <2>2, <2>3, <2>4
<1> QED BY <1>3, <1>4, <1>5, <1>6, <1>7 DEF w, L

-----------------------------------------------------------------------------
(* The window.                                                             *)

(* What a window may hold, for any setting.                                *)
LEMMA WindowRoom ==
    ASSUME NEW cap \in Nat
    PROVE  Max({2, cap}) \in Nat /\ Max({2, cap}) >= 2 /\ Max({2, cap}) \in {2, cap}
<1>1. {2, cap} \in SUBSET (0 .. cap + 2) /\ cap + 2 \in Nat /\ {2, cap} # {}
  OBVIOUS
<1>2. Max({2, cap}) \in {2, cap} /\ \A y \in {2, cap} : Max({2, cap}) >= y
  BY <1>1, GreatestExists
<1> QED BY <1>2

(* Where trim_messages finds a human among the last messages, the window   *)
(* starts there.                                                           *)
LEMMA AlignAtHuman ==
    ASSUME NEW s, Opened(s), NEW st \in Humans(s)
    PROVE  AlignStart(s, st) = st
<1>1. /\ Len(s) \in Nat \ {0} /\ DOMAIN s = 1 .. Len(s)
      /\ st \in 1 .. Len(s) /\ s[st] = "human"
  BY LastHumanFacts DEF Humans
<1> DEFINE I == {1} \cup {k \in 1 .. st : s[k] # "tool"}
           J == {1} \cup {k \in Humans(s) : k <= st}
<1>2. Max(I) = st
  <2>1. I \in SUBSET (0 .. Len(s)) /\ st \in I /\ \A y \in I : y <= st
    BY <1>1
  <2> HIDE DEF I
  <2> QED BY <1>1, <2>1, GreatestIs
<1>3. Max(J) = st
  <2>1. J \in SUBSET (0 .. Len(s)) /\ st \in J /\ \A y \in J : y <= st
    BY <1>1 DEF Humans
  <2> HIDE DEF J
  <2> QED BY <1>1, <2>1, GreatestIs
<1>4. s[Max(I)] # "answer"
  <2> HIDE DEF I
  <2> QED BY <1>1, <1>2
<1>5. AlignStart(s, st) = Max({1} \cup {k \in Humans(s) : k <= Max(I)})
  BY <1>4 DEF AlignStart
<1> HIDE DEF I
<1> QED BY <1>2, <1>3, <1>5

(* Where all of the last messages belong to one turn, it starts with the   *)
(* human of that turn.                                                     *)
LEMMA AlignBeforeTurn ==
    ASSUME NEW s, Opened(s), NEW st \in 1 .. Len(s), LastHuman(s) < st
    PROVE  AlignStart(s, st) = LastHuman(s)
<1> DEFINE L == LastHuman(s)
<1>1. /\ Len(s) \in Nat \ {0} /\ DOMAIN s = 1 .. Len(s)
      /\ L \in 1 .. Len(s) /\ s[L] = "human" /\ L < st
      /\ \A k \in 1 .. Len(s) : s[k] = "human" => k <= L
      /\ st \in 1 .. Len(s)
  BY LastHumanFacts
<1> HIDE DEF L
<1> DEFINE I == {1} \cup {k \in 1 .. st : s[k] # "tool"}
           i == Max(I)
           ahead == {k \in i .. Len(s) : s[k] # "answer"}
           J == {1} \cup {k \in Humans(s) : k <= i}
<1>2. i \in 1 .. st /\ i >= L /\ \A k \in 1 .. st : s[k] # "tool" => k <= i
  <2>1. I \in SUBSET (0 .. Len(s)) /\ L \in I /\ 1 \in I
    BY <1>1
  <2> HIDE DEF I
  <2>2. Max(I) \in I /\ \A y \in I : Max(I) >= y
    BY <1>1, <2>1, GreatestExists
  <2> QED BY <1>1, <2>1, <2>2 DEF I
<1> HIDE DEF i
<1>3. Max(J) = L
  <2>1. J \in SUBSET (0 .. Len(s)) /\ L \in J /\ \A y \in J : y <= L
    BY <1>1, <1>2 DEF Humans
  <2> HIDE DEF J
  <2> QED BY <1>1, <2>1, GreatestIs
<1>4. ASSUME s[i] = "answer", ahead # {}, s[Min(ahead)] = "human" PROVE FALSE
  <2>1. ahead \in SUBSET Nat
    BY <1>1, <1>2
  <2>2. Min(ahead) \in ahead
    <3> HIDE DEF ahead
    <3> QED BY <1>4, <2>1, LeastExists
  <2> DEFINE a == Min(ahead)
  <2>3. a \in i .. Len(s) /\ s[a] = "human" /\ s[i] = "answer"
    BY <1>4, <2>2
  <2> HIDE DEF a
  <2>4. a <= L /\ a # i
    BY <1>1, <1>2, <2>3
  <2>5. i < L
    BY <1>1, <1>2, <2>3, <2>4
  <2> QED BY <1>1, <1>2, <2>5
<1>5. AlignStart(s, st) = Max(J)
  BY <1>4 DEF AlignStart, i
<1> QED BY <1>3, <1>5 DEF L

(* What trim_short_term keeps starts with a human's message, not after the *)
(* last one, and is longer than it may be only when it starts at the last. *)
LEMMA KeptShape ==
    ASSUME NEW s, Opened(s), NEW cap \in Nat
    PROVE  \E st \in 1 .. LastHuman(s) :
              /\ s[st] = "human"
              /\ TrimShortTerm(s, cap) = From(s, st)
              /\ Len(From(s, st)) <= Max({2, cap}) \/ st = LastHuman(s)
<1> DEFINE C == Max({2, cap})
           H == {h \in Humans(s) : h > Len(s) - C}
           t == TrimStart(s, C)
<1>1. /\ Len(s) \in Nat \ {0} /\ DOMAIN s = 1 .. Len(s)
      /\ LastHuman(s) \in 1 .. Len(s) /\ s[LastHuman(s)] = "human"
      /\ \A k \in 1 .. Len(s) : s[k] = "human" => k <= LastHuman(s)
      /\ s \in Seq(Kinds) /\ s[1] = "human"
  BY LastHumanFacts DEF Opened
<1>2. C \in Nat /\ C >= 2
  BY WindowRoom
<1>3. TrimShortTerm(s, cap) =
        IF Len(s) <= C THEN s ELSE From(s, AlignStart(s, IF t = 0 THEN Len(s) - C + 1 ELSE t))
  BY DEF TrimShortTerm
<1> HIDE DEF C
<1>4. CASE Len(s) <= C
  <2>1. From(s, 1) = s
    BY <1>1, SubSeqFull DEF From
  <2> QED BY <1>1, <1>3, <1>4, <2>1 DEF C
<1>5. CASE Len(s) > C /\ H # {}
  <2>1. H \in SUBSET Nat /\ t = Min(H)
    <3>1. H \cup (IF \E h \in Humans(s) : h > Len(s) - C THEN {} ELSE {0}) = H
      BY <1>5
    <3>2. H \in SUBSET Nat
      BY <1>1 DEF Humans
    <3> QED BY <3>1, <3>2, Zenon DEF TrimStart
  <2>2. t \in H
    <3> HIDE DEF H, t
    <3> QED BY <1>5, <2>1, LeastExists
  <2>3. t \in Humans(s) /\ t > Len(s) - C
    BY <2>2
  <2> HIDE DEF t
  <2>4. t \in 1 .. Len(s) /\ s[t] = "human" /\ t <= LastHuman(s)
    BY <1>1, <2>3 DEF Humans
  <2>5. TrimShortTerm(s, cap) = From(s, t)
    <3>1. t # 0 /\ ~ (Len(s) <= C)
      BY <1>1, <1>2, <1>5, <2>4
    <3>2. AlignStart(s, t) = t
      BY <2>3, AlignAtHuman
    <3> QED BY <1>3, <3>1, <3>2
  <2>6. Len(From(s, t)) <= C
    <3>1. Len(From(s, t)) = Len(s) - t + 1
      BY <1>1, <2>4, FromFacts
    <3> QED BY <1>1, <1>2, <2>3, <2>4, <3>1
  <2> QED BY <1>1, <2>4, <2>5, <2>6 DEF C
<1>6. CASE Len(s) > C /\ H = {}
  <2>1. t = 0
    <3>1. H \cup (IF \E h \in Humans(s) : h > Len(s) - C THEN {} ELSE {0}) = {0}
      BY <1>6
    <3>2. {0} \in SUBSET Nat /\ {0} # {}
      OBVIOUS
    <3>3. Min({0}) = 0
      BY <3>2, LeastExists
    <3> QED BY <3>1, <3>3 DEF TrimStart
  <2>2. Len(s) - C + 1 \in 1 .. Len(s) /\ ~ (Len(s) <= C)
    BY <1>1, <1>2, <1>6
  <2>3. LastHuman(s) < Len(s) - C + 1
    <3>1. LastHuman(s) \in Humans(s)
      BY <1>1 DEF Humans
    <3>2. ~ (LastHuman(s) > Len(s) - C)
      BY <1>6, <3>1
    <3> QED BY <1>1, <1>2, <3>2
  <2>4. AlignStart(s, Len(s) - C + 1) = LastHuman(s)
    BY <2>2, <2>3, AlignBeforeTurn
  <2>5. TrimShortTerm(s, cap) = From(s, LastHuman(s))
    <3> HIDE DEF t
    <3> QED BY <1>3, <2>1, <2>2, <2>4
  <2> QED BY <1>1, <2>5
<1>7. Len(s) <= C \/ Len(s) > C
  BY <1>1, <1>2
<1> QED BY <1>4, <1>5, <1>6, <1>7, Zenon

(* Dropping the extra humans cuts off what follows the first of them.      *)
LEMMA DropShape ==
    ASSUME NEW s, Opened(s)
    PROVE  \E m \in 1 .. Len(s) :
              /\ DropExtraHumans(s) = SubSeq(s, 1, m)
              /\ m = Len(s) \/ \A k \in m .. Len(s) : s[k] = "human"
<1> DEFINE S == {0} \cup (DOMAIN s \ Humans(s))
           o == Max(S)
<1>1. Len(s) \in Nat \ {0} /\ DOMAIN s = 1 .. Len(s) /\ s \in Seq(Kinds)
  BY LastHumanFacts DEF Opened
<1>2. o \in 0 .. Len(s) /\ \A y \in S : o >= y
  <2>1. S \in SUBSET (0 .. Len(s)) /\ S # {}
    BY <1>1
  <2> HIDE DEF S
  <2> QED BY <1>1, <2>1, GreatestExists
<1>3. \A k \in o + 1 .. Len(s) : s[k] = "human"
  <2> SUFFICES ASSUME NEW k \in o + 1 .. Len(s), s[k] # "human" PROVE FALSE
    OBVIOUS
  <2>1. k \in S
    BY <1>1, <1>2 DEF Humans
  <2> HIDE DEF S, o
  <2> QED BY <1>1, <1>2, <2>1
<1>4. DropExtraHumans(s) = IF o >= Len(s) THEN s ELSE Append(SubSeq(s, 1, o), "human")
  BY DEF DropExtraHumans
<1> HIDE DEF o, S
<1>5. CASE o >= Len(s)
  <2>1. SubSeq(s, 1, Len(s)) = s
    BY <1>1, SubSeqFull
  <2>2. DropExtraHumans(s) = SubSeq(s, 1, Len(s)) /\ Len(s) \in 1 .. Len(s)
    BY <1>1, <1>4, <1>5, <2>1
  <2> QED BY <2>2
<1>6. CASE o < Len(s)
  <2> DEFINE d == Append(SubSeq(s, 1, o), "human")  e == SubSeq(s, 1, o + 1)
  <2>0. \A i \in 1 .. Len(s) : s[i] \in Kinds
    BY <1>1, ElementOfSeq
  <2>1. /\ SubSeq(s, 1, o) \in Seq(Kinds) /\ Len(SubSeq(s, 1, o)) = o
        /\ \A i \in 1 .. o : SubSeq(s, 1, o)[i] = s[i]
    BY <1>1, <1>2, <2>0, SubSeqProperties
  <2>2. /\ e \in Seq(Kinds) /\ Len(e) = o + 1
        /\ \A i \in 1 .. o + 1 : e[i] = s[i]
    BY <1>1, <1>2, <1>6, <2>0, SubSeqProperties
  <2>3. /\ d \in Seq(Kinds) /\ Len(d) = o + 1
        /\ \A i \in 1 .. o : d[i] = s[i]
        /\ d[o + 1] = "human"
    BY <1>2, <2>1, AppendProperties DEF Kinds
  <2>4. d = e
    <3> HIDE DEF d, e
    <3>1. s[o + 1] = "human"
      BY <1>1, <1>2, <1>3, <1>6
    <3>2. ASSUME NEW i \in 1 .. Len(d) PROVE d[i] = e[i]
      BY <1>2, <2>2, <2>3, <3>1
    <3> QED BY <2>2, <2>3, <3>2, SeqEqual
  <2>5. DropExtraHumans(s) = SubSeq(s, 1, o + 1)
    BY <1>1, <1>2, <1>4, <1>6, <2>4
  <2>6. o + 1 \in 1 .. Len(s)
    BY <1>1, <1>2, <1>6
  <2> QED BY <1>3, <2>5, <2>6
<1>7. o >= Len(s) \/ o < Len(s)
  BY <1>1, <1>2
<1> QED BY <1>5, <1>6, <1>7

(* Dropping the extra humans keeps the last turn.                          *)
LEMMA DropKeepsTurn ==
    ASSUME NEW s, Opened(s)
    PROVE  /\ Opened(DropExtraHumans(s))
           /\ Turn(DropExtraHumans(s)) = Turn(s)
           /\ Len(DropExtraHumans(s)) <= Len(s)
           /\ Paired(s) => Paired(DropExtraHumans(s))
           /\ Complete(s) => Complete(DropExtraHumans(s))
           /\ LastHuman(s) = 1 => DropExtraHumans(s) = s
<1> DEFINE d == DropExtraHumans(s)
<1>1. PICK m \in 1 .. Len(s) : /\ d = SubSeq(s, 1, m)
                               /\ m = Len(s) \/ \A k \in m .. Len(s) : s[k] = "human"
  BY DropShape
<1>2. /\ Len(s) \in Nat \ {0} /\ DOMAIN s = 1 .. Len(s) /\ s \in Seq(Kinds)
      /\ s[1] = "human" /\ m \in Nat \ {0} /\ m <= Len(s)
      /\ LastHuman(s) \in 1 .. Len(s) /\ s[LastHuman(s)] = "human"
      /\ \A k \in 1 .. Len(s) : s[k] = "human" => k <= LastHuman(s)
  BY LastHumanFacts DEF Opened
<1> HIDE DEF d
<1>3. CASE m = Len(s)
  <2>1. d = s
    BY <1>1, <1>2, <1>3, SubSeqFull
  <2> QED BY <1>2, <2>1 DEF d
<1>4. CASE m # Len(s)
  <2>1. \A k \in m .. Len(s) : s[k] = "human"
    BY <1>1, <1>4
  <2>2. /\ d \in Seq(Kinds) /\ Len(d) = m /\ DOMAIN d = 1 .. m
        /\ \A i \in 1 .. m : d[i] = s[i]
    <3>1. \A i \in 1 .. m : s[i] \in Kinds
      BY <1>2, ElementOfSeq
    <3>2. /\ SubSeq(s, 1, m) \in Seq(Kinds) /\ Len(SubSeq(s, 1, m)) = m
          /\ \A i \in 1 .. m : SubSeq(s, 1, m)[i] = s[i]
      BY <1>2, <3>1, SubSeqProperties
    <3> QED BY <1>1, <3>2, LenProperties
  <2>3. Opened(d)
    BY <1>2, <2>2, EmptySeq DEF Opened
  <2>4. LastHuman(d) = m
    BY <1>2, <2>1, <2>2, <2>3, LastHumanIs
  <2>5. LastHuman(s) = Len(s) /\ Len(s) # 1
    <3>1. Len(s) \in m .. Len(s) /\ Len(s) \in 1 .. Len(s)
      BY <1>2
    <3>2. Len(s) <= LastHuman(s)
      BY <1>2, <2>1, <3>1
    <3>3. LastHuman(s) \in Nat /\ LastHuman(s) <= Len(s) /\ Len(s) \in Nat
      BY <1>2
    <3>4. Len(s) # 1
      <4>1. Len(s) = 1 => m = 1
        BY <1>2
      <4> QED BY <1>4, <4>1
    <3> QED BY <3>2, <3>3, <3>4
  <2>6. Turn(d) \in Seq(Kinds) /\ Len(Turn(d)) = 1 /\ Turn(d)[1] = "human"
    <3>1. m \in 1 .. Len(d) /\ d[m] = "human"
      BY <1>2, <2>1, <2>2
    <3>2. /\ From(d, m) \in Seq(Kinds) /\ Len(From(d, m)) = Len(d) - m + 1
          /\ \A k \in 1 .. Len(d) - m + 1 : From(d, m)[k] = d[m + k - 1]
      BY <2>2, <3>1, FromFacts
    <3> QED BY <1>2, <2>2, <2>4, <3>1, <3>2 DEF Turn
  <2>7. Turn(s) \in Seq(Kinds) /\ Len(Turn(s)) = 1 /\ Turn(s)[1] = "human"
    <3>1. Len(s) \in 1 .. Len(s) /\ s[Len(s)] = "human"
      BY <1>2, <2>1
    <3>2. /\ From(s, Len(s)) \in Seq(Kinds) /\ Len(From(s, Len(s))) = Len(s) - Len(s) + 1
          /\ \A k \in 1 .. Len(s) - Len(s) + 1 : From(s, Len(s))[k] = s[Len(s) + k - 1]
      BY <1>2, <3>1, FromFacts
    <3> QED BY <1>2, <2>5, <3>1, <3>2 DEF Turn
  <2>8. Turn(d) = Turn(s)
    BY <2>6, <2>7, SeqEqual
  <2>9. Paired(s) => Paired(d)
    BY <1>2, <2>2 DEF Paired
  <2>10. Complete(s) => Complete(d)
    BY <1>2, <2>1, <2>2 DEF Complete
  <2> QED BY <1>2, <2>2, <2>3, <2>5, <2>8, <2>9, <2>10 DEF d
<1> QED BY <1>3, <1>4

(* What the window keeps: the whole turn, all calls of its results, and no *)
(* more than it may unless the turn alone is longer.                       *)
LEMMA WindowFacts ==
    ASSUME NEW s, Opened(s), NEW cap \in Nat
    PROVE  /\ Opened(Window(s, cap))
           /\ Turn(Window(s, cap)) = Turn(s)
           /\ Paired(s) => Paired(Window(s, cap))
           /\ Complete(s) => Complete(Window(s, cap))
           /\ Len(Window(s, cap)) <= Max({2, cap}) \/ LastHuman(Window(s, cap)) = 1
<1> DEFINE kept == TrimShortTerm(s, cap)
<1>1. PICK st \in 1 .. LastHuman(s) :
        /\ s[st] = "human"
        /\ kept = From(s, st)
        /\ Len(From(s, st)) <= Max({2, cap}) \/ st = LastHuman(s)
  BY KeptShape
<1> HIDE DEF kept
<1>2. /\ Opened(kept)
      /\ LastHuman(kept) = LastHuman(s) - st + 1
      /\ Turn(kept) = Turn(s)
      /\ Paired(s) => Paired(kept)
      /\ Complete(s) => Complete(kept)
  BY <1>1, FromKeepsTurn
<1>3. Len(kept) <= Max({2, cap}) \/ LastHuman(kept) = 1
  BY <1>1, <1>2, LastHumanFacts
<1>4. Window(s, cap) = IF inGroup THEN DropExtraHumans(kept) ELSE kept
  BY DEF Window, kept
<1>5. CASE ~inGroup
  BY <1>2, <1>3, <1>4, <1>5
<1>6. CASE inGroup
  <2>1. /\ Opened(DropExtraHumans(kept))
        /\ Turn(DropExtraHumans(kept)) = Turn(kept)
        /\ Len(DropExtraHumans(kept)) <= Len(kept)
        /\ Paired(kept) => Paired(DropExtraHumans(kept))
        /\ Complete(kept) => Complete(DropExtraHumans(kept))
        /\ LastHuman(kept) = 1 => DropExtraHumans(kept) = kept
    BY <1>2, DropKeepsTurn
  <2>2. Max({2, cap}) \in Nat /\ Len(kept) \in Nat /\ Len(DropExtraHumans(kept)) \in Nat
    BY <1>2, <2>1, WindowRoom, LastHumanFacts
  <2>3. Len(DropExtraHumans(kept)) <= Max({2, cap}) \/ LastHuman(DropExtraHumans(kept)) = 1
    BY <1>3, <2>1, <2>2
  <2> QED BY <1>2, <1>4, <1>6, <2>1, <2>3
<1> QED BY <1>5, <1>6

(* When the last n messages of the thread are humans' and the window still *)
(* holds a call without results, then they, that call and the human before *)
(* it find room in the window.                                             *)
LEMMA RefusedWindow ==
    ASSUME NEW s, Opened(s), NEW cap \in Nat, ~Complete(Window(s, cap)),
           NEW n \in Nat \ {0}, n <= Len(s),
           \A k \in Len(s) - n + 1 .. Len(s) : s[k] = "human"
    PROVE  n < Len(s) /\ n + 2 <= Max({2, cap})
<1> DEFINE kept == TrimShortTerm(s, cap)
<1>1. PICK st \in 1 .. LastHuman(s) :
        /\ s[st] = "human"
        /\ kept = From(s, st)
        /\ Len(From(s, st)) <= Max({2, cap}) \/ st = LastHuman(s)
  BY KeptShape
<1> HIDE DEF kept
<1>2. Opened(kept)
  BY <1>1, FromKeepsTurn
<1>3. ~Complete(kept)
  <2>1. CASE inGroup
    BY <1>2, <2>1, DropKeepsTurn DEF Window, kept
  <2>2. CASE ~inGroup
    BY <2>2 DEF Window, kept
  <2> QED BY <2>1, <2>2
<1>4. /\ Len(s) \in Nat \ {0} /\ s \in Seq(Kinds)
      /\ LastHuman(s) = Len(s) /\ st \in 1 .. Len(s)
  BY LastHumanFacts DEF Opened
<1>5. /\ Len(kept) = Len(s) - st + 1
      /\ \A k \in 1 .. Len(s) - st + 1 : kept[k] = s[st + k - 1]
      /\ DOMAIN kept = 1 .. Len(kept)
      /\ kept[1] = "human"
  BY <1>1, <1>2, <1>4, FromFacts, LastHumanFacts DEF Opened
<1>6. PICK c \in 1 .. Len(kept) : kept[c] = "call" /\ ~ (c < Len(kept) /\ kept[c + 1] = "tool")
  BY <1>3, <1>5 DEF Complete
<1>7. c >= 2 /\ s[st + c - 1] = "call" /\ st + c - 1 \in 1 .. Len(s)
  BY <1>4, <1>5, <1>6
<1>8. ~ (st + c - 1 >= Len(s) - n + 1)
  BY <1>4, <1>7
<1>9. st # LastHuman(s)
  BY <1>4, <1>5, <1>6, <1>7
<1> QED BY <1>1, <1>4, <1>5, <1>6, <1>7, <1>8, <1>9, WindowRoom

-----------------------------------------------------------------------------
(* The rounds of a turn.                                                   *)

(* The calls of a turn, and where they are in its thread.                  *)
Calls(u) == {k \in DOMAIN u : u[k] = "call"}
TurnCalls(s) == {i \in DOMAIN s : i > LastHuman(s) /\ s[i] = "call"}

(* A thread has finitely many calls.                                       *)
LEMMA RoundsTyped ==
    ASSUME NEW s, s \in Seq(Kinds)
    PROVE  IsFiniteSet(TurnCalls(s)) /\ ToolRounds(s) \in Nat /\ ToolRounds(s) = Cardinality(TurnCalls(s))
<1>1. Len(s) \in Nat /\ DOMAIN s = 1 .. Len(s)
  BY LenProperties
<1>2. IsFiniteSet(1 .. Len(s)) /\ TurnCalls(s) \in SUBSET (1 .. Len(s))
  BY <1>1, FS_Interval DEF TurnCalls
<1>3. IsFiniteSet(TurnCalls(s)) /\ Cardinality(TurnCalls(s)) \in Nat
  BY <1>2, FS_Subset, FS_CardinalityType
<1> QED BY <1>3 DEF ToolRounds, TurnCalls

(* The rounds are a matter of the turn alone.                              *)
LEMMA RoundsOfTurn ==
    ASSUME NEW s, Opened(s)
    PROVE  ToolRounds(s) = Cardinality(Calls(Turn(s)))
<1> DEFINE L == LastHuman(s)  u == Turn(s)
           shift == [i \in TurnCalls(s) |-> i - L + 1]
<1>1. /\ Len(s) \in Nat \ {0} /\ DOMAIN s = 1 .. Len(s) /\ s \in Seq(Kinds)
      /\ L \in 1 .. Len(s) /\ s[L] = "human"
  BY LastHumanFacts DEF Opened
<1>2. /\ u \in Seq(Kinds)
      /\ Len(u) = Len(s) - L + 1
      /\ \A k \in 1 .. Len(s) - L + 1 : u[k] = s[L + k - 1]
      /\ DOMAIN u = 1 .. Len(u)
  BY <1>1, FromFacts, LenProperties DEF Turn
<1>3. TurnCalls(s) = {i \in 1 .. Len(s) : i > L /\ s[i] = "call"}
  BY <1>1 DEF TurnCalls
<1> HIDE DEF L, u
<1>4. Calls(u) = {k \in 1 .. Len(u) : u[k] = "call"}
  BY <1>2 DEF Calls
<1>5. ASSUME NEW i \in TurnCalls(s) PROVE i - L + 1 \in Calls(u)
  <2>1. i \in 1 .. Len(s) /\ i > L /\ s[i] = "call"
    BY <1>3
  <2>2. i - L + 1 \in 1 .. Len(u) /\ L + (i - L + 1) - 1 = i
    BY <1>1, <1>2, <2>1
  <2>3. u[i - L + 1] = s[L + (i - L + 1) - 1]
    BY <1>2, <2>2
  <2> QED BY <1>4, <2>1, <2>2, <2>3
<1>6. ASSUME NEW k \in Calls(u) PROVE \E i \in TurnCalls(s) : i - L + 1 = k
  <2>1. k \in 1 .. Len(u) /\ u[k] = "call" /\ u[k] = s[L + k - 1]
    BY <1>1, <1>2, <1>4
  <2>2. k # 1
    <3>1. k = 1 => L + k - 1 = L
      BY <1>1
    <3> QED BY <1>1, <2>1, <3>1
  <2>3. L + k - 1 \in 1 .. Len(s) /\ L + k - 1 > L /\ s[L + k - 1] = "call"
    BY <1>1, <1>2, <2>1, <2>2
  <2>4. L + k - 1 \in TurnCalls(s) /\ (L + k - 1) - L + 1 = k
    BY <1>1, <1>3, <2>1, <2>3
  <2> QED BY <2>4
<1>7. shift \in Bijection(TurnCalls(s), Calls(u))
  <2>1. shift \in [TurnCalls(s) -> Calls(u)]
    BY <1>5
  <2>2. \A a, b \in TurnCalls(s) : shift[a] = shift[b] => a = b
    BY <1>1, <1>3
  <2>3. \A k \in Calls(u) : \E i \in TurnCalls(s) : shift[i] = k
    BY <1>6
  <2> HIDE DEF shift
  <2> QED BY <2>1, <2>2, <2>3 DEF Bijection, Injection, Surjection, IsInjective
<1>8. ExistsBijection(TurnCalls(s), Calls(u)) /\ IsFiniteSet(TurnCalls(s))
  BY <1>1, <1>7, RoundsTyped DEF ExistsBijection
<1>9. Cardinality(Calls(u)) = Cardinality(TurnCalls(s))
  BY <1>8, FS_Bijection
<1> QED BY <1>1, <1>9, RoundsTyped DEF u

(* A human's message begins a turn without rounds.                         *)
LEMMA NewTurn ==
    ASSUME NEW s \in Seq(Kinds), s # <<>> => s[1] = "human"
    PROVE  /\ Opened(Append(s, "human"))
           /\ Len(Append(s, "human")) = Len(s) + 1
           /\ Append(s, "human")[Len(s) + 1] = "human"
           /\ \A i \in 1 .. Len(s) : Append(s, "human")[i] = s[i]
           /\ ToolRounds(Append(s, "human")) = 0
           /\ Paired(s) => Paired(Append(s, "human"))
<1> DEFINE t == Append(s, "human")
<1>1. /\ Len(s) \in Nat /\ DOMAIN s = 1 .. Len(s) /\ s = <<>> <=> Len(s) = 0
  BY LenProperties, EmptySeq
<1>2. /\ t \in Seq(Kinds) /\ Len(t) = Len(s) + 1
      /\ \A i \in 1 .. Len(s) : t[i] = s[i]
      /\ t[Len(s) + 1] = "human"
      /\ DOMAIN t = 1 .. Len(t)
  BY AppendProperties, LenProperties DEF Kinds
<1> HIDE DEF t
<1>3. Opened(t)
  BY <1>1, <1>2, EmptySeq DEF Opened
<1>4. LastHuman(t) = Len(s) + 1
  BY <1>1, <1>2, <1>3, LastHumanIs
<1>5. TurnCalls(t) = {}
  BY <1>1, <1>2, <1>4 DEF TurnCalls
<1>6. ToolRounds(t) = 0
  BY <1>2, <1>5, RoundsTyped, FS_EmptySet
<1>7. Paired(s) => Paired(t)
  BY <1>1, <1>2 DEF Paired
<1> QED BY <1>2, <1>3, <1>6, <1>7 DEF t

(* A response belongs to the turn; one that calls tools is a round more.   *)
LEMMA ResponseRounds ==
    ASSUME NEW s, Opened(s), NEW r \in {"answer", "call"}
    PROVE  /\ Opened(Append(s, r))
           /\ Len(Append(s, r)) = Len(s) + 1
           /\ Append(s, r)[Len(s) + 1] = r
           /\ \A i \in 1 .. Len(s) : Append(s, r)[i] = s[i]
           /\ ToolRounds(Append(s, r)) = ToolRounds(s) + IF r = "call" THEN 1 ELSE 0
           /\ Paired(s) => Paired(Append(s, r))
<1> DEFINE t == Append(s, r)
<1>1. /\ Len(s) \in Nat \ {0} /\ DOMAIN s = 1 .. Len(s) /\ s \in Seq(Kinds)
      /\ LastHuman(s) \in 1 .. Len(s) /\ s[LastHuman(s)] = "human" /\ s[1] = "human"
      /\ \A k \in 1 .. Len(s) : s[k] = "human" => k <= LastHuman(s)
  BY LastHumanFacts DEF Opened
<1>2. /\ t \in Seq(Kinds) /\ Len(t) = Len(s) + 1
      /\ \A i \in 1 .. Len(s) : t[i] = s[i]
      /\ t[Len(s) + 1] = r
      /\ DOMAIN t = 1 .. Len(t)
  <2>1. r \in Kinds
    BY DEF Kinds
  <2> QED BY <1>1, <2>1, AppendProperties, LenProperties
<1> HIDE DEF t
<1>3. Opened(t)
  BY <1>1, <1>2, EmptySeq DEF Opened
<1>4. LastHuman(t) = LastHuman(s)
  <2>1. LastHuman(s) \in 1 .. Len(t) /\ t[LastHuman(s)] = "human"
    BY <1>1, <1>2
  <2>2. ASSUME NEW k \in LastHuman(s) + 1 .. Len(t) PROVE t[k] # "human"
    <3>1. CASE k = Len(s) + 1
      BY <1>2, <3>1
    <3>2. CASE k # Len(s) + 1
      <4>1. k \in 1 .. Len(s) /\ k > LastHuman(s)
        BY <1>1, <1>2, <3>2
      <4> QED BY <1>1, <1>2, <4>1
    <3> QED BY <3>1, <3>2
  <2> QED BY <1>3, <2>1, <2>2, LastHumanIs
<1>5. TurnCalls(t) = IF r = "call" THEN TurnCalls(s) \cup {Len(s) + 1} ELSE TurnCalls(s)
  BY <1>1, <1>2, <1>4 DEF TurnCalls
<1>6. Len(s) + 1 \notin TurnCalls(s)
  BY <1>1 DEF TurnCalls
<1>7. ToolRounds(t) = ToolRounds(s) + IF r = "call" THEN 1 ELSE 0
  <2>1. /\ IsFiniteSet(TurnCalls(s)) /\ ToolRounds(s) \in Nat
        /\ ToolRounds(s) = Cardinality(TurnCalls(s))
        /\ ToolRounds(t) = Cardinality(TurnCalls(t))
    BY <1>1, <1>2, RoundsTyped
  <2>2. Cardinality(TurnCalls(s) \cup {Len(s) + 1}) = Cardinality(TurnCalls(s)) + 1
    BY <1>6, <2>1, FS_AddElement
  <2> QED BY <1>5, <2>1, <2>2
<1>8. Paired(s) => Paired(t)
  BY <1>1, <1>2 DEF Paired
<1> QED BY <1>2, <1>3, <1>7, <1>8 DEF t

(* Results belong to the round of their call.                              *)
LEMMA ResultRounds ==
    ASSUME NEW s, Opened(s), NEW n \in Nat
    PROVE  LET t == s \o [i \in 1 .. n |-> "tool"]
           IN  /\ Opened(t)
               /\ Len(t) = Len(s) + n
               /\ \A i \in 1 .. Len(t) : t[i] = IF i <= Len(s) THEN s[i] ELSE "tool"
               /\ ToolRounds(t) = ToolRounds(s)
<1> DEFINE results == [i \in 1 .. n |-> "tool"]  t == s \o results
<1>1. /\ Len(s) \in Nat \ {0} /\ DOMAIN s = 1 .. Len(s) /\ s \in Seq(Kinds)
      /\ LastHuman(s) \in 1 .. Len(s) /\ s[LastHuman(s)] = "human" /\ s[1] = "human"
      /\ \A k \in 1 .. Len(s) : s[k] = "human" => k <= LastHuman(s)
  BY LastHumanFacts DEF Opened
<1>2. results \in Seq(Kinds) /\ Len(results) = n /\ \A i \in 1 .. n : results[i] = "tool"
  BY DEF Kinds
<1> HIDE DEF results
<1>3. /\ t \in Seq(Kinds) /\ Len(t) = Len(s) + n
      /\ \A i \in 1 .. Len(t) : t[i] = IF i <= Len(s) THEN s[i] ELSE results[i - Len(s)]
      /\ DOMAIN t = 1 .. Len(t)
  <2>1. /\ t \in Seq(Kinds) /\ Len(t) = Len(s) + Len(results)
        /\ \A i \in 1 .. Len(s) + Len(results) :
              t[i] = IF i <= Len(s) THEN s[i] ELSE results[i - Len(s)]
    BY <1>1, <1>2, ConcatProperties, Zenon
  <2> HIDE DEF t
  <2>2. DOMAIN t = 1 .. Len(t)
    BY <2>1, LenProperties
  <2> QED BY <1>2, <2>1, <2>2, Zenon
<1> HIDE DEF t
<1>4. ASSUME NEW i \in 1 .. Len(t) PROVE t[i] = IF i <= Len(s) THEN s[i] ELSE "tool"
  <2>1. ~ (i <= Len(s)) => i - Len(s) \in 1 .. n
    BY <1>1, <1>3
  <2> QED BY <1>2, <1>3, <2>1
<1>5. Opened(t)
  BY <1>1, <1>3, <1>4, EmptySeq DEF Opened
<1>6. LastHuman(t) = LastHuman(s)
  <2>1. LastHuman(s) \in 1 .. Len(t) /\ t[LastHuman(s)] = "human"
    BY <1>1, <1>3, <1>4
  <2>2. \A k \in LastHuman(s) + 1 .. Len(t) : t[k] # "human"
    BY <1>1, <1>3, <1>4
  <2> QED BY <1>5, <2>1, <2>2, LastHumanIs
<1>7. TurnCalls(t) = TurnCalls(s)
  BY <1>1, <1>3, <1>4, <1>6 DEF TurnCalls
<1>8. ToolRounds(t) = ToolRounds(s)
  BY <1>1, <1>3, <1>7, RoundsTyped
<1> QED BY <1>3, <1>4, <1>5, <1>8 DEF t, results

-----------------------------------------------------------------------------
(* The steps.                                                              *)

(* What LoopInv says of the thread, in the words of the lemmas above.      *)
LEMMA ThreadOpened ==
    ASSUME LoopTypeOK, LoopInv
    PROVE  /\ thread # <<>> => Opened(thread)
           /\ stage # "idle" => Opened(thread)
           /\ ToolRounds(thread) \in Nat
BY RoundsTyped DEF LoopTypeOK, LoopInv, Opened

(* A window has the rounds of the thread.                                  *)
LEMMA WindowRounds ==
    ASSUME NEW s, Opened(s), NEW cap \in Nat
    PROVE  ToolRounds(Window(s, cap)) = ToolRounds(s)
BY WindowFacts, RoundsOfTurn

(* A human's message is handled.                                           *)
LEMMA InvokeStep == LoopTypeOK /\ LoopInv /\ Invoke => LoopTypeOK' /\ LoopInv'
<1> SUFFICES ASSUME LoopTypeOK, LoopInv, Invoke PROVE LoopTypeOK' /\ LoopInv'
  OBVIOUS
<1>1. /\ thread \in Seq(Kinds) /\ (thread # <<>> => thread[1] = "human") /\ Paired(thread)
      /\ thread' = Append(thread, "human") /\ stage' = "agent" /\ steps' = 0
      /\ inGroup' = inGroup /\ refusals' = refusals
  BY DEF LoopTypeOK, LoopInv, Invoke
<1>2. /\ Opened(thread') /\ Len(thread') = Len(thread) + 1
      /\ thread'[Len(thread) + 1] = "human"
      /\ ToolRounds(thread') = 0 /\ Paired(thread')
  BY <1>1, NewTurn
<1>3. LoopTypeOK'
  BY <1>1, <1>2, LoopAssumption DEF LoopTypeOK, Opened
<1>4. LoopInv'
  <2>1. ToolRounds(thread)' = 0
    BY <1>2 DEF ToolRounds, LastHuman, Humans
  <2>2. Paired(thread)'
    BY <1>2 DEF Paired
  <2>3. MaxToolRounds \in Nat
    BY LoopAssumption
  <2> QED BY <1>1, <1>2, <2>1, <2>2, <2>3 DEF LoopInv, Opened
<1> QED BY <1>3, <1>4

(* The model answers, or calls tools.                                      *)
LEMMA CallStep ==
    ASSUME LoopTypeOK, LoopInv, NEW cap \in Caps, NEW response \in {"answer", "call"},
           CallModel(cap, response)
    PROVE  LoopTypeOK' /\ LoopInv'
<1> DEFINE w == Window(thread, cap)  n == ToolRounds(thread)
<1>1. /\ stage = "agent" /\ steps < RecursionLimit /\ Complete(w)
      /\ response = "call" => ToolRounds(w) < MaxToolRounds
      /\ thread' = Append(w, response)
      /\ stage' = IF response = "call" THEN "tools" ELSE "answered"
      /\ steps' = steps + 1 /\ refusals' = 0 /\ inGroup' = inGroup
  BY DEF CallModel
<1>2. /\ Opened(thread) /\ n \in Nat /\ cap \in Nat /\ MaxToolRounds \in Nat
      /\ Paired(thread) /\ steps = 2 * n
  BY <1>1, ThreadOpened, LoopAssumption DEF LoopInv
<1>3. Opened(w) /\ ToolRounds(w) = n /\ Paired(w)
  BY <1>2, WindowFacts, WindowRounds
<1> HIDE DEF w, n
<1>4. /\ Opened(thread') /\ Len(thread') = Len(w) + 1
      /\ thread'[Len(w) + 1] = response
      /\ \A i \in 1 .. Len(w) : thread'[i] = w[i]
      /\ ToolRounds(thread') = n + IF response = "call" THEN 1 ELSE 0
      /\ Paired(thread')
  BY <1>1, <1>3, ResponseRounds
<1>5. LoopTypeOK'
  <2>1. steps' \in 0 .. RecursionLimit
    BY <1>1, LoopAssumption DEF LoopTypeOK
  <2> QED BY <1>1, <1>4, <2>1 DEF LoopTypeOK, Opened
<1>6. LoopInv'
  <2>1. ToolRounds(thread)' = ToolRounds(thread')
    BY DEF ToolRounds, LastHuman, Humans
  <2>2. Paired(thread)'
    BY <1>4 DEF Paired
  <2>3. CASE response = "answer"
    BY <1>1, <1>4, <2>2, <2>3 DEF LoopInv, Opened
  <2>4. CASE response = "call"
    <3>1. stage' = "tools" /\ ToolRounds(thread)' = n + 1 /\ n + 1 <= MaxToolRounds
      BY <1>1, <1>2, <1>3, <1>4, <2>1, <2>4
    <3>2. steps' = 2 * (n + 1) - 1
      BY <1>1, <1>2
    <3>3. Len(w) \in Nat \ {0} /\ DOMAIN w = 1 .. Len(w)
      BY <1>3, LastHumanFacts
    <3>4. ASSUME NEW i \in 1 .. Len(thread') - 1, thread'[i] = "call"
          PROVE  thread'[i + 1] = "tool"
      <4>1. i \in 1 .. Len(w) /\ w[i] = "call"
        BY <1>4, <3>3, <3>4
      <4>2. i < Len(w) /\ w[i + 1] = "tool"
        BY <1>1, <3>3, <4>1 DEF Complete
      <4> QED BY <1>4, <3>3, <4>1, <4>2
    <3>5. thread'[Len(thread')] = "call"
      BY <1>4, <2>4
    <3>6. thread'[1] = "human" /\ thread' # <<>>
      BY <1>4 DEF Opened
    <3> QED BY <2>2, <3>1, <3>2, <3>4, <3>5, <3>6 DEF LoopInv
  <2> QED BY <2>3, <2>4
<1> QED BY <1>5, <1>6

(* The tools give their results.                                           *)
LEMMA ToolsStep ==
    ASSUME LoopTypeOK, LoopInv, NEW k \in 1 .. MaxCalls, RunTools(k)
    PROVE  LoopTypeOK' /\ LoopInv'
<1> DEFINE n == ToolRounds(thread)
<1>1. /\ stage = "tools" /\ steps < RecursionLimit
      /\ thread' = thread \o [i \in 1 .. k |-> "tool"]
      /\ stage' = "agent" /\ steps' = steps + 1
      /\ inGroup' = inGroup /\ refusals' = refusals
  BY DEF RunTools
<1>2. /\ Opened(thread) /\ n \in Nat /\ n <= MaxToolRounds /\ steps = 2 * n - 1
      /\ Paired(thread) /\ thread[Len(thread)] = "call"
      /\ \A i \in 1 .. Len(thread) - 1 : thread[i] = "call" => thread[i + 1] = "tool"
  BY <1>1, ThreadOpened DEF LoopInv
<1>3. k \in Nat \ {0}
  BY LoopAssumption
<1> HIDE DEF n
<1>4. /\ Opened(thread') /\ Len(thread') = Len(thread) + k
      /\ \A i \in 1 .. Len(thread') :
            thread'[i] = IF i <= Len(thread) THEN thread[i] ELSE "tool"
      /\ ToolRounds(thread') = n
  BY <1>1, <1>2, <1>3, ResultRounds DEF n
<1>5. /\ Len(thread) \in Nat \ {0} /\ DOMAIN thread = 1 .. Len(thread)
      /\ DOMAIN (thread') = 1 .. Len(thread')
  BY <1>2, <1>4, LastHumanFacts
<1>6. LoopTypeOK'
  <2>1. steps' \in 0 .. RecursionLimit
    BY <1>1, LoopAssumption DEF LoopTypeOK
  <2> QED BY <1>1, <1>4, <2>1 DEF LoopTypeOK, Opened
<1>7. Paired(thread)'
  <2> SUFFICES ASSUME NEW i \in 1 .. Len(thread'), thread'[i] = "tool"
               PROVE  i > 1 /\ thread'[i - 1] \in {"call", "tool"}
    BY <1>5 DEF Paired
  <2>1. CASE i <= Len(thread)
    <3>1. i \in 1 .. Len(thread) /\ thread[i] = "tool"
      BY <1>4, <1>5, <2>1
    <3>2. i > 1 /\ thread[i - 1] \in {"call", "tool"}
      BY <1>2, <1>5, <3>1 DEF Paired
    <3> QED BY <1>3, <1>4, <1>5, <3>1, <3>2
  <2>2. CASE i = Len(thread) + 1
    <3>1. i > 1 /\ i - 1 = Len(thread) /\ Len(thread) \in 1 .. Len(thread')
      BY <1>3, <1>4, <1>5, <2>2
    <3> QED BY <1>2, <1>4, <1>5, <3>1
  <2>3. CASE i > Len(thread) + 1
    <3>1. i > 1 /\ i - 1 \in 1 .. Len(thread') /\ ~ (i - 1 <= Len(thread))
      BY <1>3, <1>4, <1>5, <2>3
    <3> QED BY <1>4, <3>1
  <2> QED BY <1>5, <2>1, <2>2, <2>3
<1>8. Complete(thread)'
  <2> SUFFICES ASSUME NEW i \in 1 .. Len(thread'), thread'[i] = "call"
               PROVE  i < Len(thread') /\ thread'[i + 1] = "tool"
    BY <1>5 DEF Complete
  <2>1. i \in 1 .. Len(thread) /\ thread[i] = "call"
    BY <1>4, <1>5
  <2>2. CASE i < Len(thread)
    <3>1. thread[i + 1] = "tool" /\ i + 1 \in 1 .. Len(thread)
      BY <1>2, <1>5, <2>1, <2>2
    <3> QED BY <1>3, <1>4, <1>5, <2>2, <3>1
  <2>3. CASE i = Len(thread)
    <3>1. i + 1 \in 1 .. Len(thread') /\ ~ (i + 1 <= Len(thread))
      BY <1>3, <1>4, <1>5, <2>3
    <3> QED BY <1>4, <1>5, <3>1
  <2>4. i < Len(thread) \/ i = Len(thread)
    <3>1. i \in Int /\ Len(thread) \in Int /\ i <= Len(thread)
      BY <1>5, <2>1
    <3> QED BY <3>1
  <2> QED BY <2>2, <2>3, <2>4
<1>9. LoopInv'
  <2>1. ToolRounds(thread)' = n
    BY <1>4 DEF ToolRounds, LastHuman, Humans
  <2>2. steps' = 2 * n
    BY <1>1, <1>2
  <2>3. thread'[1] = "human" /\ thread' # <<>>
    BY <1>4 DEF Opened
  <2> QED BY <1>1, <1>2, <1>7, <1>8, <2>1, <2>2, <2>3 DEF LoopInv
<1> QED BY <1>6, <1>9

(* The turn ends without a change of its thread.                           *)
LEMMA EndStep ==
    ASSUME LoopTypeOK, LoopInv, stage' = "idle",
           UNCHANGED <<thread, inGroup, steps>>, refusals' \in Nat
    PROVE  LoopTypeOK' /\ LoopInv'
<1>1. Paired(thread)'
  BY DEF LoopInv, Paired
<1> QED BY <1>1 DEF LoopTypeOK, LoopInv

(* The reply goes out, or its silence is taken back.                       *)
LEMMA RepliesStep ==
    ASSUME LoopTypeOK, LoopInv, NEW silent \in BOOLEAN, Replies(silent)
    PROVE  LoopTypeOK' /\ LoopInv'
<1>1. /\ stage = "answered" /\ stage' = "idle"
      /\ thread' = IF silent THEN SubSeq(thread, 1, Len(thread) - 1) ELSE thread
      /\ UNCHANGED <<inGroup, steps, refusals>>
  BY DEF Replies
<1>2. CASE ~silent
  <2>1. thread' = thread /\ refusals' \in Nat
    BY <1>1, <1>2 DEF LoopTypeOK
  <2> QED BY <1>1, <2>1, EndStep
<1>3. CASE silent
  <2>1. /\ Opened(thread) /\ Len(thread) \in Nat \ {0} /\ DOMAIN thread = 1 .. Len(thread)
        /\ thread \in Seq(Kinds) /\ Paired(thread)
    BY <1>1, ThreadOpened, LastHumanFacts DEF Opened, LoopInv
  <2>2. /\ thread' \in Seq(Kinds) /\ Len(thread') = Len(thread) - 1
        /\ \A i \in 1 .. Len(thread) - 1 : thread'[i] = thread[i]
    <3>1. \A i \in 1 .. Len(thread) - 1 : thread[i] \in Kinds
      BY <2>1, ElementOfSeq
    <3>2. Len(thread) - 1 \in Int /\ thread' = SubSeq(thread, 1, Len(thread) - 1)
      BY <1>1, <1>3, <2>1
    <3> DEFINE m == Len(thread) - 1
    <3>3. /\ SubSeq(thread, 1, m) \in Seq(Kinds)
          /\ Len(SubSeq(thread, 1, m)) = IF 1 <= m THEN m - 1 + 1 ELSE 0
          /\ \A i \in 1 .. m - 1 + 1 : SubSeq(thread, 1, m)[i] = thread[1 + i - 1]
      <4> HIDE DEF m
      <4> QED BY <3>1, <3>2, SubSeqProperties DEF m
    <3> QED BY <2>1, <3>2, <3>3
  <2>3. DOMAIN (thread') = 1 .. Len(thread) - 1
    BY <2>2, LenProperties
  <2>4. thread' # <<>> => thread'[1] = "human"
    <3>1. thread' # <<>> => Len(thread') \in Nat \ {0}
      BY <2>2, EmptySeq
    <3> QED BY <2>1, <2>2, <3>1 DEF Opened
  <2>5. Paired(thread)'
    BY <2>1, <2>2, <2>3 DEF Paired
  <2> QED BY <1>1, <2>2, <2>4, <2>5 DEF LoopTypeOK, LoopInv
<1> QED BY <1>2, <1>3

(* Types and LoopInv are kept by every step.                               *)
LEMMA LoopStep ==
    LoopTypeOK /\ LoopInv /\ [LoopNext]_loopVars => LoopTypeOK' /\ LoopInv'
<1> SUFFICES ASSUME LoopTypeOK, LoopInv, [LoopNext]_loopVars PROVE LoopTypeOK' /\ LoopInv'
  OBVIOUS
<1>1. CASE Invoke
  BY <1>1, InvokeStep
<1>2. ASSUME NEW cap \in Caps, NEW response \in {"answer", "call"}, CallModel(cap, response)
      PROVE  LoopTypeOK' /\ LoopInv'
  BY <1>2, CallStep
<1>3. ASSUME NEW cap \in Caps, ModelRefuses(cap) PROVE LoopTypeOK' /\ LoopInv'
  BY <1>3, EndStep DEF ModelRefuses, LoopTypeOK
<1>4. ASSUME NEW n \in 1 .. MaxCalls, RunTools(n) PROVE LoopTypeOK' /\ LoopInv'
  BY <1>4, ToolsStep
<1>5. CASE Interrupted
  BY <1>5, EndStep DEF Interrupted, LoopTypeOK
<1>6. ASSUME NEW silent \in BOOLEAN, Replies(silent) PROVE LoopTypeOK' /\ LoopInv'
  BY <1>6, RepliesStep
<1>7. CASE WipeThread
  <2>1. thread' = <<>> /\ stage' = "idle" /\ refusals' = 0 /\ UNCHANGED <<inGroup, steps>>
    BY <1>7 DEF WipeThread
  <2>2. Paired(thread)'
    BY <2>1 DEF Paired
  <2> QED BY <2>1, <2>2, EmptySeq DEF LoopTypeOK, LoopInv
<1>8. CASE UNCHANGED loopVars
  <2>1. Paired(thread)' /\ ToolRounds(thread)' = ToolRounds(thread)
          /\ Complete(thread)' = Complete(thread)
    BY <1>8 DEF loopVars, LoopInv, Paired, ToolRounds, LastHuman, Humans, Complete
  <2> QED BY <1>8, <2>1 DEF loopVars, LoopTypeOK, LoopInv
<1> QED BY <1>1, <1>2, <1>3, <1>4, <1>5, <1>6, <1>7, <1>8 DEF LoopNext

(* A thread has a type, and the invariant holds where nothing was said.    *)
LEMMA LoopStart == LoopInit => LoopTypeOK /\ LoopInv /\ TailInv /\ refusals = 0
<1> SUFFICES ASSUME LoopInit PROVE LoopTypeOK /\ LoopInv /\ TailInv /\ refusals = 0
  OBVIOUS
<1>1. LoopTypeOK
  BY EmptySeq, LoopAssumption DEF LoopInit, LoopTypeOK
<1>2. LoopInv
  BY DEF LoopInit, LoopInv, Paired
<1>3. TailInv
  BY DEF LoopInit, TailInv
<1> QED BY <1>1, <1>2, <1>3 DEF LoopInit

(* A refusal leaves the message that was refused at the end.               *)
LEMMA RefusalLeaves ==
    ASSUME LoopTypeOK, LoopInv, TailInv, NEW cap \in Caps, ModelRefuses(cap)
    PROVE  TailInv' /\ refusals + 3 <= Max({2, cap})
<1> DEFINE n == refusals + 1
<1>1. /\ stage = "agent" /\ stage' = "idle" /\ thread' = thread /\ refusals' = n
      /\ ~Complete(Window(thread, cap))
  BY DEF ModelRefuses
<1>2. /\ Opened(thread) /\ cap \in Nat /\ n \in Nat \ {0} /\ refusals \in Nat
      /\ Len(thread) \in Nat \ {0}
  BY <1>1, ThreadOpened, LastHumanFacts, LoopAssumption DEF LoopTypeOK
<1>3. n <= Len(thread) /\ \A k \in Len(thread) - n + 1 .. Len(thread) : thread[k] = "human"
  <2>1. CASE refusals = 0
    <3>1. ~Complete(thread)
      BY <1>1, <1>2, WindowFacts
    <3>2. thread[Len(thread)] = "human"
      BY <1>1, <3>1 DEF LoopInv
    <3> QED BY <1>2, <2>1, <3>2
  <2>2. CASE refusals > 0
    BY <1>1, <1>2, <2>2 DEF TailInv
  <2> QED BY <1>2, <2>1, <2>2
<1>4. n < Len(thread) /\ n + 2 <= Max({2, cap})
  <2> HIDE DEF n
  <2> QED BY <1>1, <1>2, <1>3, RefusedWindow
<1>5. Max({2, cap}) \in Nat
  BY <1>2, WindowRoom
<1>6. TailInv'
  BY <1>1, <1>2, <1>3, <1>4 DEF TailInv
<1> QED BY <1>2, <1>4, <1>5, <1>6

(* TailInv is kept by every step.                                          *)
LEMMA TailStep ==
    LoopTypeOK /\ LoopInv /\ TailInv /\ [LoopNext]_loopVars => TailInv'
<1> SUFFICES ASSUME LoopTypeOK, LoopInv, TailInv, [LoopNext]_loopVars PROVE TailInv'
  OBVIOUS
<1>0. refusals \in Nat
  BY DEF LoopTypeOK
<1>1. CASE Invoke
  <2> SUFFICES ASSUME refusals > 0
               PROVE  LET n == refusals + 1
                      IN  /\ n < Len(thread')
                          /\ \A k \in Len(thread') - n + 1 .. Len(thread') : thread'[k] = "human"
    BY <1>1 DEF TailInv, Invoke
  <2>1. /\ Len(thread) \in Nat /\ Len(thread') = Len(thread) + 1
        /\ thread'[Len(thread) + 1] = "human"
        /\ \A i \in 1 .. Len(thread) : thread'[i] = thread[i]
    BY <1>1, NewTurn, LenProperties DEF LoopTypeOK, LoopInv, Invoke
  <2>2. /\ refusals < Len(thread)
        /\ \A k \in Len(thread) - refusals + 1 .. Len(thread) : thread[k] = "human"
    BY <1>0, <1>1 DEF TailInv, Invoke
  <2>3. ASSUME NEW k \in Len(thread') - (refusals + 1) + 1 .. Len(thread')
        PROVE  thread'[k] = "human"
    <3>1. CASE k = Len(thread) + 1
      BY <2>1, <3>1
    <3>2. CASE k <= Len(thread)
      <4>1. k \in 1 .. Len(thread) /\ k \in Len(thread) - refusals + 1 .. Len(thread)
        BY <1>0, <2>1, <2>2, <3>2
      <4> QED BY <2>1, <2>2, <4>1
    <3>3. k = Len(thread) + 1 \/ k <= Len(thread)
      <4>1. k \in Int /\ Len(thread) \in Int /\ k <= Len(thread) + 1
        BY <2>1
      <4> QED BY <4>1
    <3> QED BY <3>1, <3>2, <3>3
  <2> QED BY <1>0, <2>1, <2>2, <2>3
<1>2. ASSUME NEW cap \in Caps, NEW response \in {"answer", "call"}, CallModel(cap, response)
      PROVE  TailInv'
  BY <1>2 DEF CallModel, TailInv
<1>3. ASSUME NEW cap \in Caps, ModelRefuses(cap) PROVE TailInv'
  BY <1>3, RefusalLeaves
<1>4. ASSUME NEW n \in 1 .. MaxCalls, RunTools(n) PROVE TailInv'
  BY <1>4, <1>0 DEF RunTools, TailInv
<1>5. CASE Interrupted
  <2> SUFFICES ASSUME refusals > 0
               PROVE  /\ refusals < Len(thread)
                      /\ \A k \in Len(thread) - refusals + 1 .. Len(thread) : thread[k] = "human"
    BY <1>0, <1>5 DEF TailInv, Interrupted
  <2>1. /\ refusals + 1 < Len(thread)
        /\ \A k \in Len(thread) - (refusals + 1) + 1 .. Len(thread) : thread[k] = "human"
    BY <1>0, <1>5 DEF TailInv, Interrupted
  <2>2. Len(thread) \in Nat
    BY LenProperties DEF LoopTypeOK
  <2> QED BY <1>0, <2>1, <2>2
<1>6. ASSUME NEW silent \in BOOLEAN, Replies(silent) PROVE TailInv'
  BY <1>6, <1>0 DEF Replies, TailInv
<1>7. CASE WipeThread
  BY <1>7 DEF WipeThread, TailInv
<1>8. CASE UNCHANGED loopVars
  BY <1>8 DEF loopVars, TailInv
<1> QED BY <1>1, <1>2, <1>3, <1>4, <1>5, <1>6, <1>7, <1>8 DEF LoopNext

(* No setting gives more room than the largest one.                        *)
LEMMA LargestRoom ==
    /\ Max({2} \cup Caps) \in Nat /\ Max({2} \cup Caps) >= 2
    /\ \A cap \in Caps : Max({2, cap}) <= Max({2} \cup Caps)
<1> DEFINE S == {2} \cup Caps
<1>1. S \in SUBSET Nat /\ IsFiniteSet(S)
  <2>1. S = Caps \cup {2} /\ Caps \in SUBSET Nat /\ IsFiniteSet(Caps)
    BY LoopAssumption
  <2> QED BY <2>1, FS_AddElement
<1>2. 2 \in S /\ \A cap \in Caps : cap \in S
  OBVIOUS
<1> HIDE DEF S
<1>3. PICK n \in Nat : S \subseteq 0 .. n
  BY <1>1, FiniteBounded
<1>4. Max(S) \in S /\ \A y \in S : Max(S) >= y
  BY <1>2, <1>3, GreatestExists
<1>5. ASSUME NEW cap \in Caps PROVE Max({2, cap}) \in S
  <2>1. cap \in Nat
    BY <1>1, <1>2
  <2> QED BY <1>2, <2>1, WindowRoom
<1>6. Max(S) \in Nat /\ Max(S) >= 2 /\ \A cap \in Caps : Max({2, cap}) <= Max(S)
  <2>1. Max(S) \in Nat /\ \A cap \in Caps : Max({2, cap}) \in Nat
    BY <1>1, <1>4, <1>5
  <2> QED BY <1>2, <1>4, <1>5, <2>1
<1> QED BY <1>6 DEF S

(* Only a refusal counts one more.                                         *)
LEMMA RefusalsStep ==
    LoopTypeOK /\ LoopInv /\ TailInv /\ RefusalsEnd /\ [LoopNext]_loopVars => RefusalsEnd'
<1> SUFFICES ASSUME LoopTypeOK, LoopInv, TailInv, RefusalsEnd, [LoopNext]_loopVars
             PROVE  RefusalsEnd'
  OBVIOUS
<1>1. \/ refusals' = 0
      \/ refusals' = refusals
      \/ \E cap \in Caps : ModelRefuses(cap)
  BY DEF LoopNext, Invoke, CallModel, RunTools, Interrupted, Replies, WipeThread, loopVars
<1>2. CASE refusals' = 0
  BY <1>2, LargestRoom DEF RefusalsEnd
<1>3. CASE refusals' = refusals
  BY <1>3 DEF RefusalsEnd
<1>4. ASSUME NEW cap \in Caps, ModelRefuses(cap) PROVE RefusalsEnd'
  <2>1. refusals' = refusals + 1 /\ refusals \in Nat
    BY <1>4 DEF ModelRefuses, LoopTypeOK
  <2>2. refusals + 3 <= Max({2, cap}) /\ cap \in Nat
    BY <1>4, RefusalLeaves, LoopAssumption
  <2>3. Max({2, cap}) \in Nat
    BY <2>2, WindowRoom
  <2> QED BY <2>1, <2>2, <2>3, LargestRoom DEF RefusalsEnd
<1> QED BY <1>1, <1>2, <1>3, <1>4

-----------------------------------------------------------------------------
(* Everything together holds of the threads of every turn.                 *)
LEMMA LoopAlways == LoopSpec => [](LoopTypeOK /\ LoopInv /\ TailInv /\ RefusalsEnd)
<1>1. LoopInit => LoopTypeOK /\ LoopInv /\ TailInv /\ RefusalsEnd
  BY LoopStart, LargestRoom DEF RefusalsEnd
<1>2. LoopTypeOK /\ LoopInv /\ TailInv /\ RefusalsEnd /\ [LoopNext]_loopVars
        => (LoopTypeOK /\ LoopInv /\ TailInv /\ RefusalsEnd)'
  BY LoopStep, TailStep, RefusalsStep
<1> QED BY <1>1, <1>2, PTL DEF LoopSpec

(* Types: in particular a turn never exceeds the supersteps LangGraph      *)
(* grants it, and what is cut from a thread is a thread.                   *)
THEOREM LoopTypeCorrect == LoopSpec => []LoopTypeOK
BY LoopAlways, PTL

(* The window of each call is what call_model needs: it starts with a      *)
(* human's message, has the call of every result and all of this turn, and *)
(* exceeds the setting only by the turn itself.                            *)
THEOREM WindowIsWellFormed == LoopSpec => []WindowWellFormed
<1>1. LoopTypeOK /\ LoopInv => WindowWellFormed
  <2> SUFFICES ASSUME LoopTypeOK, LoopInv, stage = "agent", NEW cap \in Caps
               PROVE  LET w == Window(thread, cap)
                      IN  /\ w # <<>> /\ w[1] = "human"
                          /\ \A i \in DOMAIN w : w[i] = "tool" => w[i - 1] \in {"call", "tool"}
                          /\ From(w, LastHuman(w)) = From(thread, LastHuman(thread))
                          /\ Len(w) <= Max({2, cap}) \/ Cardinality(Humans(w)) = 1
    BY DEF WindowWellFormed
  <2> DEFINE w == Window(thread, cap)
  <2>1. Opened(thread) /\ cap \in Nat /\ Paired(thread)
    BY ThreadOpened, LoopAssumption DEF LoopInv
  <2>2. /\ Opened(w) /\ Turn(w) = Turn(thread) /\ Paired(w)
        /\ Len(w) <= Max({2, cap}) \/ LastHuman(w) = 1
    BY <2>1, WindowFacts
  <2> HIDE DEF w
  <2>3. LastHuman(w) = 1 => Cardinality(Humans(w)) = 1
    <3>1. LastHuman(w) = 1 => Humans(w) = {1}
      BY <2>2, LastHumanFacts DEF Humans
    <3> QED BY <3>1, FS_Singleton
  <2>4. w # <<>> /\ w[1] = "human"
    BY <2>2 DEF Opened
  <2>5. \A i \in DOMAIN w : w[i] = "tool" => w[i - 1] \in {"call", "tool"}
    BY <2>2 DEF Paired
  <2> QED BY <2>2, <2>3, <2>4, <2>5 DEF Turn, w
<1> QED BY <1>1, LoopAlways, PTL

(* The model answers before LangGraph stops the graph: the supersteps of a *)
(* turn are two for each round, and the window shows every round.          *)
THEOREM AnswersStayWithinLimit == LoopSpec => []AnswersWithinLimit
<1>1. LoopTypeOK /\ LoopInv => AnswersWithinLimit
  <2> SUFFICES ASSUME LoopTypeOK, LoopInv, stage \in {"agent", "tools"}
               PROVE  steps < RecursionLimit
    BY DEF AnswersWithinLimit
  <2> DEFINE n == ToolRounds(thread)
  <2>1. n \in Nat /\ n <= MaxToolRounds /\ (steps = 2 * n \/ steps = 2 * n - 1)
    BY ThreadOpened DEF LoopInv
  <2> HIDE DEF n
  <2>2. MaxToolRounds \in Nat /\ RecursionLimit \in Nat
    BY LoopAssumption
  <2> QED BY <2>1, <2>2, RoundsAssumption
<1> QED BY <1>1, LoopAlways, PTL

(* A call without results is forgotten after a number of refusals that the *)
(* largest setting of the window bounds.                                   *)
THEOREM RefusalsComeToAnEnd == LoopSpec => []RefusalsEnd
BY LoopAlways, PTL

=============================================================================

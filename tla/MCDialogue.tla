---------------------------- MODULE MCDialogue ----------------------------
(* Four parts of a dialogue that keep a state of their own and share none, *)
(* each on a small instance for TLC: when the bot speaks up in a group,    *)
(* the thread of a turn, the card of a speaker and the pad of an owner.    *)
(* The initial state says which of them moves.                             *)
EXTENDS GroupTalk, ToolLoop, SpeakerCards, OwnerPad, TLC

VARIABLE part

MCInit ==
    /\ part \in {"talk", "loop", "cards", "pad"}
    /\ TalkInit /\ LoopInit /\ CardsInit /\ PadInit
    /\ inGroup => part = "loop"

(* Texts with at most two traits.                                          *)
FewTexts ==
    {t \in Texts :
        Cardinality({f \in DOMAIN t \ {"size"} : t[f]}) <= 2}

TalkMove ==
    \/ \E s \in Slots :
          \/ \E u \in Members, t \in FewTexts : Receive(s, u, t)
          \/ Answer(s)
          \/ Unnoted(s)
    \/ ForgetChat
    \/ TalkTick

(* What a model may learn of a speaker at once: one field, of the stack    *)
(* one entry.                                                              *)
FewCards ==
    {c \in Cards :
        /\ Len(c.stack) <= 1
        /\ Cardinality({f \in DOMAIN c : c[f] # NewCard[f]}) <= 1}

CardsMove ==
    \/ \E j \in Jobs :
          \/ \E compressed \in BOOLEAN : ReadCard(j, compressed)
          \/ \E new \in FewCards : Extracted(j, new)
          \/ GiveUp(j)
          \/ PutCard(j)
    \/ DeleteCard
    \/ CardTick

(* What one turn notes of an owner: its text, nothing else or the same.     *)
PadMove ==
    \/ \E w \in OwnerTurns, text, open, reflect \in Notes \cup {Blank} :
          /\ {open, reflect} \subseteq {text, Blank}
          /\ EndTurn(w, text, open, reflect)
    \/ \E w \in Pings, now \in Notes : MarkProactive(w, now)
    \/ \E w \in Writers : Reload(w) \/ Save(w) \/ SaveFails(w)
    \/ ClearPad

MCNext ==
    /\ \/ part = "talk" /\ TalkMove /\ UNCHANGED <<loopVars, cardVars, padVars>>
       \/ part = "loop" /\ LoopNext /\ UNCHANGED <<talkVars, cardVars, padVars>>
       \/ part = "cards" /\ CardsMove /\ UNCHANGED <<talkVars, loopVars, padVars>>
       \/ part = "pad" /\ PadMove /\ UNCHANGED <<talkVars, loopVars, cardVars>>
    /\ UNCHANGED part

MCSpec == MCInit /\ [][MCNext]_<<talkVars, loopVars, cardVars, padVars, part>>

DialogueTypeOK == TalkTypeOK /\ LoopTypeOK /\ CardsTypeOK /\ PadTypeOK

Symmetry == Permutations(Jobs) \cup Permutations(OwnerTurns)
=============================================================================

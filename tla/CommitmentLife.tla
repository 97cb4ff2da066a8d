--------------------------- MODULE CommitmentLife ---------------------------
(***************************************************************************)
(* What becomes of a commitment, without rows, snapshots, quota or clock:  *)
(* it is written down, and then either the owner cancels it or the bot     *)
(* takes it up once, says it and closes it.  What is taken up is still     *)
(* open at that moment and in nobody else's hands, and what is closed is   *)
(* not touched again.                                                      *)
(***************************************************************************)
EXTENDS Naturals

CONSTANTS Ids

VARIABLES
    unborn,    \* not written down yet
    open,      \* written down, and nobody is at it
    speaking,  \* the bot is about to say them
    told,      \* said, and not closed yet
    closed     \* done or cancelled

lifeVars == <<unborn, open, speaking, told, closed>>

Init ==
    /\ unborn = Ids
    /\ {open, speaking, told, closed} = {{}}

Note(i) ==
    /\ i \in unborn
    /\ unborn' = unborn \ {i}
    /\ open' = open \cup {i}
    /\ UNCHANGED <<speaking, told, closed>>

\* The bot takes up several at once.  A cancellation that comes later does
\* not stop it: what is being said is said.
TakeUp(S) ==
    /\ S \subseteq open
    /\ open' = open \ S
    /\ speaking' = speaking \cup S
    /\ UNCHANGED <<unborn, told, closed>>

Tell(i) ==
    /\ i \in speaking
    /\ speaking' = speaking \ {i}
    /\ told' = told \cup {i}
    /\ UNCHANGED <<unborn, open, closed>>

Settle(i) ==
    /\ i \in told
    /\ told' = told \ {i}
    /\ closed' = closed \cup {i}
    /\ UNCHANGED <<unborn, open, speaking>>

Cancel(i) ==
    /\ i \in open
    /\ open' = open \ {i}
    /\ closed' = closed \cup {i}
    /\ UNCHANGED <<unborn, speaking, told>>

\* The process ends and takes them all with it.
Die ==
    /\ {open', speaking', told', closed'} = {{}}
    /\ UNCHANGED unborn

Next ==
    \/ \E i \in Ids : Note(i) \/ Tell(i) \/ Settle(i) \/ Cancel(i)
    \/ \E S \in SUBSET open : TakeUp(S)
    \/ Die

Spec == Init /\ [][Next]_lifeVars
=============================================================================

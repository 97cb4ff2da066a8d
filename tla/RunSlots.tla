------------------------------ MODULE RunSlots ------------------------------
(***************************************************************************)
(* What CronService.fire promises, without rows, clock or loop: a job is   *)
(* worked on by at most one call at a time, at most Permits jobs run at    *)
(* once, and the others wait in the order in which they came, until they   *)
(* are admitted or their call is cut off.                                  *)
(***************************************************************************)
EXTENDS Naturals, Sequences, FiniteSets

CONSTANTS Jobs, Permits

VARIABLES
    active,  \* jobs that hold a permit
    queue    \* jobs that wait for one

slotVars == <<active, queue>>

Waiting == {queue[i] : i \in DOMAIN queue}

SlotFree == Cardinality(active) < Permits

Init == active = {} /\ queue = <<>>

\* A job nobody works on is claimed: it runs at once or it queues.
Claim(j) ==
    /\ j \notin active /\ j \notin Waiting
    /\ \/ /\ SlotFree /\ queue = <<>>
          /\ active' = active \cup {j}
          /\ UNCHANGED queue
       \/ /\ ~SlotFree \/ queue # <<>>
          /\ queue' = Append(queue, j)
          /\ UNCHANGED active

Admit ==
    /\ SlotFree /\ queue # <<>>
    /\ active' = active \cup {Head(queue)}
    /\ queue' = Tail(queue)

Finish(j) ==
    /\ j \in active
    /\ active' = active \ {j}
    /\ UNCHANGED queue

\* A sequence without its i-th element.
Without(s, i) == [k \in 1 .. (Len(s) - 1) |-> s[IF k < i THEN k ELSE k + 1]]

\* The call that claimed a job is cut off while it waits: the job gives up its
\* place, and those behind it move up.
Withdraw(i) ==
    /\ queue' = Without(queue, i)
    /\ UNCHANGED active

\* The process ends and takes its claims with it.
Die == active' = {} /\ queue' = <<>>

Next ==
    \/ \E j \in Jobs : Claim(j) \/ Finish(j)
    \/ Admit
    \/ \E i \in DOMAIN queue : Withdraw(i)
    \/ Die

Spec == Init /\ [][Next]_slotVars
=============================================================================

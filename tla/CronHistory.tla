---------------------------- MODULE CronHistory ----------------------------
(***************************************************************************)
(* CronService with history variables: which removals the owner was told   *)
(* of, and how long due jobs have been left alone.  They record steps and  *)
(* never constrain them.                                                   *)
(***************************************************************************)
EXTENDS CronService

VARIABLES
    removed,    \* jobs whose removal was confirmed to the owner
    waited      \* time a job has been enabled, due and in nobody's hands

history == <<removed, waited>>
hvars == <<vars, history>>

HTypeOK ==
    /\ TypeOK
    /\ removed \subseteq Jobs
    /\ waited \in [Jobs -> Nat]

HInit ==
    /\ Init
    /\ removed = {}
    /\ waited = [j \in Jobs |-> 0]

\* Jobs the loop ought to take: due, enabled, in no call of fire().
Neglected ==
    IF loop = "down" THEN {}
    ELSE {j \in Jobs : /\ db[j] # NoRow /\ db[j].enabled /\ db[j].next <= now
                       /\ \A f \in Fires : copy[f] = NoRow \/ copy[f].id # j}

HNext ==
    /\ Next
    /\ removed' = removed \cup {j \in Jobs : Remove(j)}
    /\ waited' = [j \in Jobs |->
                        IF j \notin Neglected \/ j \notin Neglected' THEN 0
                        ELSE waited[j] + (now' - now)]

HSpec == HInit /\ [][HNext]_hvars

-----------------------------------------------------------------------------

\* A due job is taken within one sleep, although a wake() that arrives during
\* a tick is lost and a finished run does not wake the loop: the longest sleep
\* bounds the delay.  It takes a tick that sees every due row and does not fail.
TakenWithinOneSleep ==
    DueLimit >= Cardinality(Jobs) /\ ~DbFails =>
        \A j \in Jobs : waited[j] <= Heartbeat

\* A job whose removal was confirmed to the owner does not come back.
RemovedStaysRemoved == \A j \in removed : db[j] = NoRow
=============================================================================

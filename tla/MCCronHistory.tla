--------------------------- MODULE MCCronHistory ---------------------------
(* Small instances of CronHistory for TLC.                                 *)
EXTENDS CronHistory, TLC

Once(d)  == [kind |-> "at", abs |-> FALSE, t |-> d]
Every(d) == [kind |-> "every", abs |-> FALSE, t |-> d]
Cron(d)  == [kind |-> "cron", abs |-> FALSE, t |-> d]

OnceOnly == {Once(1)}
EveryOrCron == {Every(1), Cron(2)}

Symmetry ==
    Permutations(Jobs) \cup Permutations(OwnerFires) \cup Permutations(Fires \ OwnerFires)
=============================================================================

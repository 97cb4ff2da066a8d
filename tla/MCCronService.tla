--------------------------- MODULE MCCronService ---------------------------
(* Small instances of CronService for TLC.                                 *)
EXTENDS CronService, TLC

Once(d)  == [kind |-> "at", abs |-> FALSE, t |-> d]
OnceAt(t) == [kind |-> "at", abs |-> TRUE, t |-> t]
Every(d) == [kind |-> "every", abs |-> FALSE, t |-> d]

OnceOnly == {Once(1)}
OnceOrPast == {Once(1), OnceAt(1)}
EveryOnly == {Every(1)}

Symmetry ==
    Permutations(Jobs) \cup Permutations(OwnerFires) \cup Permutations(Fires \ OwnerFires)
=============================================================================

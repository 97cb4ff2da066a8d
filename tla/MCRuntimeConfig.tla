-------------------------- MODULE MCRuntimeConfig --------------------------
(* A small instance of RuntimeConfig for TLC.  How often people edit the   *)
(* files, use the console and restart the process is bounded here, and     *)
(* what they write is narrowed to what the properties tell apart.          *)
EXTENDS RuntimeConfig, TLC

CONSTANTS MaxActs, MaxStarts

VARIABLES acts, starts

counters == <<acts, starts>>

(* A request changes one field, or sends back a whole section with the     *)
(* secret as the console was shown it.  No property tells the ports apart. *)
FewPatches ==
    {p \in Patches :
        /\ p.token # NoToken /\ p.port = Keep
        /\ \/ Cardinality({p.enabled, p.token, p.card} \ {Keep}) = 1
           \/ p.card = Keep /\ p.enabled # Keep /\ p.token = Mask}

(* Nothing is set, or what docker-compose.yml sets.                        *)
FewEnvironments ==
    [enabled : {Keep}, token : {NoToken}] \cup [enabled : {TRUE}, token : Tokens]

FewIdentities ==
    {i \in Identities : i.policy /\ i.owners # {} /\ i.owners \cap BuiltinOwners = {}}

(* A person.yaml that is gone reads like the default card.                 *)
MCEdit ==
    \/ \E f \in FewIdentities \cup {Missing, Broken} : HandEditIdentity(f)
    \/ \E f \in Cards \cup {Broken} : HandEditPersona(f)

MCRequest ==
    \/ \E u \in Updates :
        \/ \E p \in FewPatches : PutConfig(u, p) \/ PutPersona(u, p) \/ PersonaNotSaved(u, p)
        \/ \E on \in BOOLEAN : TogglePlatform(u, on)
    \/ PutIdentity(Keep, FALSE) \/ IdentityNotSaved
    \/ \E i \in FewIdentities : PutIdentity(i.owners, Keep)

MCInit == Init /\ env.enabled = Keep /\ env.token = NoToken /\ acts = 0 /\ starts = 0

MCNext ==
    \/ /\ acts < MaxActs /\ (MCEdit \/ MCRequest)
       /\ acts' = acts + 1 /\ UNCHANGED starts
    \/ /\ starts < MaxStarts /\ Start
       /\ starts' = starts + 1 /\ UNCHANGED acts
    \/ (Settle \/ Sync \/ Started) /\ UNCHANGED counters
    \/ \E e \in FewEnvironments : Stop(e) /\ UNCHANGED counters

MCSpec == MCInit /\ [][MCNext]_<<vars, counters>>

Symmetry == Permutations(Updates)
=============================================================================

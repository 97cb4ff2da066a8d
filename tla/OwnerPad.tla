----------------------------- MODULE OwnerPad ------------------------------
(***************************************************************************)
(* The scratchpad of an owner: core/scratchpad.py and its three writers in *)
(* core/chat.py, the end of an owner's turn, the follow-up of a commitment *)
(* and /clear.  It is a row of four fields.  Nobody writes a field: each   *)
(* writer reads the row, reads it again while saving, and puts all four    *)
(* back, its own and those it means to keep.                               *)
(*                                                                         *)
(* Every call of the database is a step of its own, as on Postgres.        *)
(***************************************************************************)
CONSTANTS
    OwnerTurns,  \* turns of the owner that come to their end
    Pings,       \* follow-ups that call mark_proactive
    Notes,       \* what a field may hold
    Blank

ASSUME PadAssumption ==
    /\ Blank \notin Notes
    /\ OwnerTurns \cap Pings = {}

Writers == OwnerTurns \cup Pings

VARIABLES
    pad,     \* the row of owner_scratchpads, blank when there is none
    at,      \* how far each writer is
    draft,   \* the row it is going to put
    \* History: never read by the actions.
    said,    \* what the writer itself has to say, Blank where nothing
    behind   \* fields that another has put since the writer read them

padVars == <<pad, at, draft, said, behind>>

Kept == {"focus", "open_summary", "reflect_notes"}
Fields == Kept \cup {"last_proactive_at"}
Rows == [Fields -> Notes \cup {Blank}]
BlankRow == [f \in Fields |-> Blank]

PadTypeOK ==
    /\ pad \in Rows
    /\ at \in [Writers -> {"ready", "loaded", "reloaded", "done", "failed"}]
    /\ draft \in [Writers -> Rows]
    /\ said \in [Writers -> Rows]
    /\ behind \in [Writers -> SUBSET Fields]

-----------------------------------------------------------------------------
(* maybe_reflect_turn: a line on how to talk, or nothing.                  *)
Reflections == Notes \cup {Blank}

Or(new, old) == IF new = Blank THEN old ELSE new

Advance(w, to) == at' = [at EXCEPT ![w] = to]

(* The fields that a writer has taken from the row.                        *)
Taken(w) == IF at[w] = "loaded" THEN Kept ELSE IF at[w] = "reloaded" THEN Fields ELSE {}

(* Writer w, or nobody, puts the row: what the others hold is old now.     *)
Puts(row, ws) ==
    /\ pad' = row
    /\ behind' = [v \in Writers |-> IF v \in ws THEN {} ELSE behind[v] \cup Taken(v)]

(* _after_owner_turn: the first reading fills what the turn leaves blank;  *)
(* the focus is the owner's text in any case.                              *)
EndTurn(w, text, open, reflect) ==
    /\ at[w] = "ready"
    /\ Advance(w, "loaded")
    /\ said' = [said EXCEPT ![w] = [BlankRow EXCEPT !["focus"] = text,
                                                    !["open_summary"] = open,
                                                    !["reflect_notes"] = reflect]]
    /\ draft' = [draft EXCEPT ![w] =
                    [BlankRow EXCEPT !["focus"] = text,
                                     !["open_summary"] = Or(open, pad["open_summary"]),
                                     !["reflect_notes"] = Or(reflect, pad["reflect_notes"])]]
    /\ UNCHANGED <<pad, behind>>

(* Mutant: the lines that were noted of the owner are not passed on.       *)
MarkProactiveForgetful(w, now) ==
    /\ at[w] = "ready"
    /\ Advance(w, "loaded")
    /\ said' = [said EXCEPT ![w] = [BlankRow EXCEPT !["last_proactive_at"] = now]]
    /\ draft' = [draft EXCEPT ![w] = [BlankRow EXCEPT !["focus"] = pad["focus"],
                                                      !["open_summary"] = pad["open_summary"],
                                                      !["last_proactive_at"] = now]]
    /\ UNCHANGED <<pad, behind>>

(* mark_proactive after a follow-up.                                       *)
MarkProactive(w, now) ==
    /\ at[w] = "ready"
    /\ Advance(w, "loaded")
    /\ said' = [said EXCEPT ![w] = [BlankRow EXCEPT !["last_proactive_at"] = now]]
    /\ draft' = [draft EXCEPT ![w] = [pad EXCEPT !["last_proactive_at"] = now]]
    /\ UNCHANGED <<pad, behind>>

(* save_scratchpad reads once more, and keeps a stamp that nobody replaces.*)
Reload(w) ==
    /\ at[w] = "loaded"
    /\ Advance(w, "reloaded")
    /\ draft' = [draft EXCEPT ![w]["last_proactive_at"] = Or(@, pad["last_proactive_at"])]
    /\ UNCHANGED <<pad, said, behind>>

(* save_scratchpad puts.                                                   *)
Save(w) ==
    /\ at[w] = "reloaded"
    /\ Advance(w, "done")
    /\ Puts(draft[w], {w})
    /\ UNCHANGED <<draft, said>>

(* The database raises; both callers go on without.                        *)
SaveFails(w) ==
    /\ at[w] \in {"loaded", "reloaded"}
    /\ Advance(w, "failed")
    /\ UNCHANGED <<pad, draft, said, behind>>

(* _clear_memory.                                                          *)
ClearPad ==
    /\ pad # BlankRow
    /\ Puts(BlankRow, {})
    /\ UNCHANGED <<at, draft, said>>

PadInit ==
    /\ pad = BlankRow
    /\ at = [w \in Writers |-> "ready"]
    /\ draft = [w \in Writers |-> BlankRow]
    /\ said = draft
    /\ behind = [w \in Writers |-> {}]

PadNext ==
    \/ \E w \in OwnerTurns, text, open \in Notes \cup {Blank}, reflect \in Reflections :
          EndTurn(w, text, open, reflect)
    \/ \E w \in Pings, now \in Notes : MarkProactive(w, now)
    \/ \E w \in Writers : Reload(w) \/ Save(w) \/ SaveFails(w)
    \/ ClearPad

PadSpec == PadInit /\ [][PadNext]_padVars

-----------------------------------------------------------------------------
(* Whoever puts the row leaves alone what it has nothing to say about: a   *)
(* field holds what the writer said, or else what it held, unless another  *)
(* put that field after the writer had read it.  The second reading makes  *)
(* this hold for the stamp of a follow-up that ran between the two.        *)
OwnFieldsOnly ==
    [][\A w \in Writers : at[w] # "done" /\ at'[w] = "done" =>
          \A f \in Fields \ behind[w] :
             pad'[f] = IF f = "focus" /\ w \in OwnerTurns THEN said[w][f]
                       ELSE Or(said[w][f], pad[f])]_padVars
=============================================================================

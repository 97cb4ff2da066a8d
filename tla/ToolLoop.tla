----------------------------- MODULE ToolLoop ------------------------------
(***************************************************************************)
(* How a turn of the model runs in its thread: core/graph.py, with the     *)
(* window that core/window.py cuts from the thread for each call.  The     *)
(* graph calls the model and the tools in turn until the model answers     *)
(* without a tool; every call appends to the thread, which LangGraph       *)
(* stores, and drops from it what the window left out.  A turn may end     *)
(* anywhere, and the next one goes on with what the thread holds.          *)
(*                                                                         *)
(* One turn at a time: turns of one thread that overlap are the matter of  *)
(* ShardTurns.                                                             *)
(***************************************************************************)
EXTENDS Naturals, Sequences, FiniteSetsExt

CONSTANTS
    Caps,            \* short_term_messages at any time, 0 being SHORT_TERM_MAX
    MaxToolRounds,   \* MAX_TOOL_ROUNDS
    RecursionLimit,  \* GRAPH_RECURSION_LIMIT
    MaxCalls,        \* tools that one message of the model calls at most
    MaxThread        \* bound: no message arrives in a thread this long

ASSUME LoopAssumption ==
    /\ Caps \subseteq Nat \ {0} /\ Caps # {} /\ IsFiniteSet(Caps)
    /\ {MaxToolRounds, RecursionLimit, MaxCalls, MaxThread} \subseteq Nat \ {0}

(* A round takes two supersteps, and one is left for the answer.           *)
ASSUME RoundsAssumption == 2 * MaxToolRounds < RecursionLimit

VARIABLES
    thread,   \* the messages of the checkpoint
    inGroup,  \* channel_type = "group"
    stage,    \* what the graph does next
    steps,    \* supersteps of this invocation
    \* History: never read by the actions.
    refusals  \* invocations in a row that the provider refused

loopVars == <<thread, inGroup, stage, steps, refusals>>

(* A human's message, an answer, one that calls tools, and a tool's result.*)
Kinds == {"human", "answer", "call", "tool"}

LoopTypeOK ==
    /\ thread \in Seq(Kinds)
    /\ inGroup \in BOOLEAN
    /\ stage \in {"idle", "agent", "tools", "answered"}
    /\ steps \in 0 .. RecursionLimit
    /\ refusals \in Nat

-----------------------------------------------------------------------------
(* The window.                                                             *)

Humans(s) == {i \in DOMAIN s : s[i] = "human"}
From(s, i) == SubSeq(s, i, Len(s))
LastHuman(s) == Max({0} \cup Humans(s))

(* trim_messages(strategy "last", start_on "human"): where the kept tail   *)
(* starts, 0 when it holds no human.                                       *)
TrimStart(s, cap) == Min({i \in Humans(s) : i > Len(s) - cap} \cup
                         IF \E i \in Humans(s) : i > Len(s) - cap THEN {} ELSE {0})

(* _align_start: back over results to their call, on to the human ahead if *)
(* only answers lie between, and else back to the human before.            *)
AlignStart(s, start) ==
    LET i == Max({1} \cup {k \in 1 .. start : s[k] # "tool"})
        ahead == {k \in i .. Len(s) : s[k] # "answer"}
    IN  IF s[i] = "answer" /\ ahead # {} /\ s[Min(ahead)] = "human" THEN Min(ahead)
        ELSE Max({1} \cup {k \in Humans(s) : k <= i})

(* Mutant: the last messages, wherever they start.                         *)
TrimShortTermBlunt(s, max) ==
    LET cap == Max({2, max})
    IN  IF Len(s) <= cap THEN s ELSE From(s, Len(s) - cap + 1)

(* trim_short_term.                                                        *)
TrimShortTerm(s, max) ==
    LET cap == Max({2, max})
        start == TrimStart(s, cap)
    IN  IF Len(s) <= cap THEN s
        ELSE From(s, AlignStart(s, IF start = 0 THEN Len(s) - cap + 1 ELSE start))

(* drop_trailing_extra_humans: of humans at the end only the last stays.   *)
DropExtraHumans(s) ==
    LET other == Max({0} \cup (DOMAIN s \ Humans(s)))
    IN  IF other >= Len(s) THEN s ELSE Append(SubSeq(s, 1, other), "human")

(* Mutant: the humans at the end go before the window is cut.              *)
WindowSwapped(s, cap) ==
    TrimShortTerm(IF inGroup THEN DropExtraHumans(s) ELSE s, cap)

(* What call_model keeps of the thread.                                    *)
Window(s, cap) ==
    LET kept == TrimShortTerm(s, cap) IN IF inGroup THEN DropExtraHumans(kept) ELSE kept

(* Mutant: only the rounds of the last messages count.                     *)
ToolRoundsOfWindow(s) ==
    LET recent == From(s, Max({1, Len(s) - Min(Caps)}))
    IN  Cardinality({i \in DOMAIN recent : recent[i] = "call"})

(* tool_rounds_since_last_human.                                           *)
ToolRounds(s) == Cardinality({i \in DOMAIN s : i > LastHuman(s) /\ s[i] = "call"})

(* What providers accept: every call is followed by its results.  Results  *)
(* come all at once, or never.                                             *)
Complete(s) == \A i \in DOMAIN s : s[i] = "call" => i < Len(s) /\ s[i + 1] = "tool"

-----------------------------------------------------------------------------
(* The graph.                                                              *)

(* handle() invokes the graph with the user's message.                     *)
Invoke ==
    /\ stage = "idle"
    /\ Len(thread) < MaxThread
    /\ thread' = Append(thread, "human")
    /\ stage' = "agent"
    /\ steps' = 0
    /\ UNCHANGED <<inGroup, refusals>>

(* call_model, with what the model makes of the window.                    *)
CallModel(cap, response) ==
    LET window == Window(thread, cap)
    IN  /\ stage = "agent" /\ steps < RecursionLimit
        /\ Complete(window)
        /\ response = "call" => ToolRounds(window) < MaxToolRounds
        /\ thread' = Append(window, response)
        /\ stage' = IF response = "call" THEN "tools" ELSE "answered"
        /\ steps' = steps + 1
        /\ refusals' = 0
        /\ UNCHANGED inGroup

(* The provider refuses the window: nothing is appended and nothing of     *)
(* what the window left out is dropped.                                    *)
ModelRefuses(cap) ==
    /\ stage = "agent" /\ steps < RecursionLimit
    /\ ~Complete(Window(thread, cap))
    /\ stage' = "idle"
    /\ refusals' = refusals + 1
    /\ UNCHANGED <<thread, inGroup, steps>>

RunTools(n) ==
    /\ stage = "tools" /\ steps < RecursionLimit
    /\ thread' = thread \o [i \in 1 .. n |-> "tool"]
    /\ stage' = "agent"
    /\ steps' = steps + 1
    /\ UNCHANGED <<inGroup, refusals>>

(* The time for the turn is over, the provider or a tool raises, or the    *)
(* process dies: the thread stays as the last superstep has left it.       *)
Interrupted ==
    /\ stage \in {"agent", "tools"}
    /\ stage' = "idle"
    /\ UNCHANGED <<thread, inGroup, steps, refusals>>

(* The reply goes out; one of silence is taken back by _drop_silence_ai.   *)
Replies(silent) ==
    /\ stage = "answered"
    /\ silent => inGroup
    /\ thread' = IF silent THEN SubSeq(thread, 1, Len(thread) - 1) ELSE thread
    /\ stage' = "idle"
    /\ UNCHANGED <<inGroup, steps, refusals>>

(* _wipe_graph_thread.                                                     *)
WipeThread ==
    /\ stage = "idle" /\ thread # <<>>
    /\ thread' = <<>>
    /\ refusals' = 0
    /\ UNCHANGED <<inGroup, stage, steps>>

LoopInit ==
    /\ thread = <<>>
    /\ inGroup \in BOOLEAN
    /\ stage = "idle"
    /\ steps = 0
    /\ refusals = 0

LoopNext ==
    \/ Invoke
    \/ \E cap \in Caps, response \in {"answer", "call"} : CallModel(cap, response)
    \/ \E cap \in Caps : ModelRefuses(cap)
    \/ \E n \in 1 .. MaxCalls : RunTools(n)
    \/ Interrupted
    \/ \E silent \in BOOLEAN : Replies(silent)
    \/ WipeThread

LoopSpec == LoopInit /\ [][LoopNext]_loopVars

-----------------------------------------------------------------------------
(* Properties.                                                             *)

(* Whatever was interrupted before, taken back or set anew, the window of  *)
(* each call starts with a human's message, holds the call of every result *)
(* and all of this turn, and is longer than it may be only when this turn  *)
(* alone is.                                                               *)
WindowWellFormed ==
    stage = "agent" => \A cap \in Caps :
        LET window == Window(thread, cap)
        IN  /\ window # <<>> /\ window[1] = "human"
            /\ \A i \in DOMAIN window : window[i] = "tool" => window[i - 1] \in {"call", "tool"}
            /\ From(window, LastHuman(window)) = From(thread, LastHuman(thread))
            /\ Len(window) <= Max({2, cap}) \/ Cardinality(Humans(window)) = 1

(* The model is asked for an answer without tools before LangGraph stops   *)
(* the graph: the rounds are counted in the window, and the window never   *)
(* cuts off a round of this turn.                                          *)
AnswersWithinLimit == stage \in {"agent", "tools"} => steps < RecursionLimit

(* A turn that ends inside its tools leaves a call without results in the  *)
(* thread, and the provider refuses the window for it.  The refusals end   *)
(* by themselves, once the messages that failed have filled the window up  *)
(* to the one whose call it was.                                           *)
RefusalsEnd == refusals + 2 <= Max({2} \cup Caps)
=============================================================================

---------------------------- MODULE BlockStream ----------------------------
(***************************************************************************)
(* The grammar of an Anthropic event stream as core/adapters/              *)
(* anthropic_stream.py documents it: content blocks are opened, given      *)
(* deltas and closed, and message_stop comes only when every block is      *)
(* closed.  An index is used for one block.                                *)
(***************************************************************************)
EXTENDS Naturals, Sequences

CONSTANTS Blocks,   \* indices of content blocks
          Deltas    \* what a delta may carry

VARIABLES block,    \* of each index: its status and the deltas it was given
          end,      \* how the stream ended, "no" while it has not
          lenient   \* a delta may come after its block was closed

contractVars == <<block, end, lenient>>

Init ==
    /\ block = [i \in Blocks |-> [status |-> "none", deltas |-> <<>>]]
    /\ end = "no"
    /\ lenient \in BOOLEAN

Open(i) ==
    /\ end = "no" /\ block[i].status = "none"
    /\ block' = [block EXCEPT ![i].status = "open"]
    /\ UNCHANGED <<end, lenient>>

Add(i, d) ==
    /\ end = "no"
    /\ block[i].status = "open" \/ (lenient /\ block[i].status = "closed")
    /\ block' = [block EXCEPT ![i].deltas = Append(@, d)]
    /\ UNCHANGED <<end, lenient>>

Close(i) ==
    /\ end = "no" /\ block[i].status = "open"
    /\ block' = [block EXCEPT ![i].status = "closed"]
    /\ UNCHANGED <<end, lenient>>

MessageStop ==
    /\ end = "no" /\ \A i \in Blocks : block[i].status # "open"
    /\ end' = "stopped"
    /\ UNCHANGED <<block, lenient>>

BreakOff ==
    /\ end = "no"
    /\ end' \in {"error", "raised", "dropped"}
    /\ UNCHANGED <<block, lenient>>

Next ==
    \/ \E i \in Blocks : Open(i) \/ Close(i) \/ (\E d \in Deltas : Add(i, d))
    \/ MessageStop
    \/ BreakOff

Spec == Init /\ [][Next]_contractVars
=============================================================================

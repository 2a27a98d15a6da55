--------------------------- MODULE StreamContract ---------------------------
(***************************************************************************)
(* What the streaming endpoint owes its client and its audit log, whatever *)
(* the queue and the tasks do in between: events are handed over in order, *)
(* at most one audit row is written, it is written before the response is  *)
(* over, and a response that ends cleanly has its row.                     *)
(***************************************************************************)
EXTENDS Naturals, Sequences

CONSTANT Status

VARIABLES
    body,      \* "open" until the response is over, one way or the other
    handed,    \* number of events the client side was handed, in order
    records    \* statuses of the audit rows

vars == <<body, handed, records>>

Init == body = "open" /\ handed = 0 /\ records = <<>>

Hand ==
    /\ body = "open"
    /\ handed' = handed + 1
    /\ UNCHANGED <<body, records>>

Record ==
    /\ body = "open" /\ records = <<>>
    /\ \E s \in Status : records' = <<s>>
    /\ UNCHANGED <<body, handed>>

Complete ==
    /\ body = "open" /\ records # <<>>
    /\ body' = "complete"
    /\ UNCHANGED <<handed, records>>

Abort ==
    /\ body = "open"
    /\ body' = "aborted"
    /\ UNCHANGED <<handed, records>>

Next == Hand \/ Record \/ Complete \/ Abort

Spec == Init /\ [][Next]_vars
=============================================================================

---------------------------- MODULE MCRulesCache ----------------------------
(***************************************************************************)
(* RulesCache on two workers: one that serves two requests and a writer,   *)
(* and one whose writer changes the rules behind its back.                 *)
(***************************************************************************)
EXTENDS RulesCache, TLC

CONSTANTS r1, r2, t1, t2, w1, w2

\* The tasks and where they run.
TheRequests == {r1, r2}
TheWriters == {t1, t2}
TheHomes == [t \in {r1, r2, t1} |-> w1] @@ [t \in {t2} |-> w2]

\* The rules there are at first have a quota condition, or those the first write
\* makes, or none.
OldQuota == {0}
FirstQuota == {1}
NoQuota == {}
=============================================================================

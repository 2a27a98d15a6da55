----------------------------- MODULE CliSession -----------------------------
(***************************************************************************)
(* The command line client (cli/client.py, cli/main.py) on top of          *)
(* Sessions: one command at a time, with the session file, the header of   *)
(* its client and the refresh it makes of itself when it is answered 401.  *)
(***************************************************************************)
EXTENDS Sessions

VARIABLE cli

cliVars == <<vars, cli>>

Idle == [pc |-> "idle", kind |-> "use", file |-> None, header |-> None, body |-> None,
         refreshed |-> FALSE, slot |-> None, mine |-> {}, left |-> FALSE]

CliInit ==
    /\ Init
    /\ \E p \in Pairs : /\ Redeemable(p)
                        /\ cli = [Idle EXCEPT !.file = p, !.mine = {p}]

\* get_client: the header is that of the session, and logout puts the refresh
\* token of the session in the body.
CliCommand(kind) ==
    /\ cli.pc = "idle" /\ cli.file # None
    /\ cli' = [cli EXCEPT !.pc = "send", !.kind = kind, !.header = cli.file,
                          !.body = IF kind = "logout" THEN cli.file ELSE None,
                          !.refreshed = FALSE]
    /\ UNCHANGED vars

\* super().request, the first time and after the refresh, with the same body.
CliSend(r) ==
    /\ cli.pc = "send"
    /\ Call(r, cli.kind, cli.header, cli.body, None, None, {})
    /\ cli' = [cli EXCEPT !.pc = "sent", !.slot = r]

Answered == req[cli.slot].pc = "done"
Result == req[cli.slot].result

\* A 401, once: the refresh token of the session is posted.
CliRefresh(r) ==
    /\ cli.pc = "sent" /\ Answered /\ Result = "unauthorized" /\ ~cli.refreshed
    /\ Refresh(r, cli.file)
    /\ cli' = [cli EXCEPT !.pc = "refreshing", !.slot = r]

\* The new pair is saved and the request is sent again.
CliRefreshed ==
    /\ cli.pc = "refreshing" /\ Answered /\ Result = "ok"
    /\ cli' = [cli EXCEPT !.pc = "send", !.file = req[cli.slot].out, !.header = req[cli.slot].out,
                          !.mine = @ \cup {req[cli.slot].out}, !.refreshed = TRUE]
    /\ UNCHANGED vars

\* The command ends.  logout removes the session file whatever it was answered.
CliEnds ==
    /\ \/ cli.pc = "sent" /\ Answered /\ (Result = "unauthorized" => cli.refreshed)
       \/ cli.pc = "refreshing" /\ Answered /\ Result # "ok"
    /\ cli' = [Idle EXCEPT !.mine = cli.mine,
                           !.file = IF cli.kind = "logout" THEN None ELSE cli.file,
                           !.left = cli.kind = "logout" /\ cli.pc = "sent" /\ Result = "ok"]
    /\ UNCHANGED vars

CliNext ==
    \/ \E kind \in {"use", "logout"} : CliCommand(kind)
    \/ \E r \in Requests : CliSend(r) \/ CliRefresh(r)
    \/ CliRefreshed \/ CliEnds
    \/ /\ UNCHANGED cli
       /\ (\E r \in Requests : RequestStep(r) \/ Fails(r)) \/ Environment

CliSpec == CliInit /\ [][CliNext]_cliVars

\* Once a logout has been answered 204, no refresh token the client was ever
\* given can be redeemed ("This revokes your refresh token on the server and
\* removes the local session file", docs/user-guide.md).
LogoutEndsSession == cli.left => \A p \in cli.mine : ~Redeemable(p)
=============================================================================

---------------------------- MODULE MCCliSession ----------------------------
(* CliSession for one user with a session. *)
EXTENDS CliSession

CONSTANTS u1, p1, p2, p3, r1, r2, r3, manage, invoke

MCInit ==
    /\ users = [u \in Users |-> [status |-> "active", perms |-> Permissions]]
    /\ cred = [c \in Credentials |-> IF c = p1 THEN Issued(u1, Management) ELSE Unissued]
    /\ login = [s \in States |-> [row |-> "gone", expired |-> FALSE]]
    /\ CliInit

MCSpec == MCInit /\ [][CliNext]_cliVars
=============================================================================

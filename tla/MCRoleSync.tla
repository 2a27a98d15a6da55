----------------------------- MODULE MCRoleSync -----------------------------
(* RoleSync for two requests and a login, and a few kinds of deployment. *)
EXTENDS RoleSync

CONSTANTS r1, r2, l1

TheRequests == {r1, r2}
TheLogins == {l1}

\* The provider rotates or not; nothing, only our side, or everything may fail.
SomeHabits ==
    {[rotates |-> FALSE, faults |-> {}],
     [rotates |-> FALSE, faults |-> {"server", "idtoken"}],
     [rotates |-> TRUE, faults |-> {"provider", "server", "idtoken"}]}
Rotation == {[rotates |-> TRUE, faults |-> {}]}
=============================================================================

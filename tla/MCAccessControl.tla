-------------------------- MODULE MCAccessControl --------------------------
(* AccessControl for three users, two of them administrators. *)
EXTENDS AccessControl, TLC

CONSTANTS u1, u2, u3, admins, team, m1, m2, secret, rule, manage, invoke, alias, r1, r2

\* m2 answers to an alias, and to the name of m1.
ThePatterns == [m \in Models |-> IF m = m2 THEN {alias, m1} ELSE {}]

TheBodies ==
    {{<<"member", u3, admins>>, <<"member", u1, team>>},
     {<<"userPerm", u3, manage>>, <<"userPerm", u3, invoke>>},
     {<<"groupPerm", team, manage>>},
     {<<"direct", u1, m2>>, <<"direct", u3, m2>>},
     {<<"viaGroup", team, m1>>, <<"viaGroup", admins, m1>>}}

\* Two administrators by their group and a member of the team, or an
\* administrator of each kind and an account that is still to be created, or an
\* administrator who is none by the group, which is empty.
MCInit ==
    /\ \/ /\ status = [x \in Rows |-> IF x \in {secret, rule} THEN "new" ELSE "active"]
          /\ links = {<<"member", u1, admins>>, <<"member", u2, admins>>, <<"member", u3, team>>,
                      <<"groupPerm", admins, manage>>, <<"viaGroup", team, m1>>}
       \/ /\ status = [x \in Rows |-> IF x \in {secret, rule, u3} THEN "new" ELSE "active"]
          /\ links = {<<"member", u1, admins>>, <<"userPerm", u2, manage>>, <<"direct", u1, m2>>,
                      <<"groupPerm", admins, manage>>, <<"viaGroup", team, m1>>}
       \/ /\ status = [x \in Rows |-> IF x \in {secret, rule} THEN "new" ELSE "active"]
          /\ links = {<<"userPerm", u2, manage>>, <<"direct", u1, m2>>}
    /\ Init

\* The requests differ in nothing; all that is checked is safety.
TheSymmetry == Permutations(Requests)

MCSpec == MCInit /\ [][Next]_vars
=============================================================================

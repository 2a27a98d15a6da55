----------------------------- MODULE MCSessions -----------------------------
(* Sessions for a local user and one who logs in with a provider. *)
EXTENDS Sessions

CONSTANTS u1, u2, p1, p2, p3, t1, t2, t3, s1, r1, r2, manage, invoke

Member(P) == [status |-> "active", perms |-> P]
Absent == [status |-> "gone", perms |-> {}]

\* Either u1 has a session and an API token and u2 a token, and nobody is about
\* to log in with the provider; or u2, with or without an account and a
\* session, is.
MCInit ==
    /\ \/ /\ users = [u \in Users |-> Member(IF u = u1 THEN Permissions ELSE Gateway)]
          /\ cred = [c \in Credentials |-> CASE c = p1 -> Issued(u1, Management)
                                              [] c = t1 -> Issued(u2, Gateway)
                                              [] OTHER -> Unissued]
          /\ login = [s \in States |-> [row |-> "gone", expired |-> FALSE]]
       \/ /\ login = [s \in States |-> [row |-> "unused", expired |-> FALSE]]
          /\ \/ /\ users = [u \in Users |-> Absent]
                /\ cred = [c \in Credentials |-> Unissued]
             \/ /\ users = [u \in Users |-> IF u = u1 THEN Absent ELSE Member(Permissions)]
                /\ cred = [c \in Credentials |-> IF c = p1 THEN Issued(u2, Management) ELSE Unissued]
    /\ Init

MCSpec == MCInit /\ [][Next]_vars /\ \A r \in Requests : WF_vars(RequestStep(r))
=============================================================================

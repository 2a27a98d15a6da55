------------------------------ MODULE RoleSync ------------------------------
(***************************************************************************)
(* Background role synchronisation of one SSO user (services/auth_service, *)
(* maybe_refresh_sso_roles, called by every authenticated request through  *)
(* api/deps.py) against logins of the same user (provision_sso_user).      *)
(*                                                                         *)
(* A request loads the user row into its session, finds the last sync too  *)
(* old, locks the row, trades the stored refresh token at the identity     *)
(* provider (external) for new tokens and writes what it learnt.  The      *)
(* session's identity map hands SELECT ... FOR UPDATE the object loaded    *)
(* before the lock, so what a request reads under it is its first copy.    *)
(*                                                                         *)
(* Refresh tokens are numbers in the order the provider issued them.  The  *)
(* roles it grants are a version; the SSO-managed memberships are the      *)
(* version they were derived from, or DefaultsOnly.                        *)
(***************************************************************************)
EXTENDS Integers

CONSTANTS
    UserRequests, \* requests authenticated as the user
    Logins,       \* OIDC callbacks of the user
    Habits,       \* the kinds of provider and of deployment to consider
    MaxTokens, MaxRoles

ASSUME RequestsAssumption == UserRequests \cap Logins = {}
ASSUME BoundsAssumption == MaxTokens \in Nat \ {0} /\ MaxRoles \in Nat
ASSUME HabitsAssumption ==
    Habits \subseteq [rotates : BOOLEAN, faults : SUBSET {"provider", "server", "idtoken"}]

NoToken == 0
DefaultsOnly == -1
NoOne == "no one"
ASSUME NoOneAssumption == NoOne \notin UserRequests

VARIABLES
    habit,    \* the kind of provider and deployment this is, which never changes
    issued,   \* refresh tokens the provider has issued
    live,     \* those it still accepts
    idpRoles, \* the roles it grants the user
    token,    \* users.idp_refresh_token
    fresh,    \* users.last_role_sync_at is within role_refresh_interval_seconds
    groups,   \* the user's SSO-managed group memberships
    rowLock,  \* who holds the FOR UPDATE lock on the user row
    pc,       \* where each request and login is suspended
    copy,     \* the refresh token in the user object of a request's session
    answer    \* what the provider answered

idpVars == <<habit, issued, live, idpRoles>>
rowVars == <<token, fresh, groups>>
syncVars == <<idpVars, rowVars, rowLock, pc, copy, answer>>

Tasks == UserRequests \cup Logins
Tokens == 1..MaxTokens
NoAnswer == [token |-> NoToken, roles |-> 0]

\* The provider answers a refresh with a new refresh token; what may go wrong.
Rotates == habit.rotates
Faults == habit.faults

SyncInit ==
    /\ habit \in Habits
    /\ issued = 1 /\ live = {1} /\ idpRoles = 0
    /\ token = 1 /\ fresh = TRUE /\ groups = 0
    /\ rowLock = NoOne
    /\ pc = [t \in Tasks |-> "idle"]
    /\ copy = [r \in UserRequests |-> NoToken]
    /\ answer = [t \in Tasks |-> NoAnswer]

-----------------------------------------------------------------------------
\* The request is done with the user row: its transaction ends.
Leave(r) ==
    /\ pc' = [pc EXCEPT ![r] = "idle"]
    /\ rowLock' = NoOne
    /\ copy' = [copy EXCEPT ![r] = NoToken]
    /\ answer' = [answer EXCEPT ![r] = NoAnswer]

\* _authenticate loads the user; a sync is due.  (One that is not due, or has no
\* token, changes nothing.)
Arrive(r) ==
    /\ pc[r] = "idle" /\ token # NoToken /\ ~fresh
    /\ copy' = [copy EXCEPT ![r] = token]
    /\ pc' = [pc EXCEPT ![r] = "locking"]
    /\ UNCHANGED <<idpVars, rowVars, rowLock, answer>>

\* Slip: the row is read again without FOR UPDATE.
UnlockedLock(r) ==
    /\ pc[r] = "locking"
    /\ rowLock' = r
    /\ pc' = [pc EXCEPT ![r] = "calling"]
    /\ UNCHANGED <<idpVars, rowVars, copy, answer>>

\* SELECT ... FOR UPDATE returns.  The double-check looks at the object the first
\* check looked at, so it never finds that another request has refreshed.
Lock(r) ==
    /\ pc[r] = "locking" /\ rowLock = NoOne
    /\ rowLock' = r
    /\ pc' = [pc EXCEPT ![r] = "calling"]
    /\ UNCHANGED <<idpVars, rowVars, copy, answer>>

\* The provider accepts the token; NoToken stands for an answer without a new one.
ProviderAnswers(r) ==
    /\ pc[r] = "calling" /\ copy[r] \in live
    /\ IF Rotates
       THEN /\ issued < MaxTokens
            /\ issued' = issued + 1
            /\ live' = (live \ {copy[r]}) \cup {issued + 1}
            /\ answer' = [answer EXCEPT ![r] = [token |-> issued + 1, roles |-> idpRoles]]
       ELSE /\ answer' = [answer EXCEPT ![r] = [token |-> NoToken, roles |-> idpRoles]]
            /\ UNCHANGED <<issued, live>>
    /\ pc' = [pc EXCEPT ![r] = "answered"]
    /\ UNCHANGED <<habit, idpRoles, rowVars, rowLock, copy>>

\* The provider refuses the token or cannot be reached: the stored token is cleared.
ProviderRefuses(r) ==
    /\ pc[r] = "calling"
    /\ copy[r] \notin live \/ "provider" \in Faults
    /\ token' = NoToken /\ fresh' = TRUE
    /\ Leave(r)
    /\ UNCHANGED <<idpVars, groups>>

\* Slip: the answer's refresh token is stored whether there is one or not.
BlindSync(r) ==
    /\ pc[r] = "answered"
    /\ token' = answer[r].token
    /\ groups' = answer[r].roles
    /\ fresh' = TRUE
    /\ Leave(r)
    /\ UNCHANGED idpVars

\* Slip: the stamp is written, the memberships are not.
StampOnlySync(r) ==
    /\ pc[r] = "answered"
    /\ token' = IF answer[r].token = NoToken THEN token ELSE answer[r].token
    /\ fresh' = TRUE
    /\ Leave(r)
    /\ UNCHANGED <<idpVars, groups>>

\* The rotated token, the memberships and the stamp are committed.  A column the
\* session did not change is left as it is in the row.
SyncCommits(r) ==
    /\ pc[r] = "answered"
    /\ token' = IF answer[r].token = NoToken THEN token ELSE answer[r].token
    /\ groups' \in {answer[r].roles} \cup IF "idtoken" \in Faults THEN {DefaultsOnly} ELSE {}
    /\ fresh' = TRUE
    /\ Leave(r)
    /\ UNCHANGED idpVars

\* _sync_user_groups raises, the request is cancelled or its worker dies: the
\* transaction is rolled back, whatever the provider did.
SyncAborts(r) ==
    /\ pc[r] \in {"calling", "answered"} /\ "server" \in Faults
    /\ Leave(r)
    /\ UNCHANGED <<idpVars, rowVars>>

\* A callback has exchanged its code for tokens ...
LoginExchanges(l) ==
    /\ pc[l] = "idle" /\ issued < MaxTokens
    /\ issued' = issued + 1 /\ live' = live \cup {issued + 1}
    /\ answer' = [answer EXCEPT ![l] = [token |-> issued + 1, roles |-> idpRoles]]
    /\ pc' = [pc EXCEPT ![l] = "provision"]
    /\ UNCHANGED <<habit, idpRoles, rowVars, rowLock, copy>>

\* ... and writes them, its UPDATE waiting for the row ...
LoginCommits(l) ==
    /\ pc[l] = "provision" /\ rowLock = NoOne
    /\ token' = answer[l].token /\ groups' = answer[l].roles /\ fresh' = TRUE
    /\ pc' = [pc EXCEPT ![l] = "idle"]
    /\ answer' = [answer EXCEPT ![l] = NoAnswer]
    /\ UNCHANGED <<idpVars, rowLock, copy>>

\* ... or fails.
LoginAborts(l) ==
    /\ pc[l] = "provision" /\ "server" \in Faults
    /\ pc' = [pc EXCEPT ![l] = "idle"]
    /\ answer' = [answer EXCEPT ![l] = NoAnswer]
    /\ UNCHANGED <<idpVars, rowVars, rowLock, copy>>

\* The provider's administrator grants or revokes a role.
RolesChange ==
    /\ idpRoles < MaxRoles
    /\ idpRoles' = idpRoles + 1
    /\ UNCHANGED <<habit, issued, live, rowVars, rowLock, pc, copy, answer>>

\* role_refresh_interval_seconds have passed since the last sync.
IntervalElapses ==
    /\ fresh
    /\ fresh' = FALSE
    /\ UNCHANGED <<idpVars, token, groups, rowLock, pc, copy, answer>>

SyncStep(r) ==
    \/ Lock(r) \/ ProviderAnswers(r) \/ ProviderRefuses(r)
    \/ SyncCommits(r) \/ SyncAborts(r)

LoginStep(l) == LoginExchanges(l) \/ LoginCommits(l) \/ LoginAborts(l)

SyncNext ==
    \/ \E r \in UserRequests : Arrive(r) \/ SyncStep(r)
    \/ \E l \in Logins : LoginStep(l)
    \/ RolesChange \/ IntervalElapses

\* The database grants the row lock in the order it is asked for, the provider
\* answers or times out, and time passes.
Fairness ==
    /\ \A r \in UserRequests : SF_syncVars(Lock(r)) /\ WF_syncVars(SyncStep(r))
    /\ \A l \in Logins : SF_syncVars(LoginCommits(l))
    /\ WF_syncVars(IntervalElapses)

SyncSpec == SyncInit /\ [][SyncNext]_syncVars /\ Fairness

-----------------------------------------------------------------------------
\* Every variable has its type, and the row is locked by the request that talks to
\* the provider and by no other.
SyncTypeOK ==
    /\ habit \in Habits
    /\ issued \in Tokens /\ live \subseteq Tokens /\ idpRoles \in 0..MaxRoles
    /\ token \in Tokens \cup {NoToken} /\ fresh \in BOOLEAN
    /\ groups \in 0..MaxRoles \cup {DefaultsOnly}
    /\ rowLock \in UserRequests \cup {NoOne}
    /\ pc \in [Tasks -> {"idle", "locking", "calling", "answered", "provision"}]
    /\ copy \in [UserRequests -> Tokens \cup {NoToken}]
    /\ answer \in [Tasks -> [token : Tokens \cup {NoToken}, roles : 0..MaxRoles]]
    /\ \A r \in UserRequests : pc[r] \in {"calling", "answered"} <=> rowLock = r

\* The FOR UPDATE lock: the roles a sync is about to write are no older than the
\* memberships it replaces, so that a sync never undoes a newer sync or login.
SyncIsNewest == \A r \in UserRequests : pc[r] = "answered" => groups <= answer[r].roles

\* A user of a provider that does not rotate and does not fail never loses the
\* stored refresh token, however requests and logins race.
SteadyTokenKept == ~Rotates /\ "provider" \notin Faults => token # NoToken

\* The docstring of maybe_refresh_sso_roles ("SELECT FOR UPDATE with double-check to
\* prevent concurrent races on refresh token rotation"): nor does one whose provider
\* rotates.  Not so: the second of two requests spends the token the first has spent,
\* and clears the one the first has stored.
RotatedTokenKept == Faults = {} => token # NoToken

\* When nothing fails, a role granted or revoked at the provider reaches the
\* memberships of a user who keeps sending requests.
RequestsKeepComing == \A r \in UserRequests : WF_syncVars(Arrive(r))
RolesLand ==
    RequestsKeepComing /\ [](~Rotates /\ Faults = {})
        => (groups # idpRoles ~> groups = idpRoles)
=============================================================================

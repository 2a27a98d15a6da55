------------------------------ MODULE Sessions ------------------------------
(***************************************************************************)
(* Logins, refreshes, logouts, API tokens and authenticated calls          *)
(* (api/auth.py, api/me.py, api/deps.py, services/auth_service.py,         *)
(* services/oidc_state_service.py), several requests at a time, while      *)
(* administrators change permissions, deactivate and delete users and time *)
(* passes.  A request is suspended at each query, and each query reads     *)
(* what is committed by then.                                              *)
(*                                                                         *)
(* A pair is the access JWT and the refresh token minted together; an API  *)
(* token is a row of tokens and the JWT that carries its id.  Permissions  *)
(* reach a user through groups or directly: here they are one set.         *)
(*                                                                         *)
(* since remembers, for every request, which credentials were good when it *)
(* began and what users have held and been since; it is read by the        *)
(* properties alone.  A request is used once.                              *)
(***************************************************************************)
EXTENDS Naturals, FiniteSets

CONSTANTS
    Users, SSOUsers,      \* the users; those who log in with a provider
    Management, Gateway,  \* the permissions of the two categories
    TokenAdmin,           \* token.create and token.delete
    Pairs, ApiTokens,     \* what can be issued
    States,               \* the states of the authorization code flow
    Requests, None,
    Grants,               \* the sets of permissions a user is given
    Needs, Asks,          \* permissions needed; sets of them asked for in a token
    MaxChanges

Permissions == Management \cup Gateway
Credentials == Pairs \cup ApiTokens

ASSUME SetAssumption ==
    /\ SSOUsers \subseteq Users /\ TokenAdmin \in Management
    /\ Management \cap Gateway = {} /\ Pairs \cap ApiTokens = {}
    /\ States \cap Credentials = {}
    /\ Needs \subseteq Permissions /\ Grants \subseteq SUBSET Permissions
    /\ Asks \subseteq (SUBSET Permissions) \ {{}} /\ MaxChanges \in Nat
    /\ None \notin Users \cup Credentials \cup States \cup Permissions

VARIABLES
    users,  \* status and permissions of every user
    cred,   \* the credentials and their rows
    login,  \* the rows of oidc_states
    req,    \* the requests
    since,  \* ghost
    changes \* what administrators and time have done, up to MaxChanges

vars == <<users, cred, login, req, since, changes>>

Labels == {"new", "load", "drop", "resolve", "commit", "pop", "idp", "check",
           "user", "perms", "logout", "leave", "mint", "sign", "revoke", "cancel", "done"}
Kinds == {"login", "refresh", "callback", "use", "logout", "mint", "revoke"}
Calls == {"use", "logout", "mint", "revoke"}
Results == {"none", "ok", "unauthorized", "forbidden", "invalid", "notfound", "failed"}

Unissued == [owner |-> None, perms |-> {}, row |-> FALSE, spent |-> FALSE,
             aged |-> FALSE, lapsed |-> FALSE]

Unused == [pc |-> "new", kind |-> "login", cred |-> None, arg |-> None, user |-> None,
           target |-> None, need |-> None, perms |-> {}, out |-> None, result |-> "none"]

Nothing == [held |-> [u \in Users |-> {}], active |-> {}, good |-> {}, fresh |-> {}]

\* A management JWT carries management permissions only, a token those of one
\* category (create_management_tokens, create_token).
Allowed(c, P) ==
    IF c \in Pairs THEN P \subseteq Management
    ELSE P # {} /\ (P \subseteq Management \/ P \subseteq Gateway)

Init ==
    /\ users \in [Users -> [status : {"active", "inactive", "gone"}, perms : SUBSET Permissions]]
    /\ \A u \in Users : users[u].status = "gone" => users[u].perms = {}
    /\ cred \in [Credentials ->
           {Unissued} \cup [owner : {u \in Users : users[u].status # "gone"},
                            perms : SUBSET Permissions, row : {TRUE},
                            spent : BOOLEAN, aged : {FALSE}, lapsed : {FALSE}]]
    /\ \A c \in Credentials : cred[c].owner # None => Allowed(c, cred[c].perms)
    /\ login \in [States -> [row : {"unused", "gone"}, expired : {FALSE}]]
    /\ req = [r \in Requests |-> Unused]
    /\ since = [r \in Requests |-> Nothing]
    /\ changes = 0

-----------------------------------------------------------------------------
Active(u) == users[u].status = "active"

\* The JWT of c is within its exp, and its row, if there is one, is active and
\* not expired (_authenticate, token_exists, validate_token).
Accepted(c) ==
    /\ cred[c].owner # None /\ ~cred[c].lapsed
    /\ c \in ApiTokens /\ cred[c].row => ~cred[c].spent /\ ~cred[c].aged

\* A slip of Unrevoked: the row is enough.
AnyRow(p) == cred[p].row

\* The row of a refresh token is there and not revoked.
Unrevoked(p) == cred[p].row /\ ~cred[p].spent

Redeemable(p) == Unrevoked(p) /\ ~cred[p].aged

Open == [row |-> "open", expired |-> FALSE]

\* What a request that begins now finds.
Snapshot ==
    [held |-> [u \in Users |-> users[u].perms],
     active |-> {u \in Users : Active(u)},
     good |-> {c \in Credentials : ~cred[c].lapsed
                   /\ (c \in ApiTokens => ~cred[c].spent /\ ~cred[c].aged)},
     fresh |-> {p \in Pairs : cred[p].row /\ ~cred[p].spent /\ ~cred[p].aged} \cup {s \in States : login[s] = Open}]

\* The requests in flight see that u holds P, and that it is active.
Witness(u, P, active) ==
    since' = [r \in Requests |->
        IF req[r].pc \in {"new", "done"} THEN since[r]
        ELSE [since[r] EXCEPT !.held[u] = @ \cup P,
                              !.active = IF active THEN @ \cup {u} ELSE @]]

To(r, l) == req' = [req EXCEPT ![r].pc = l] /\ UNCHANGED since
ToWith(r, l, P) == req' = [req EXCEPT ![r].pc = l, ![r].perms = P] /\ UNCHANGED since
Deliver(r, c) ==
    /\ req' = [req EXCEPT ![r].pc = "done", ![r].result = "ok", ![r].out = c]
    /\ UNCHANGED since
\* Of a request that is refused only the refusal is kept.
Refuse(r, result) ==
    /\ req' = [req EXCEPT ![r] = [Unused EXCEPT !.pc = "done", !.result = result]]
    /\ since' = [since EXCEPT ![r] = Nothing]

\* A request that is not refused at its first query goes on as fields say.
Begin(r, refusal, fields) ==
    /\ req[r].pc = "new"
    /\ IF refusal # "none" THEN Refuse(r, refusal)
       ELSE req' = [req EXCEPT ![r] = fields] /\ since' = [since EXCEPT ![r] = Snapshot]
    /\ UNCHANGED <<users, cred, login, changes>>
\* A slip of StateLocked: the row is locked when it is read, by a session of
\* its own.
LockedByReader(s) == \E r \in Requests : req[r].pc \in {"pop", "idp"} /\ req[r].cred = s

\* The row of refresh token p is locked by the UPDATE of a refresh that has not
\* committed, that of state s by the DELETE of a callback.
PairLocked(p) == \E r \in Requests : req[r].pc = "commit" /\ req[r].kind = "refresh" /\ req[r].cred = p
StateLocked(s) == \E r \in Requests : req[r].pc = "idp" /\ req[r].cred = s
-----------------------------------------------------------------------------
\* authenticate_local: right is whether the password verifies.
Login(r, u, right) ==
    LET known == right /\ u \notin SSOUsers /\ users[u].status # "gone" IN
    Begin(r, IF ~known THEN "unauthorized" ELSE IF Active(u) THEN "none" ELSE "forbidden",
          [Unused EXCEPT !.user = u, !.pc = "resolve"])

\* refresh_management_token reads the row of the refresh token.
Refresh(r, p) ==
    Begin(r, IF Redeemable(p) THEN "none" ELSE "unauthorized",
          [Unused EXCEPT !.kind = "refresh", !.cred = p, !.user = cred[p].owner, !.pc = "load"])

\* A slip of RefreshLoad: a deactivated user is a user.
LoadAnyway(r) ==
    /\ req[r].pc = "load"
    /\ To(r, IF users[req[r].user].status # "gone" THEN "resolve" ELSE "drop")
    /\ UNCHANGED <<users, cred, login, changes>>

RefreshLoad(r) ==
    /\ req[r].pc = "load"
    /\ To(r, IF Active(req[r].user) THEN "resolve" ELSE "drop")
    /\ UNCHANGED <<users, cred, login, changes>>

\* The user is gone or inactive: the token is revoked all the same.
RefreshDrop(r) ==
    LET p == req[r].cred IN
    /\ req[r].pc = "drop" /\ ~PairLocked(p)
    /\ cred' = [cred EXCEPT ![p].spent = @ \/ cred[p].row]
    /\ Refuse(r, IF cred[p].row THEN "unauthorized" ELSE "failed")
    /\ UNCHANGED <<users, login, changes>>

\* resolve_user_permissions, filtered to management.  In a refresh its first
\* query flushes the revocation, which waits for the row and fails without it.
Resolve(r) ==
    /\ req[r].pc = "resolve"
    /\ IF req[r].kind # "refresh"
       THEN ToWith(r, "commit", users[req[r].user].perms \cap Management)
       ELSE /\ ~PairLocked(req[r].cred)
            /\ IF cred[req[r].cred].row
               THEN ToWith(r, "commit", users[req[r].user].perms \cap Management)
               ELSE Refuse(r, "failed")
    /\ UNCHANGED <<users, cred, login, changes>>

\* The id drawn for what is issued; which of the unused ones is immaterial.
Drawn(C, c) == cred[c].owner = None /\ c = CHOOSE x \in C : cred[x].owner = None

Issued(u, P) == [Unissued EXCEPT !.owner = u, !.perms = P, !.row = TRUE]

\* The new refresh token is inserted and, in a refresh, the old one is revoked
\* with it; a user deleted meanwhile fails the foreign key.
CommitPair(r, p) ==
    /\ req[r].pc = "commit" /\ Drawn(Pairs, p)
    /\ IF users[req[r].user].status = "gone"
       THEN Refuse(r, "failed") /\ UNCHANGED cred
       ELSE /\ cred' = [c \in Credentials |->
                  IF c = p THEN Issued(req[r].user, req[r].perms)
                  ELSE IF req[r].kind = "refresh" /\ c = req[r].cred
                       THEN [cred[c] EXCEPT !.spent = TRUE] ELSE cred[c]]
            /\ Deliver(r, p)
    /\ UNCHANGED <<users, login, changes>>

-----------------------------------------------------------------------------
\* sso_authorize commits the row before it redirects.
Authorize(s) ==
    /\ login[s].row = "unused"
    /\ login' = [login EXCEPT ![s] = Open]
    /\ UNCHANGED <<users, cred, req, since, changes>>

\* pop_state reads the row.
Callback(r, s) ==
    Begin(r, IF login[s].row = "open" THEN "none" ELSE "invalid",
          [Unused EXCEPT !.kind = "callback", !.cred = s, !.pc = "pop"])

\* A slip of CallbackPop: the deletion is committed at once.
PopCommits(r) ==
    LET s == req[r].cred IN
    /\ req[r].pc = "pop" /\ ~StateLocked(s)
    /\ IF login[s].expired THEN Refuse(r, "invalid") ELSE To(r, "idp")
    /\ login' = [login EXCEPT ![s].row = "gone"]
    /\ UNCHANGED <<users, cred, changes>>

\* pop_state deletes it, after another callback that holds it; that it is no
\* longer there is not noticed.  Expired, the deletion is rolled back.
CallbackPop(r) ==
    LET s == req[r].cred IN
    /\ req[r].pc = "pop" /\ ~StateLocked(s)
    /\ IF login[s].expired THEN Refuse(r, "invalid") ELSE To(r, "idp")
    /\ UNCHANGED <<users, cred, login, changes>>

\* The slug is another, the provider refuses the code, the ID token does not
\* verify or grants no group: the request ends and its transaction with it.
CallbackRefused(r) ==
    /\ req[r].pc = "idp"
    /\ \E result \in {"invalid", "forbidden", "failed"} : Refuse(r, result)
    /\ UNCHANGED <<users, cred, login, changes>>

\* provision_sso_user commits the user, its groups and the deletion of the row.
Provision(r, u, P) ==
    /\ req[r].pc = "idp" /\ u \in SSOUsers
    /\ users[u].status = "gone" => \A c \in Credentials : cred[c].owner # u
    /\ users' = [users EXCEPT ![u] =
           [status |-> IF @.status = "gone" THEN "active" ELSE @.status, perms |-> P]]
    /\ login' = [login EXCEPT ![req[r].cred].row = "gone"]
    /\ req' = [req EXCEPT ![r].pc = "check", ![r].user = u]
    /\ Witness(u, P, users[u].status # "inactive")
    /\ UNCHANGED <<cred, changes>>

\* The user is read again (refresh): an inactive one is told so.
CallbackCheck(r) ==
    LET status == users[req[r].user].status IN
    /\ req[r].pc = "check"
    /\ CASE status = "active" -> To(r, "resolve")
         [] status = "inactive" -> Refuse(r, "forbidden")
         [] OTHER -> Refuse(r, "failed")
    /\ UNCHANGED <<users, cred, login, changes>>
-----------------------------------------------------------------------------
\* A call with the JWT of c, on an operation that needs the permission n (or
\* none): to use the gateway or read (use), to log a refresh token out, to mint
\* a token with the permissions P for user u, to revoke the token a.  The JWT
\* is decoded and the row of the token, if there is one, is read.
Call(r, kind, c, a, u, n, P) ==
    /\ cred[c].owner # None
    /\ Begin(r, IF Accepted(c) THEN "none" ELSE "unauthorized",
             [Unused EXCEPT !.kind = kind, !.cred = c, !.arg = a, !.user = cred[c].owner,
                            !.target = u, !.need = n, !.perms = P, !.pc = "user"])

CallUser(r) ==
    /\ req[r].pc = "user"
    /\ IF Active(req[r].user) THEN To(r, "perms") ELSE Refuse(r, "forbidden")
    /\ UNCHANGED <<users, cred, login, changes>>

\* A slip of Effective: the JWT alone decides.
ClaimsOnly(r) == cred[req[r].cred].perms

\* The effective permissions: those of the token the user still holds.
Effective(r) == cred[req[r].cred].perms \cap users[req[r].user].perms

\* require_permission, and on to the handler.
CallPerms(r) ==
    /\ req[r].pc = "perms"
    /\ IF req[r].need # None /\ req[r].need \notin Effective(r) THEN Refuse(r, "forbidden")
       ELSE IF req[r].kind = "use" THEN Deliver(r, None) ELSE To(r, req[r].kind)
    /\ UNCHANGED <<users, cred, login, changes>>

\* logout looks for a refresh token of the caller; without one it has nothing
\* to do.
Logout(r) ==
    LET p == req[r].arg IN
    /\ req[r].pc = "logout"
    /\ IF cred[p].owner = req[r].user /\ Unrevoked(p) THEN To(r, "leave") ELSE Deliver(r, None)
    /\ UNCHANGED <<users, cred, login, changes>>

\* The row of c is updated, after a refresh that holds it; deleted, the update
\* fails.
Spend(r, c) ==
    /\ cred' = [cred EXCEPT ![c].spent = @ \/ cred[c].row]
    /\ IF cred[c].row THEN Deliver(r, None) ELSE Refuse(r, "failed")
    /\ UNCHANGED <<users, login, changes>>

LogoutCommit(r) == req[r].pc = "leave" /\ ~PairLocked(req[r].arg) /\ Spend(r, req[r].arg)

\* A slip of Mint: the permissions only have to exist.
MintAny(r) ==
    LET P == req[r].perms IN
    /\ req[r].pc = "mint"
    /\ IF P \subseteq Management \/ P \subseteq Gateway THEN To(r, "sign") ELSE Refuse(r, "invalid")
    /\ UNCHANGED <<users, cred, login, changes>>

\* create_token: the permissions are those of the user it is for, now.
Mint(r) ==
    LET P == req[r].perms IN
    /\ req[r].pc = "mint"
    /\ IF P \subseteq users[req[r].target].perms /\ (P \subseteq Management \/ P \subseteq Gateway)
       THEN To(r, "sign") ELSE Refuse(r, "invalid")
    /\ UNCHANGED <<users, cred, login, changes>>

MintCommit(r, t) ==
    /\ req[r].pc = "sign" /\ Drawn(ApiTokens, t)
    /\ IF users[req[r].target].status = "gone"
       THEN Refuse(r, "failed") /\ UNCHANGED cred
       ELSE /\ cred' = [cred EXCEPT ![t] = Issued(req[r].target, req[r].perms)]
            /\ Deliver(r, t)
    /\ UNCHANGED <<users, login, changes>>

\* revoke_my_token finds tokens of the caller only, the administrator's any.
Revoke(r) ==
    LET t == req[r].arg IN
    /\ req[r].pc = "revoke"
    /\ IF cred[t].row /\ (req[r].need = None => cred[t].owner = req[r].user)
       THEN To(r, "cancel") ELSE Refuse(r, "notfound")
    /\ UNCHANGED <<users, cred, login, changes>>

RevokeCommit(r) == req[r].pc = "cancel" /\ Spend(r, req[r].arg)

\* Any query may fail: the transaction is rolled back.
Fails(r) ==
    /\ req[r].pc \notin {"new", "done"}
    /\ Refuse(r, "failed")
    /\ UNCHANGED <<users, cred, login, changes>>

-----------------------------------------------------------------------------
\* Administrators, and time.
SetPermissions(u, P) ==
    /\ users[u].status # "gone" /\ P # users[u].perms
    /\ users' = [users EXCEPT ![u].perms = P]
    /\ Witness(u, P, FALSE)
    /\ UNCHANGED <<cred, login, req>>

SetActive(u, b) ==
    /\ users[u].status = IF b THEN "inactive" ELSE "active"
    /\ users' = [users EXCEPT ![u].status = IF b THEN "active" ELSE "inactive"]
    /\ Witness(u, {}, b)
    /\ UNCHANGED <<cred, login, req>>

\* The rows of the user go with it, and wait for whoever has updated them.
DeleteUser(u) ==
    /\ users[u].status # "gone"
    /\ \A p \in Pairs : cred[p].owner = u => ~PairLocked(p)
    /\ users' = [users EXCEPT ![u] = [status |-> "gone", perms |-> {}]]
    /\ cred' = [c \in Credentials |->
           IF cred[c].owner = u THEN [cred[c] EXCEPT !.row = FALSE] ELSE cred[c]]
    /\ UNCHANGED <<login, req, since>>

\* exp of a JWT; expires_at of a row, which for an API token comes first.
Lapse(c) ==
    /\ cred[c].owner # None /\ ~cred[c].lapsed /\ (c \in ApiTokens => cred[c].aged)
    /\ cred' = [cred EXCEPT ![c].lapsed = TRUE]
    /\ UNCHANGED <<users, login, req, since>>

Age(c) ==
    /\ cred[c].owner # None /\ ~cred[c].aged
    /\ cred' = [cred EXCEPT ![c].aged = TRUE]
    /\ UNCHANGED <<users, login, req, since>>

ExpireState(s) ==
    /\ login[s].row # "unused" /\ ~login[s].expired
    /\ login' = [login EXCEPT ![s].expired = TRUE]
    /\ UNCHANGED <<users, cred, req, since>>

-----------------------------------------------------------------------------
\* The operations of calls: what each needs, and what it is about.
CallStart(r, c) ==
    \/ \E n \in Needs : Call(r, "use", c, None, None, n, {})
    \/ \E p \in Pairs : cred[p].owner # None /\ Call(r, "logout", c, p, None, None, {})
    \/ \E P \in Asks :
          \/ Call(r, "mint", c, None, cred[c].owner, None, P)
          \/ \E u \in Users : Call(r, "mint", c, None, u, TokenAdmin, P)
    \/ \E t \in ApiTokens, n \in {None, TokenAdmin} :
          cred[t].owner # None /\ Call(r, "revoke", c, t, None, n, {})

RequestStart(r) ==
    \/ \E u \in Users, right \in BOOLEAN : Login(r, u, right)
    \/ \E p \in Pairs : cred[p].owner # None /\ Refresh(r, p)
    \/ \E s \in States : Callback(r, s)
    \/ \E c \in Credentials : CallStart(r, c)

RequestStep(r) ==
    \/ RefreshLoad(r) \/ RefreshDrop(r) \/ Resolve(r)
    \/ \E p \in Pairs : CommitPair(r, p)
    \/ CallbackPop(r) \/ CallbackRefused(r) \/ CallbackCheck(r)
    \/ \E u \in Users, P \in Grants : Provision(r, u, P)
    \/ CallUser(r) \/ CallPerms(r) \/ Logout(r) \/ LogoutCommit(r)
    \/ Mint(r) \/ Revoke(r) \/ RevokeCommit(r)
    \/ \E t \in ApiTokens : MintCommit(r, t)

Environment ==
    /\ changes < MaxChanges /\ changes' = changes + 1
    /\ \/ \E u \in Users, P \in Grants : SetPermissions(u, P)
       \/ \E u \in Users, b \in BOOLEAN : SetActive(u, b)
       \/ \E u \in Users : DeleteUser(u)
       \/ \E c \in Credentials : Lapse(c) \/ Age(c)
       \/ \E s \in States : ExpireState(s)

Next ==
    \/ \E r \in Requests : RequestStart(r) \/ RequestStep(r) \/ Fails(r)
    \/ \E s \in States : Authorize(s)
    \/ Environment

\* Queries return, and the provider answers or is given up on.
Spec == Init /\ [][Next]_vars /\ \A r \in Requests : WF_vars(RequestStep(r))

-----------------------------------------------------------------------------
TypeOK ==
    /\ users \in [Users -> [status : {"active", "inactive", "gone"}, perms : SUBSET Permissions]]
    /\ cred \in [Credentials ->
           [owner : Users \cup {None}, perms : SUBSET Permissions, row : BOOLEAN,
            spent : BOOLEAN, aged : BOOLEAN, lapsed : BOOLEAN]]
    /\ login \in [States -> [row : {"unused", "open", "gone"}, expired : BOOLEAN]]
    /\ req \in [Requests ->
           [pc : Labels, kind : Kinds, cred : Credentials \cup States \cup {None},
            arg : Credentials \cup {None}, user : Users \cup {None},
            target : Users \cup {None}, need : Permissions \cup {None},
            perms : SUBSET Permissions, out : Credentials \cup {None}, result : Results]]
    /\ \A r \in Requests :
          /\ req[r].kind = "login" => req[r].cred = None
          /\ req[r].kind = "refresh" => req[r].cred \in Pairs
          /\ req[r].kind = "callback" => req[r].cred \in States
          /\ req[r].kind \in Calls => req[r].cred \in Credentials
    /\ \A r, q \in Requests :
          req[r].pc = "commit" /\ req[q].pc = "commit"
             /\ req[r].kind = "refresh" /\ req[q].cred = req[r].cred => r = q
    /\ changes \in 0..MaxChanges
    /\ since \in [Requests ->
           [held : [Users -> SUBSET Permissions], active : SUBSET Users,
            good : SUBSET Credentials, fresh : SUBSET (Pairs \cup States)]]

Served(r) == req[r].pc = "done" /\ req[r].result = "ok"

\* A credential revoked, spent, consumed or expired before a request began is
\* refused, whatever runs beside it: a refresh token and a state serve twice
\* only to requests that overlap (refresh_management_token, pop_state), an API
\* token never once its revocation is answered (validate_token).
RevokedRefused ==
    \A r \in Requests : Served(r) =>
        /\ req[r].kind \in Calls => req[r].cred \in since[r].good
        /\ req[r].kind \in {"refresh", "callback"} => req[r].cred \in since[r].fresh

\* Nobody is served what the JWT does not grant, nor what the user has not held
\* at some time during the request (AuthContext.permissions).
ServedWithinHeld ==
    \A r \in Requests : Served(r) /\ req[r].kind \in Calls /\ req[r].need # None =>
        req[r].need \in cred[req[r].cred].perms \cap since[r].held[req[r].user]

\* What is issued carries only permissions its owner has held while it was
\* being issued, and those of one category (create_management_tokens,
\* create_token).
IssuedWithinHeld ==
    \A r \in Requests : Served(r) /\ req[r].out # None =>
        LET c == req[r].out IN
        /\ cred[c].perms \subseteq since[r].held[cred[c].owner]
        /\ cred[c].owner = IF req[r].kind = "mint" THEN req[r].target ELSE req[r].user
        /\ Allowed(c, cred[c].perms)

\* A user deactivated before a request began, and not activated again since,
\* is neither served nor issued anything, with whatever credential
\* (cli/users.py: every existing token is rejected with immediate effect).
DeactivatedGetsNothing ==
    \A r \in Requests : Served(r) => req[r].user \in since[r].active

\* The row of a login in progress goes only with the provisioning of its user:
\* a callback that fails leaves the state for another attempt (pop_state).
StateGoesWithLogin ==
    [][\A s \in States : login[s].row = "open" /\ login'[s].row = "gone" =>
          \E r \in Requests : req[r].cred = s /\ req[r].pc = "idp" /\ req'[r].pc = "check"]_vars

\* Every request is answered: no wait for a row that another request has locked
\* lasts for ever (refresh_management_token, pop_state).
EveryRequestAnswered == <>[](\A r \in Requests : req[r].pc \in {"new", "done"})
=============================================================================

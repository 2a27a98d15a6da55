----------------------------- MODULE SessionsProofs -----------------------------
(***************************************************************************)
(* What Sessions promises for any number of users, credentials, requests   *)
(* and changes.  The inductive invariant says of every request what its    *)
(* progress has established about its credential, its user and what it is  *)
(* about to issue, against the ghost since.  GoodReq states it of a        *)
(* request o and its memory w, over the users U and the credentials C, so  *)
(* that the lemmas about it speak of no step.                              *)
(*                                                                         *)
(* And what RoleSync does of one of those users, for any number of         *)
(* requests, logins, tokens and role changes.  The two have no variable in *)
(* common: neither specification says anything of the other's.             *)
(***************************************************************************)
EXTENDS Sessions, RoleSync, TLAPS

UserSet == [status : {"active", "inactive", "gone"}, perms : SUBSET Permissions]
CredSet == [owner : Users \cup {None}, perms : SUBSET Permissions, row : BOOLEAN,
            spent : BOOLEAN, aged : BOOLEAN, lapsed : BOOLEAN]
LoginSet == [row : {"unused", "open", "gone"}, expired : BOOLEAN]
ReqSet == [pc : Labels, kind : Kinds, cred : Credentials \cup States \cup {None},
           arg : Credentials \cup {None}, user : Users \cup {None},
           target : Users \cup {None}, need : Permissions \cup {None},
           perms : SUBSET Permissions, out : Credentials \cup {None}, result : Results]
SinceSet == [held : [Users -> SUBSET Permissions], active : SUBSET Users,
             good : SUBSET Credentials, fresh : SUBSET (Pairs \cup States)]

Flying(o) == o.pc \notin {"new", "done"}
Ok(o) == o.pc = "done" /\ o.result = "ok"

\* Which kinds of request are where, and what they then have.
Kinded(o) ==
    /\ o.kind = "login" => o.cred = None
    /\ o.kind = "refresh" => o.cred \in Pairs
    /\ o.kind = "callback" => o.cred \in States
    /\ o.kind \in Calls => o.cred \in Credentials
    /\ o.pc \in {"load", "drop"} => o.kind = "refresh"
    /\ o.pc \in {"resolve", "commit"} => o.kind \in {"login", "refresh", "callback"}
    /\ o.pc \in {"pop", "idp", "check"} => o.kind = "callback"
    /\ o.pc \in {"user", "perms"} => o.kind \in Calls
    /\ o.pc \in {"logout", "leave"} => o.kind = "logout"
    /\ o.pc \in {"mint", "sign"} => o.kind = "mint"
    /\ o.pc \in {"revoke", "cancel"} => o.kind = "revoke"
    /\ Flying(o) /\ o.pc \notin {"pop", "idp"} => o.user \in Users
    /\ Flying(o) /\ o.kind = "mint" => o.target \in Users /\ o.perms # {}

\* A request in flight has seen what users are and hold now.
Seen(o, w, U) ==
    Flying(o) => \A u \in Users : /\ U[u].perms \subseteq w.held[u]
                                  /\ U[u].status = "active" => u \in w.active

\* Its credential was good when it began.
WasGood(o, w) ==
    Flying(o) \/ Ok(o) =>
        /\ o.kind \in Calls /\ o.pc # "user" => o.cred \in w.good
        /\ o.kind \in {"refresh", "callback"} /\ o.pc # "pop" => o.cred \in w.fresh

\* Whether a state was, the callback only finds out when it deletes its row; a
\* token without a row is one of a user who is gone.
Doubt(o, w, U, L) ==
    /\ o.pc = "pop" => L[o.cred].row # "unused" /\ (o.cred \in w.fresh \/ L[o.cred].expired)
    /\ o.pc = "user" => o.cred \in w.good \/ U[o.user].status = "gone"

\* Past the check of its user, that user has been active.
Checked(o, w) ==
    Ok(o) \/ (Flying(o) /\ o.pc \notin {"pop", "idp", "check", "load", "drop", "user"}) =>
        o.user \in w.active

\* A call is its credential's owner's, and past the check of its permission
\* entitled to it.
Entitled(o, w, C) ==
    o.kind \in Calls /\ (Flying(o) \/ Ok(o)) =>
        /\ C[o.cred].owner = o.user /\ o.user \in Users
        /\ o.pc \notin {"user", "perms"} /\ o.need # None =>
              o.need \in C[o.cred].perms \cap w.held[o.user]

\* What it is about to issue, or has issued, its owner has held.
Carried(o, w, C) ==
    /\ o.pc = "commit" => o.perms \subseteq w.held[o.user] \cap Management
    /\ o.pc = "sign" => /\ o.perms \subseteq w.held[o.target]
                        /\ o.perms \subseteq Management \/ o.perms \subseteq Gateway
    /\ Ok(o) /\ o.out # None =>
          /\ C[o.out].owner \in Users
          /\ C[o.out].perms \subseteq w.held[C[o.out].owner]
          /\ C[o.out].owner = IF o.kind = "mint" THEN o.target ELSE o.user
          /\ Allowed(o.out, C[o.out].perms)

GoodReq(o, w, U, C, L) ==
    /\ Kinded(o) /\ Seen(o, w, U) /\ WasGood(o, w) /\ Doubt(o, w, U, L)
    /\ Checked(o, w) /\ Entitled(o, w, C) /\ Carried(o, w, C)

\* The UPDATE of a refresh token is uncommitted in one request at a time.
Locks(R) ==
    \A r, q \in Requests :
        R[r].pc = "commit" /\ R[q].pc = "commit" /\ R[r].kind = "refresh" /\ R[q].cred = R[r].cred => r = q

\* The row of what has an owner goes only with its owner.
Rowless(C, U) ==
    \A c \in Credentials : C[c].owner # None /\ ~C[c].row => U[C[c].owner].status = "gone"

Typed ==
    /\ users \in [Users -> UserSet] /\ cred \in [Credentials -> CredSet]
    /\ login \in [States -> LoginSet] /\ req \in [Requests -> ReqSet]
    /\ since \in [Requests -> SinceSet] /\ changes \in 0..MaxChanges

IInv ==
    /\ Typed
    /\ \A r \in Requests : GoodReq(req[r], since[r], users, cred, login)
    /\ Locks(req) /\ Rowless(cred, users)

\* What was issued keeps its owner and its permissions.
Frozen(C, D) ==
    \A c \in Credentials : C[c].owner # None => D[c].owner = C[c].owner /\ D[c].perms = C[c].perms

\* What has an owner and no row had none before.
Kept(C, D) ==
    \A c \in Credentials : D[c].owner # None /\ ~D[c].row => C[c].owner = D[c].owner /\ ~C[c].row

\* Who is gone and owns something stays gone.
Buried(U, V, C) ==
    \A c \in Credentials : C[c].owner # None /\ U[C[c].owner].status = "gone" =>
        V[C[c].owner].status = "gone"

\* A login once begun does not begin again, and stays expired.
Onward(L, M) ==
    \A s \in States : L[s].row # "unused" =>
        M[s].row # "unused" /\ (L[s].expired => M[s].expired)

\* The memory w has only grown to v.
Grown(w, v) ==
    /\ v.good = w.good /\ v.fresh = w.fresh /\ w.active \subseteq v.active
    /\ \A u \in Users : w.held[u] \subseteq v.held[u]

-----------------------------------------------------------------------------
LEMMA TypedIsTypeOK == IInv => TypeOK
  BY DEF IInv, Typed, TypeOK, GoodReq, Kinded, Locks, UserSet, CredSet, LoginSet, ReqSet, SinceSet

\* Nothing another request or an administrator does spoils a request, when it
\* is remembered.
LEMMA GoodStays ==
  ASSUME NEW o \in ReqSet, NEW w \in SinceSet, NEW v \in SinceSet, NEW U, NEW V,
         NEW C \in [Credentials -> CredSet], NEW D \in [Credentials -> CredSet],
         NEW L \in [States -> LoginSet], NEW M \in [States -> LoginSet],
         GoodReq(o, w, U, C, L), Grown(w, v), Frozen(C, D), Onward(L, M), Buried(U, V, C), Seen(o, v, V)
  PROVE  GoodReq(o, v, V, D, M)
<1>1. Kinded(o) /\ WasGood(o, v) /\ Checked(o, v)
  BY DEF GoodReq, Grown, WasGood, Checked
<1>0. Doubt(o, v, V, M)
  <2>1. o.pc = "pop" => o.cred \in States
    BY DEF GoodReq, Kinded
  <2>2. o.pc = "user" => o.cred \in Credentials /\ o.user \in Users /\ C[o.cred].owner = o.user
    BY DEF GoodReq, Kinded, Entitled, Flying
  <2>3. QED
    BY <2>1, <2>2, SetAssumption DEF GoodReq, Grown, Doubt, Onward, Buried
<1>2. Entitled(o, v, D)
  <2>1. ASSUME o.kind \in Calls, Flying(o) \/ Ok(o)
        PROVE  /\ C[o.cred].owner = o.user /\ o.user \in Users /\ o.cred \in Credentials
               /\ D[o.cred].owner = C[o.cred].owner /\ D[o.cred].perms = C[o.cred].perms
    BY <2>1, SetAssumption DEF GoodReq, Entitled, Kinded, Frozen
  <2>2. QED
    BY <2>1 DEF GoodReq, Entitled, Grown
<1>3. Carried(o, v, D)
  <2>1. ASSUME Ok(o), o.out # None
        PROVE  /\ C[o.out].owner \in Users /\ o.out \in Credentials
               /\ D[o.out].owner = C[o.out].owner /\ D[o.out].perms = C[o.out].perms
    BY <2>1, SetAssumption DEF GoodReq, Carried, ReqSet, Frozen
  <2>2. o.pc = "commit" => o.user \in Users
    BY DEF GoodReq, Kinded, Flying
  <2>3. o.pc = "sign" => o.target \in Users
    BY DEF GoodReq, Kinded, Flying
  <2>4. o.pc = "commit" => o.perms \subseteq v.held[o.user] \cap Management
    BY <2>2 DEF GoodReq, Carried, Grown
  <2>5. o.pc = "sign" => /\ o.perms \subseteq v.held[o.target]
                         /\ o.perms \subseteq Management \/ o.perms \subseteq Gateway
    BY <2>3 DEF GoodReq, Carried, Grown
  <2>6. Ok(o) /\ o.out # None =>
          /\ D[o.out].owner \in Users
          /\ D[o.out].perms \subseteq v.held[D[o.out].owner]
          /\ D[o.out].owner = IF o.kind = "mint" THEN o.target ELSE o.user
          /\ Allowed(o.out, D[o.out].perms)
    BY <2>1 DEF GoodReq, Carried, Grown
  <2>7. QED
    BY <2>4, <2>5, <2>6 DEF Carried
<1>4. QED
  BY <1>0, <1>1, <1>2, <1>3 DEF GoodReq

LEMMA GrownRefl == \A w : Grown(w, w)
  BY DEF Grown

LEMMA FrozenRefl == 
  /\ \A C : Frozen(C, C) /\ Kept(C, C)
  /\ \A L : Onward(L, L)
  /\ \A U, C : Buried(U, U, C)
  BY DEF Frozen, Kept, Onward, Buried

\* One request goes on to o with the memory w, users as they are.
LEMMA Turn ==
  ASSUME IInv, NEW r \in Requests, NEW o \in ReqSet, NEW w \in SinceSet,
         req' = [req EXCEPT ![r] = o], since' = [since EXCEPT ![r] = w],
         UNCHANGED <<users, changes>>,
         cred' \in [Credentials -> CredSet], Frozen(cred, cred'), Kept(cred, cred'), login' \in [States -> LoginSet], Onward(login, login'),
         GoodReq(o, w, users, cred', login'),
         o.pc = "commit" /\ o.kind = "refresh" => ~PairLocked(o.cred)
  PROVE  IInv'
<1>1. Typed'
  BY DEF IInv, Typed
<1>2. ASSUME NEW q \in Requests
      PROVE  GoodReq(req'[q], since'[q], users', cred', login')
  <2>1. CASE q = r
    BY <2>1 DEF IInv, Typed
  <2>2. CASE q # r
    <3>1. req'[q] = req[q] /\ since'[q] = since[q] /\ req[q] \in ReqSet /\ since[q] \in SinceSet
      BY <2>2 DEF IInv, Typed
    <3>2. GoodReq(req[q], since[q], users, cred, login)
      BY DEF IInv
    <3>3. Seen(req[q], since[q], users)
      BY <3>2 DEF GoodReq
    <3>4. GoodReq(req[q], since[q], users, cred', login')
      BY <3>1, <3>2, <3>3, GoodStays, GrownRefl, FrozenRefl DEF IInv, Typed
    <3>5. QED
      BY <3>1, <3>4
  <2>3. QED
    BY <2>1, <2>2
<1>3. Locks(req')
  <2>1. req'[r] = o /\ \A q \in Requests : q # r => req'[q] = req[q]
    BY DEF IInv, Typed
  <2>2. ASSUME NEW q \in Requests, q # r, req[q].pc = "commit", o.pc = "commit", req[q].cred = o.cred
        PROVE  req[q].kind # "refresh" /\ o.kind # "refresh"
    <3>1. Kinded(o) /\ Kinded(req[q])
      BY DEF IInv, GoodReq
    <3>2. req[q].kind = "refresh" <=> o.kind = "refresh"
      BY <2>2, <3>1, SetAssumption DEF Kinded, Credentials
    <3>3. o.kind # "refresh"
      BY <2>2, <3>2 DEF PairLocked
    <3>4. QED
      BY <3>2, <3>3
  <2>3. QED
    BY <2>1, <2>2 DEF Locks, IInv
<1>4. Rowless(cred', users')
  BY DEF IInv, Rowless, Kept
<1>5. QED
  BY <1>1, <1>2, <1>3, <1>4 DEF IInv

-----------------------------------------------------------------------------
\* The request that is refused keeps nothing.
LEMMA Refusal ==
  ASSUME IInv, NEW r \in Requests, NEW e \in Results \ {"ok", "none"}, Refuse(r, e),
         UNCHANGED <<users, changes>>,
         cred' \in [Credentials -> CredSet], Frozen(cred, cred'), Kept(cred, cred'), login' \in [States -> LoginSet], Onward(login, login')
  PROVE  IInv'
<1> DEFINE o == [Unused EXCEPT !.pc = "done", !.result = e]
<1>1. o \in ReqSet /\ o.pc = "done" /\ o.result = e /\ o.kind = "login" /\ o.cred = None
  BY DEF Unused, ReqSet, Labels, Kinds, Results
<1>2. Nothing \in SinceSet
  BY DEF Nothing, SinceSet
<1>3. req' = [req EXCEPT ![r] = o] /\ since' = [since EXCEPT ![r] = Nothing]
  BY DEF Refuse
<1> HIDE DEF o
<1>4. GoodReq(o, Nothing, users, cred', login')
  BY <1>1 DEF GoodReq, Kinded, Seen, WasGood, Doubt, Checked, Entitled, Carried, Flying, Ok, Calls
<1>5. QED
  BY <1>1, <1>2, <1>3, <1>4, Turn

\* The request that goes on to o remembering what it did.
LEMMA Going ==
  ASSUME IInv, NEW r \in Requests, NEW o \in ReqSet,
         req' = [req EXCEPT ![r] = o], UNCHANGED <<users, changes, since>>,
         cred' \in [Credentials -> CredSet], Frozen(cred, cred'), Kept(cred, cred'), login' \in [States -> LoginSet], Onward(login, login'),
         GoodReq(o, since[r], users, cred', login'),
         o.pc = "commit" /\ o.kind = "refresh" => ~PairLocked(o.cred)
  PROVE  IInv'
<1>1. since[r] \in SinceSet /\ since' = [since EXCEPT ![r] = since[r]]
  BY DEF IInv, Typed
<1>2. QED
  BY <1>1, Turn

\* The state of one request, for the steps below.
LEMMA Known ==
  ASSUME IInv, NEW r \in Requests
  PROVE  /\ req[r] \in ReqSet /\ since[r] \in SinceSet /\ GoodReq(req[r], since[r], users, cred, login)
         /\ users \in [Users -> UserSet] /\ cred \in [Credentials -> CredSet]
         /\ login \in [States -> LoginSet] /\ req \in [Requests -> ReqSet]
  BY DEF IInv, Typed

\* A request that begins to be served remembers what is now.
LEMMA SnapshotTyped ==
  ASSUME IInv
  PROVE  /\ Snapshot \in SinceSet
         /\ \A u \in Users : users[u].perms = Snapshot.held[u] /\ (Active(u) => u \in Snapshot.active)
<1>1. users \in [Users -> UserSet] /\ cred \in [Credentials -> CredSet]
  BY DEF IInv, Typed
<1>2. QED
  BY <1>1 DEF Snapshot, SinceSet, UserSet

LEMMA Beginning ==
  ASSUME IInv, NEW r \in Requests, NEW e \in Results \ {"ok"}, NEW o \in ReqSet, Begin(r, e, o),
         e = "none" => /\ Kinded(o) /\ o.pc \in {"load", "resolve", "pop", "user"}
                       /\ WasGood(o, Snapshot) /\ Doubt(o, Snapshot, users, login)
                       /\ o.pc = "resolve" => Active(o.user)
                       /\ o.kind \in Calls => o.pc = "user" /\ cred[o.cred].owner = o.user
  PROVE  IInv'
<1>1. UNCHANGED <<users, cred, login, changes>>
  BY DEF Begin
<1>2. CASE e # "none"
  BY <1>1, <1>2, Refusal, FrozenRefl, Known DEF Begin
<1>3. CASE e = "none"
  <2>1. req' = [req EXCEPT ![r] = o] /\ since' = [since EXCEPT ![r] = Snapshot]
    BY <1>3 DEF Begin
  <2>2. Seen(o, Snapshot, users)
    BY SnapshotTyped DEF Seen, Active
  <2>3. Kinded(o) /\ WasGood(o, Snapshot) /\ Doubt(o, Snapshot, users, login)
        /\ o.pc \in {"load", "resolve", "pop", "user"}
    BY <1>3
  <2>4. o.pc = "resolve" => o.user \in Users
    BY <2>3 DEF Kinded, Flying
  <2>5. Checked(o, Snapshot)
    BY <1>3, <2>3, <2>4, SnapshotTyped DEF Checked, Flying, Ok
  <2>6. Entitled(o, Snapshot, cred)
    BY <1>3, <2>3 DEF Entitled, Flying, Kinded
  <2>7. Carried(o, Snapshot, cred)
    BY <2>3 DEF Carried, Ok
  <2>8. GoodReq(o, Snapshot, users, cred, login)
    BY <2>2, <2>3, <2>5, <2>6, <2>7 DEF GoodReq
  <2>9. QED
    BY <1>1, <2>1, <2>3, <2>8, SnapshotTyped, FrozenRefl, Known, Turn
<1>4. QED
  BY <1>2, <1>3

-----------------------------------------------------------------------------
LEMMA LoginOK ==
  ASSUME IInv, NEW r \in Requests, NEW u \in Users, NEW right \in BOOLEAN, Login(r, u, right)
  PROVE  IInv'
<1> DEFINE known == right /\ u \notin SSOUsers /\ users[u].status # "gone"
           e == IF ~known THEN "unauthorized" ELSE IF Active(u) THEN "none" ELSE "forbidden"
           o == [Unused EXCEPT !.user = u, !.pc = "resolve"]
<1>1. o \in ReqSet /\ o.kind = "login" /\ o.cred = None /\ o.pc = "resolve" /\ o.user = u
  BY DEF Unused, ReqSet, Labels, Kinds, Results
<1>2. e \in Results \ {"ok"} /\ (e = "none" => Active(u))
  BY DEF Results
<1>3. Begin(r, e, o)
  BY DEF Login
<1> HIDE DEF o, e
<1>4. Kinded(o) /\ WasGood(o, Snapshot) /\ Doubt(o, Snapshot, users, login)
  BY <1>1 DEF Kinded, WasGood, Doubt, Calls, Flying
<1>5. QED
  BY <1>1, <1>2, <1>3, <1>4, Beginning DEF Calls

LEMMA RefreshOK ==
  ASSUME IInv, NEW r \in Requests, NEW p \in Pairs, cred[p].owner # None, Refresh(r, p)
  PROVE  IInv'
<1> DEFINE e == IF Redeemable(p) THEN "none" ELSE "unauthorized"
           o == [Unused EXCEPT !.kind = "refresh", !.cred = p, !.user = cred[p].owner, !.pc = "load"]
<1>1. p \in Credentials /\ cred[p].owner \in Users
  BY Known DEF Credentials, CredSet
<1>2. o \in ReqSet /\ o.kind = "refresh" /\ o.cred = p /\ o.pc = "load" /\ o.user = cred[p].owner
  BY <1>1 DEF Unused, ReqSet, Labels, Kinds, Results
<1>3. e \in Results \ {"ok"} /\ (e = "none" => Redeemable(p))
  BY DEF Results
<1>4. Begin(r, e, o)
  BY DEF Refresh
<1> HIDE DEF o, e
<1>5. Kinded(o)
  BY <1>1, <1>2 DEF Kinded, Calls, Flying
<1>6. e = "none" => WasGood(o, Snapshot) /\ Doubt(o, Snapshot, users, login)
  BY <1>2, <1>3 DEF WasGood, Doubt, Snapshot, Redeemable, Unrevoked, Calls
<1>7. QED
  BY <1>2, <1>3, <1>4, <1>5, <1>6, Beginning DEF Calls

LEMMA CallbackOK ==
  ASSUME IInv, NEW r \in Requests, NEW s \in States, Callback(r, s)
  PROVE  IInv'
<1> DEFINE e == IF login[s].row = "open" THEN "none" ELSE "invalid"
           o == [Unused EXCEPT !.kind = "callback", !.cred = s, !.pc = "pop"]
<1>1. o \in ReqSet /\ o.kind = "callback" /\ o.cred = s /\ o.pc = "pop"
  BY DEF Unused, ReqSet, Labels, Kinds, Results
<1>2. e \in Results \ {"ok"} /\ (e = "none" => login[s].row = "open")
  BY DEF Results
<1>3. Begin(r, e, o)
  BY DEF Callback
<1> HIDE DEF o, e
<1>4. Kinded(o)
  BY <1>1 DEF Kinded, Calls, Flying
<1>5. e = "none" => WasGood(o, Snapshot) /\ Doubt(o, Snapshot, users, login)
  <2>1. login[s] \in LoginSet
    BY Known
  <2>2. e = "none" => s \in Snapshot.fresh \/ login[s].expired
    BY <1>2, <2>1 DEF Snapshot, Open, LoginSet
  <2>3. QED
    BY <1>1, <1>2, <2>2 DEF WasGood, Doubt, Calls
<1>6. QED
  BY <1>1, <1>2, <1>3, <1>4, <1>5, Beginning DEF Calls

LEMMA CallOK ==
  ASSUME IInv, NEW r \in Requests, NEW kind \in Calls, NEW c \in Credentials,
         NEW a \in Credentials \cup {None}, NEW u \in Users \cup {None},
         NEW n \in Permissions \cup {None}, NEW P \in SUBSET Permissions,
         kind = "mint" => u \in Users /\ P # {}, Call(r, kind, c, a, u, n, P)
  PROVE  IInv'
<1> DEFINE e == IF Accepted(c) THEN "none" ELSE "unauthorized"
           o == [Unused EXCEPT !.kind = kind, !.cred = c, !.arg = a, !.user = cred[c].owner,
                               !.target = u, !.need = n, !.perms = P, !.pc = "user"]
<1>1. cred[c] \in CredSet /\ cred[c].owner \in Users
  BY Known DEF Call, CredSet
<1>2. /\ o \in ReqSet /\ o.kind = kind /\ o.cred = c /\ o.pc = "user" /\ o.user = cred[c].owner
      /\ o.target = u /\ o.perms = P
  BY <1>1 DEF Unused, ReqSet, Labels, Kinds, Results, Calls
<1>3. e \in Results \ {"ok"} /\ (e = "none" => Accepted(c))
  BY DEF Results
<1>4. Begin(r, e, o)
  BY DEF Call
<1>5. Accepted(c) => c \in Snapshot.good \/ users[cred[c].owner].status = "gone"
  <2>1. ~cred[c].row => users[cred[c].owner].status = "gone"
    BY <1>1, SetAssumption DEF IInv, Rowless
  <2>2. QED
    BY <1>1, <2>1 DEF Accepted, Snapshot, CredSet
<1> HIDE DEF o, e
<1>6. Kinded(o)
  BY <1>1, <1>2 DEF Kinded, Calls, Flying
<1>7. e = "none" => WasGood(o, Snapshot) /\ Doubt(o, Snapshot, users, login)
  BY <1>2, <1>3, <1>5 DEF WasGood, Doubt, Calls
<1>8. QED
  BY <1>1, <1>2, <1>3, <1>4, <1>6, <1>7, Beginning DEF Calls

LEMMA StartOK ==
  ASSUME IInv, NEW r \in Requests, RequestStart(r)
  PROVE  IInv'
<1>1. \A c \in Credentials : cred[c].owner \in Users \cup {None}
  BY Known DEF CredSet
<1>2. Pairs \subseteq Credentials /\ ApiTokens \subseteq Credentials /\ TokenAdmin \in Permissions
      /\ Needs \subseteq Permissions /\ Asks \subseteq (SUBSET Permissions) \ {{}}
  BY SetAssumption DEF Credentials, Permissions
<1>3. ASSUME NEW c \in Credentials, CallStart(r, c)
      PROVE  IInv'
  <2>1. ASSUME NEW n \in Needs, Call(r, "use", c, None, None, n, {})
        PROVE  IInv'
    BY <1>2, <2>1, CallOK DEF Calls
  <2>2. ASSUME NEW p \in Pairs, Call(r, "logout", c, p, None, None, {})
        PROVE  IInv'
    BY <1>2, <2>2, CallOK DEF Calls
  <2>3. ASSUME NEW P \in Asks, NEW u \in Users \cup {None}, NEW n \in {None, TokenAdmin},
               Call(r, "mint", c, None, u, n, P), u \in Users
        PROVE  IInv'
    <3>1. P \in SUBSET Permissions /\ P # {} /\ n \in Permissions \cup {None} /\ "mint" \in Calls
      BY <1>2 DEF Calls
    <3>2. QED
      BY <2>3, <3>1, CallOK
  <2>4. ASSUME NEW t \in ApiTokens, NEW n \in {None, TokenAdmin}, Call(r, "revoke", c, t, None, n, {})
        PROVE  IInv'
    BY <1>2, <2>4, CallOK DEF Calls
  <2>5. ASSUME NEW P \in Asks, Call(r, "mint", c, None, cred[c].owner, None, P)
        PROVE  IInv'
    BY <1>1, <2>3, <2>5 DEF Call
  <2>6. QED
    BY <1>3, <2>1, <2>2, <2>3, <2>4, <2>5 DEF CallStart
<1>4. QED
  BY <1>3, LoginOK, RefreshOK, CallbackOK DEF RequestStart

-----------------------------------------------------------------------------
\* To and ToWith, for a request past its beginning.
LEMMA ToOK ==
  ASSUME IInv, NEW r \in Requests, NEW l \in Labels \ {"new", "done", "pop"}, NEW P \in SUBSET Permissions,
         req' = [req EXCEPT ![r].pc = l, ![r].perms = P], UNCHANGED <<users, cred, login, changes, since>>,
         Flying(req[r]), LET o == [req[r] EXCEPT !.pc = l, !.perms = P] IN GoodReq(o, since[r], users, cred, login),
         l = "commit" /\ req[r].kind = "refresh" => ~PairLocked(req[r].cred)
  PROVE  IInv'
<1> DEFINE o == [req[r] EXCEPT !.pc = l, !.perms = P]
<1>1. o \in ReqSet /\ req' = [req EXCEPT ![r] = o] /\ o.pc = l /\ o.kind = req[r].kind /\ o.cred = req[r].cred
  BY Known DEF ReqSet
<1>2. GoodReq(o, since[r], users, cred, login)
  OBVIOUS
<1> HIDE DEF o
<1>3. QED
  BY <1>1, <1>2, Going, Known, FrozenRefl

LEMMA ToAlone ==
  ASSUME IInv, NEW r \in Requests, NEW l, To(r, l)
  PROVE  req' = [req EXCEPT ![r].pc = l, ![r].perms = req[r].perms] /\ req[r].perms \in SUBSET Permissions
  BY Known DEF To, ReqSet

\* What a request keeps when its pc and its permissions change.
LEMMA Rest ==
  ASSUME IInv, NEW r \in Requests, NEW l, NEW P
  PROVE  LET o == [req[r] EXCEPT !.pc = l, !.perms = P] IN
         /\ o.pc = l /\ o.perms = P /\ o.kind = req[r].kind /\ o.cred = req[r].cred
         /\ o.user = req[r].user /\ o.target = req[r].target /\ o.need = req[r].need
         /\ o.out = req[r].out /\ o.result = req[r].result /\ o.arg = req[r].arg
  BY Known DEF ReqSet

LEMMA CheckedOK ==
  ASSUME IInv, NEW r \in Requests, RefreshLoad(r) \/ CallbackCheck(r)
  PROVE  IInv'
<1>1. req[r].pc \in {"load", "check"} /\ UNCHANGED <<users, cred, login, changes>>
  BY DEF RefreshLoad, CallbackCheck
<1>2. GoodReq(req[r], since[r], users, cred, login)
  BY Known
<1>3. ASSUME NEW l \in {"resolve", "drop"}, To(r, l), l = "drop" => req[r].pc = "load",
             l = "resolve" => Active(req[r].user)
      PROVE  IInv'
  <2> DEFINE o == [req[r] EXCEPT !.pc = l, !.perms = req[r].perms]
  <2>1. req[r].user \in Users
    BY <1>1, <1>2 DEF GoodReq, Kinded, Flying
  <2>2. Active(req[r].user) => req[r].user \in since[r].active
    BY <1>1, <1>2, <2>1 DEF GoodReq, Seen, Flying, Active
  <2>3. GoodReq(o, since[r], users, cred, login)
    BY <1>1, <1>2, <1>3, <2>1, <2>2, Rest
       DEF GoodReq, Kinded, Seen, WasGood, Doubt, Checked, Entitled, Carried, Flying, Ok, Calls
  <2>4. QED
    <3>1. /\ req' = [req EXCEPT ![r].pc = l, ![r].perms = req[r].perms]
          /\ req[r].perms \in SUBSET Permissions /\ UNCHANGED since
      BY <1>3, ToAlone DEF To
    <3>2. l \in Labels \ {"new", "done", "pop"} /\ l # "commit" /\ Flying(req[r])
      BY <1>1, <1>3 DEF Labels, Flying
    <3>3. QED
      BY <1>1, <2>3, <3>1, <3>2, ToOK
<1>4. ASSUME NEW e \in {"forbidden", "failed"}, Refuse(r, e)
      PROVE  IInv'
  BY <1>1, <1>4, Refusal, FrozenRefl, Known DEF Results
<1>5. QED
  BY <1>3, <1>4 DEF RefreshLoad, CallbackCheck, Active

LEMMA FailsOK ==
  ASSUME IInv, NEW r \in Requests, Fails(r) \/ CallbackRefused(r)
  PROVE  IInv'
  BY Refusal, FrozenRefl, Known DEF Results, Fails, CallbackRefused

\* A row of c is marked, and its owner, permissions and row stay.
LEMMA SpentOK ==
  ASSUME IInv, NEW c, cred' = [cred EXCEPT ![c].spent = @ \/ cred[c].row]
  PROVE  cred' \in [Credentials -> CredSet] /\ Frozen(cred, cred') /\ Kept(cred, cred')
<1>1. cred \in [Credentials -> CredSet]
  BY DEF IInv, Typed
<1>2. CASE c \in Credentials
  <2>1. cred[c] \in CredSet
    BY <1>1, <1>2
  <2> DEFINE b == cred[c].spent \/ cred[c].row
             d == [cred[c] EXCEPT !.spent = b]
  <2>2. b \in BOOLEAN
    BY <2>1 DEF CredSet
  <2>3. d \in CredSet /\ d.owner = cred[c].owner /\ d.perms = cred[c].perms /\ d.row = cred[c].row
    BY <2>1, <2>2 DEF CredSet
  <2>4. cred' = [cred EXCEPT ![c] = d]
    OBVIOUS
  <2> HIDE DEF d, b
  <2>5. QED
    BY <1>1, <2>3, <2>4 DEF Frozen, Kept
<1>3. CASE c \notin Credentials
  <2>1. cred' = cred
    BY <1>1, <1>3
  <2>2. QED
    BY <1>1, <2>1, FrozenRefl
<1>4. QED
  BY <1>2, <1>3

LEMMA DropOK ==
  ASSUME IInv, NEW r \in Requests, RefreshDrop(r)
  PROVE  IInv'
<1>1. cred' = [cred EXCEPT ![req[r].cred].spent = @ \/ cred[req[r].cred].row]
  BY DEF RefreshDrop
<1>2. QED
  BY <1>1, SpentOK, Refusal, FrozenRefl, Known DEF RefreshDrop, Results

\* A request ends served, with what it issued or nothing.
LEMMA DeliverOK ==
  ASSUME IInv, NEW r \in Requests, NEW c \in Credentials \cup {None}, Deliver(r, c), Flying(req[r]),
         req[r].pc \notin {"pop", "idp", "check", "load", "drop", "user"},
         UNCHANGED <<users, login, changes>>, req[r].user \in since[r].active,
         cred' \in [Credentials -> CredSet], Frozen(cred, cred'), Kept(cred, cred'),
         req[r].kind \in Calls /\ req[r].need # None =>
            req[r].need \in cred[req[r].cred].perms \cap since[r].held[req[r].user],
         c # None =>
            /\ cred'[c].owner \in Users
            /\ cred'[c].perms \subseteq since[r].held[cred'[c].owner]
            /\ cred'[c].owner = IF req[r].kind = "mint" THEN req[r].target ELSE req[r].user
            /\ Allowed(c, cred'[c].perms)
  PROVE  IInv'
<1> DEFINE o == [req[r] EXCEPT !.pc = "done", !.result = "ok", !.out = c]
<1>1. /\ o \in ReqSet /\ o.pc = "done" /\ o.result = "ok" /\ o.out = c
      /\ o.kind = req[r].kind /\ o.cred = req[r].cred /\ o.need = req[r].need
      /\ o.user = req[r].user /\ o.target = req[r].target
  <2>1. "done" \in Labels /\ "ok" \in Results /\ req[r] \in ReqSet
    BY Known DEF Labels, Results
  <2>2. QED
    BY <2>1 DEF ReqSet
<1>2. req' = [req EXCEPT ![r] = o] /\ UNCHANGED since
  BY DEF Deliver
<1> HIDE DEF o
<1>3. GoodReq(req[r], since[r], users, cred, login)
  BY Known
<1>4. Kinded(o) /\ Seen(o, since[r], users) /\ Doubt(o, since[r], users, login') /\ Checked(o, since[r])
      /\ WasGood(o, since[r])
  BY <1>1, <1>3 DEF GoodReq, Kinded, Seen, Doubt, Checked, WasGood, Flying
<1>5. Entitled(o, since[r], cred')
  <2>1. ASSUME o.kind \in Calls
        PROVE  cred[o.cred].owner = o.user /\ o.user \in Users /\ o.cred \in Credentials
    BY <1>1, <1>3, <2>1 DEF GoodReq, Entitled, Kinded
  <2>2. ASSUME o.kind \in Calls
        PROVE  cred'[o.cred].owner = o.user /\ cred'[o.cred].perms = cred[o.cred].perms
    BY <2>1, <2>2, SetAssumption DEF Frozen
  <2>3. QED
    BY <1>1, <2>1, <2>2 DEF Entitled
<1>6. Carried(o, since[r], cred')
  BY <1>1 DEF Carried
<1>7. GoodReq(o, since[r], users, cred', login')
  BY <1>4, <1>5, <1>6 DEF GoodReq
<1>8. QED
  BY <1>1, <1>2, <1>7, Going, Known, FrozenRefl

LEMMA ResolveOK ==
  ASSUME IInv, NEW r \in Requests, Resolve(r)
  PROVE  IInv'
<1> DEFINE P == users[req[r].user].perms \cap Management
           o == [req[r] EXCEPT !.pc = "commit", !.perms = P]
<1>1. GoodReq(req[r], since[r], users, cred, login) /\ req[r].pc = "resolve"
      /\ UNCHANGED <<users, cred, login, changes>>
  BY Known DEF Resolve
<1>2. CASE ToWith(r, "commit", P) /\ (req[r].kind = "refresh" => ~PairLocked(req[r].cred))
  <2>1. req[r].user \in Users /\ P \subseteq since[r].held[req[r].user] \cap Management
    BY <1>1 DEF GoodReq, Kinded, Seen, Flying
  <2>2. P \in SUBSET Permissions
    BY DEF Permissions
  <2>3. GoodReq(o, since[r], users, cred, login)
    BY <1>1, <2>1, Rest
       DEF GoodReq, Kinded, Seen, WasGood, Doubt, Checked, Entitled, Carried, Flying, Ok, Calls
  <2>4. "commit" \in Labels \ {"new", "done", "pop"} /\ Flying(req[r])
    BY <1>1 DEF Labels, Flying
  <2>5. req' = [req EXCEPT ![r].pc = "commit", ![r].perms = P] /\ UNCHANGED since
    BY <1>2 DEF ToWith
  <2> HIDE DEF P
  <2>6. QED
    BY <1>1, <1>2, <2>2, <2>3, <2>4, <2>5, ToOK
<1>3. CASE Refuse(r, "failed")
  BY <1>1, <1>3, Refusal, FrozenRefl, Known DEF Results
<1>4. QED
  BY <1>2, <1>3 DEF Resolve

\* What is issued to u has an owner and a row, and had neither.
LEMMA IssuedOK ==
  ASSUME IInv, NEW u \in Users, NEW P \in SUBSET Permissions, NEW c \in Credentials,
         cred[c].owner = None
  PROVE  LET D == [cred EXCEPT ![c] = Issued(u, P)] IN
         /\ D \in [Credentials -> CredSet] /\ Frozen(cred, D) /\ Kept(cred, D)
         /\ D[c].owner = u /\ D[c].perms = P
<1> DEFINE d == Issued(u, P)
<1>1. d \in CredSet /\ d.owner = u /\ d.perms = P /\ d.row = TRUE
  BY DEF Issued, Unissued, CredSet
<1> HIDE DEF d
<1>2. cred \in [Credentials -> CredSet]
  BY DEF IInv, Typed
<1> DEFINE D == [cred EXCEPT ![c] = d]
<1>3. D \in [Credentials -> CredSet] /\ D[c] = d /\ \A b \in Credentials : b # c => D[b] = cred[b]
  BY <1>1, <1>2
<1> HIDE DEF D
<1>4. Frozen(cred, D) /\ Kept(cred, D)
  BY <1>1, <1>3 DEF Frozen, Kept
<1>5. QED
  BY <1>1, <1>3, <1>4 DEF D, d

LEMMA CommitOK ==
  ASSUME IInv, NEW r \in Requests, NEW p \in Pairs, CommitPair(r, p)
  PROVE  IInv'
<1>1. GoodReq(req[r], since[r], users, cred, login) /\ req[r].pc = "commit" /\ cred[p].owner = None
      /\ UNCHANGED <<users, login, changes>> /\ p \in Credentials
  BY Known DEF CommitPair, Drawn, Credentials
<1>2. CASE users[req[r].user].status = "gone"
  BY <1>1, <1>2, Refusal, FrozenRefl, Known DEF CommitPair, Results
<1>3. CASE users[req[r].user].status # "gone"
  <2> DEFINE P == req[r].perms
             u == req[r].user
             D == [cred EXCEPT ![p] = Issued(u, P)]
  <2>1. u \in Users /\ P \in SUBSET Permissions /\ P \subseteq since[r].held[u] \cap Management
        /\ req[r].kind \notin Calls /\ u \in since[r].active
    BY <1>1, Known DEF GoodReq, Kinded, Carried, Checked, Flying, ReqSet, Calls
  <2>2. /\ D \in [Credentials -> CredSet] /\ Frozen(cred, D) /\ Kept(cred, D)
        /\ D[p].owner = u /\ D[p].perms = P
    BY <1>1, <2>1, IssuedOK
  <2>3. cred' = [c \in Credentials |->
                    IF c = p THEN Issued(u, P)
                    ELSE IF req[r].kind = "refresh" /\ c = req[r].cred
                         THEN [cred[c] EXCEPT !.spent = TRUE] ELSE cred[c]]
    BY <1>3 DEF CommitPair
  <2>4. \A c \in Credentials : /\ cred'[c] \in CredSet /\ cred'[c].owner = D[c].owner
                                /\ cred'[c].perms = D[c].perms /\ cred'[c].row = D[c].row
    <3>1. D \in [Credentials -> CredSet] /\ D[p] = Issued(u, P) /\ \A c \in Credentials : c # p => D[c] = cred[c]
      BY <1>1, <2>2, Known
    <3> HIDE DEF D
    <3>2. ASSUME NEW c \in Credentials
          PROVE  cred'[c] = D[c] \/ cred'[c] = [D[c] EXCEPT !.spent = TRUE]
      BY <2>3, <3>1
    <3>3. ASSUME NEW d \in CredSet, NEW b, b = [d EXCEPT !.spent = TRUE]
          PROVE  b \in CredSet /\ b.owner = d.owner /\ b.perms = d.perms /\ b.row = d.row
      BY <3>3 DEF CredSet
    <3>4. QED
      BY <3>1, <3>2, <3>3
  <2>5. cred' \in [Credentials -> CredSet] /\ Frozen(cred, cred') /\ Kept(cred, cred')
    <3>1. cred' \in [Credentials -> CredSet]
      BY <2>3, <2>4
    <3> HIDE DEF D
    <3>2. QED
      BY <2>2, <2>4, <3>1 DEF Frozen, Kept
  <2>6. cred'[p].owner = u /\ cred'[p].perms = P
    BY <1>1, <2>2, <2>4
  <2>7. Allowed(p, P) /\ p # None /\ req[r].kind # "mint"
    BY <1>1, <2>1, SetAssumption DEF Allowed, GoodReq, Kinded
  <2>8. Deliver(r, p)
    BY <1>3 DEF CommitPair
  <2>9. Flying(req[r]) /\ req[r].pc \notin {"pop", "idp", "check", "load", "drop", "user"}
    BY <1>1 DEF Flying
  <2> HIDE DEF P, u, D
  <2>10. cred'[p].owner \in Users /\ cred'[p].perms \subseteq since[r].held[cred'[p].owner]
         /\ cred'[p].owner = req[r].user /\ Allowed(p, cred'[p].perms) /\ req[r].user \in since[r].active
    BY <2>1, <2>6, <2>7 DEF u
  <2>11. QED
    BY <1>1, <2>1, <2>5, <2>7, <2>8, <2>9, <2>10, DeliverOK
<1>4. QED
  BY <1>2, <1>3

\* A request goes on to its next label when what the label stands for holds.
LEMMA OnOK ==
  ASSUME IInv, NEW r \in Requests, NEW l \in {"idp", "perms", "logout", "leave", "mint", "sign", "revoke", "cancel"},
         To(r, l), UNCHANGED <<users, cred, login, changes>>, Flying(req[r]),
         LET o == [req[r] EXCEPT !.pc = l, !.perms = req[r].perms] IN GoodReq(o, since[r], users, cred, login)
  PROVE  IInv'
<1>1. /\ req' = [req EXCEPT ![r].pc = l, ![r].perms = req[r].perms]
      /\ req[r].perms \in SUBSET Permissions /\ UNCHANGED since
  BY ToAlone DEF To
<1>2. l \in Labels \ {"new", "done", "pop"} /\ l # "commit"
  BY DEF Labels
<1>3. QED
  BY <1>1, <1>2, ToOK

LEMMA PopOK ==
  ASSUME IInv, NEW r \in Requests, CallbackPop(r)
  PROVE  IInv'
<1>1. GoodReq(req[r], since[r], users, cred, login) /\ req[r].pc = "pop" /\ Flying(req[r])
      /\ UNCHANGED <<users, cred, login, changes>>
  BY Known DEF CallbackPop, Flying
<1>2. CASE login[req[r].cred].expired
  BY <1>1, <1>2, Refusal, FrozenRefl, Known DEF CallbackPop, Results
<1>3. CASE ~login[req[r].cred].expired
  <2> DEFINE o == [req[r] EXCEPT !.pc = "idp", !.perms = req[r].perms]
  <2>1. To(r, "idp")
    BY <1>3 DEF CallbackPop
  <2>2. GoodReq(o, since[r], users, cred, login)
    BY <1>1, <1>3, Rest
       DEF GoodReq, Kinded, Seen, WasGood, Doubt, Checked, Entitled, Carried, Flying, Ok, Calls
  <2>3. QED
    BY <1>1, <2>1, <2>2, OnOK
<1>4. QED
  BY <1>2, <1>3

LEMMA CallUserOK ==
  ASSUME IInv, NEW r \in Requests, CallUser(r)
  PROVE  IInv'
<1>1. GoodReq(req[r], since[r], users, cred, login) /\ req[r].pc = "user" /\ Flying(req[r])
      /\ UNCHANGED <<users, cred, login, changes>>
  BY Known DEF CallUser, Flying
<1>2. CASE ~Active(req[r].user)
  BY <1>1, <1>2, Refusal, FrozenRefl, Known DEF CallUser, Results
<1>3. CASE Active(req[r].user)
  <2> DEFINE o == [req[r] EXCEPT !.pc = "perms", !.perms = req[r].perms]
  <2>1. To(r, "perms")
    BY <1>3 DEF CallUser
  <2>2. req[r].user \in Users /\ req[r].user \in since[r].active /\ req[r].cred \in since[r].good
    BY <1>1, <1>3 DEF GoodReq, Kinded, Seen, Doubt, Flying, Active
  <2>3. GoodReq(o, since[r], users, cred, login)
    BY <1>1, <2>2, Rest
       DEF GoodReq, Kinded, Seen, WasGood, Doubt, Checked, Entitled, Carried, Flying, Ok, Calls
  <2>4. QED
    BY <1>1, <2>1, <2>3, OnOK
<1>4. QED
  BY <1>2, <1>3

\* Past the check of its permission a call is entitled, of an active user.
LEMMA PastPerms ==
  ASSUME IInv, NEW r \in Requests,
         req[r].pc \in {"logout", "leave", "mint", "sign", "revoke", "cancel"}
  PROVE  /\ Flying(req[r]) /\ req[r].kind \in Calls /\ req[r].user \in since[r].active
         /\ req[r].need # None => req[r].need \in cred[req[r].cred].perms \cap since[r].held[req[r].user]
<1>1. GoodReq(req[r], since[r], users, cred, login)
  BY Known
<1>2. QED
  BY <1>1 DEF GoodReq, Kinded, Checked, Entitled, Flying, Calls

LEMMA CallPermsOK ==
  ASSUME IInv, NEW r \in Requests, CallPerms(r)
  PROVE  IInv'
<1>1. GoodReq(req[r], since[r], users, cred, login) /\ req[r].pc = "perms" /\ Flying(req[r])
      /\ UNCHANGED <<users, cred, login, changes>>
  BY Known DEF CallPerms, Flying
<1>2. CASE req[r].need # None /\ req[r].need \notin Effective(r)
  BY <1>1, <1>2, Refusal, FrozenRefl, Known DEF CallPerms, Results
<1>3. CASE ~(req[r].need # None /\ req[r].need \notin Effective(r))
  <2> DEFINE k == req[r].kind
             o == [req[r] EXCEPT !.pc = k, !.perms = req[r].perms]
  <2>1. req[r].user \in Users /\ req[r].user \in since[r].active /\ k \in Calls
    BY <1>1 DEF GoodReq, Kinded, Checked, Flying
  <2>2. req[r].need # None => req[r].need \in cred[req[r].cred].perms \cap since[r].held[req[r].user]
    BY <1>1, <1>3, <2>1 DEF GoodReq, Seen, Effective
  <2>3. CASE k = "use"
    BY <1>1, <1>3, <2>1, <2>2, <2>3, DeliverOK, FrozenRefl, Known DEF CallPerms
  <2>4. CASE k # "use"
    <3>1. k \in {"logout", "mint", "revoke"} /\ To(r, k)
      BY <1>3, <2>1, <2>4 DEF Calls, CallPerms
    <3>2. GoodReq(o, since[r], users, cred, login)
      BY <1>1, <2>1, <2>2, <3>1, Rest
         DEF GoodReq, Kinded, Seen, WasGood, Doubt, Checked, Entitled, Carried, Flying, Ok
    <3>3. QED
      BY <1>1, <3>1, <3>2, OnOK
  <2>5. QED
    BY <2>3, <2>4
<1>4. QED
  BY <1>2, <1>3

\* A call that only looks its row up, and goes on or is answered.
LEMMA LooksUpOK ==
  ASSUME IInv, NEW r \in Requests, Logout(r) \/ Revoke(r) \/ Mint(r)
  PROVE  IInv'
<1>1. /\ GoodReq(req[r], since[r], users, cred, login) /\ req[r].pc \in {"logout", "revoke", "mint"}
      /\ UNCHANGED <<users, cred, login, changes>>
  BY Known DEF Logout, Revoke, Mint
<1>2. ASSUME NEW l \in {"leave", "cancel", "sign"}, To(r, l),
             l = IF req[r].pc = "logout" THEN "leave" ELSE IF req[r].pc = "revoke" THEN "cancel" ELSE "sign",
             l = "sign" => /\ req[r].perms \subseteq users[req[r].target].perms
                           /\ req[r].perms \subseteq Management \/ req[r].perms \subseteq Gateway
      PROVE  IInv'
  <2> DEFINE o == [req[r] EXCEPT !.pc = l, !.perms = req[r].perms]
  <2>1. Flying(req[r])
    BY <1>1 DEF Flying
  <2>2. req[r].pc = "mint" => req[r].target \in Users
    BY <1>1, <2>1 DEF GoodReq, Kinded
  <2>3. l = "sign" => req[r].perms \subseteq since[r].held[req[r].target]
    BY <1>1, <1>2, <2>1, <2>2 DEF GoodReq, Seen
  <2>4. GoodReq(o, since[r], users, cred, login)
    BY <1>1, <1>2, <2>3, Rest
       DEF GoodReq, Kinded, Seen, WasGood, Doubt, Checked, Entitled, Carried, Flying, Ok
  <2>5. QED
    BY <1>1, <1>2, <2>1, <2>4, OnOK
<1>3. ASSUME NEW e \in {"notfound", "invalid"}, Refuse(r, e)
      PROVE  IInv'
  BY <1>1, <1>3, Refusal, FrozenRefl, Known DEF Results
<1>4. CASE Deliver(r, None)
  BY <1>1, <1>4, PastPerms, DeliverOK, FrozenRefl, Known
<1>5. QED
  BY <1>2, <1>3, <1>4 DEF Logout, Revoke, Mint

LEMMA SpendOK ==
  ASSUME IInv, NEW r \in Requests, LogoutCommit(r) \/ RevokeCommit(r)
  PROVE  IInv'
<1>1. req[r].pc \in {"leave", "cancel"} /\ Spend(r, req[r].arg) /\ UNCHANGED <<users, login, changes>>
  BY DEF LogoutCommit, RevokeCommit, Spend
<1>2. cred' \in [Credentials -> CredSet] /\ Frozen(cred, cred') /\ Kept(cred, cred')
  BY <1>1, SpentOK DEF Spend
<1>3. CASE Deliver(r, None)
  BY <1>1, <1>2, <1>3, PastPerms, DeliverOK
<1>4. CASE Refuse(r, "failed")
  BY <1>1, <1>2, <1>4, Refusal, FrozenRefl, Known DEF Results
<1>5. QED
  BY <1>1, <1>3, <1>4 DEF Spend

LEMMA MintCommitOK ==
  ASSUME IInv, NEW r \in Requests, NEW t \in ApiTokens, MintCommit(r, t)
  PROVE  IInv'
<1>1. GoodReq(req[r], since[r], users, cred, login) /\ req[r].pc = "sign" /\ cred[t].owner = None
      /\ UNCHANGED <<users, login, changes>> /\ t \in Credentials
  BY Known DEF MintCommit, Drawn, Credentials
<1>2. CASE users[req[r].target].status = "gone"
  BY <1>1, <1>2, Refusal, FrozenRefl, Known DEF MintCommit, Results
<1>3. CASE users[req[r].target].status # "gone"
  <2> DEFINE P == req[r].perms
             u == req[r].target
  <2>1. /\ u \in Users /\ P \in SUBSET Permissions /\ P \subseteq since[r].held[u] /\ P # {}
        /\ P \subseteq Management \/ P \subseteq Gateway
        /\ req[r].kind = "mint"
    BY <1>1, Known DEF GoodReq, Kinded, Carried, Flying, ReqSet
  <2>2. cred' = [cred EXCEPT ![t] = Issued(u, P)] /\ Deliver(r, t)
    BY <1>3 DEF MintCommit
  <2>3. /\ cred' \in [Credentials -> CredSet] /\ Frozen(cred, cred') /\ Kept(cred, cred')
        /\ cred'[t].owner = u /\ cred'[t].perms = P
    <3> DEFINE D == [cred EXCEPT ![t] = Issued(u, P)]
    <3>1. /\ D \in [Credentials -> CredSet] /\ Frozen(cred, D) /\ Kept(cred, D)
          /\ D[t].owner = u /\ D[t].perms = P
      <4>1. u \in Users /\ P \in SUBSET Permissions /\ t \in Credentials /\ cred[t].owner = None
        BY <1>1, <2>1
      <4> HIDE DEF P, u
      <4>2. QED
        BY <4>1, IssuedOK
    <3>2. cred' = D
      BY <2>2
    <3> HIDE DEF D
    <3>3. QED
      BY <3>1, <3>2
  <2>4. Allowed(t, P)
    BY <2>1, SetAssumption DEF Allowed
  <2> HIDE DEF P
  <2>5. QED
    BY <1>1, <2>1, <2>2, <2>3, <2>4, PastPerms, DeliverOK
<1>4. QED
  BY <1>2, <1>3

-----------------------------------------------------------------------------
\* A change of a user that the requests in flight see spoils none of them.
LEMMA Witnessed ==
  ASSUME IInv, NEW u \in Users, NEW v \in UserSet, NEW P \in SUBSET Permissions, NEW b \in BOOLEAN,
         users' = [users EXCEPT ![u] = v], Witness(u, P, b),
         v.perms \subseteq P \/ v.perms \subseteq users[u].perms,
         v.status = "active" => b \/ users[u].status = "active"
  PROVE  /\ users' \in [Users -> UserSet] /\ since' \in [Requests -> SinceSet]
         /\ \A q \in Requests : Grown(since[q], since'[q]) /\ Seen(req[q], since'[q], users')
<1>1. users \in [Users -> UserSet] /\ since \in [Requests -> SinceSet]
  BY DEF IInv, Typed
<1>2. users' \in [Users -> UserSet]
  BY <1>1
<1>3. ASSUME NEW q \in Requests
      PROVE  /\ since'[q] \in SinceSet /\ Grown(since[q], since'[q])
             /\ Seen(req[q], since'[q], users')
  <2>1. since[q] \in SinceSet /\ Seen(req[q], since[q], users)
    BY <1>1 DEF IInv, GoodReq
  <2>2. CASE ~Flying(req[q])
    <3>1. since'[q] = since[q]
      BY <2>2 DEF Witness, Flying
    <3>2. QED
      BY <2>1, <2>2, <3>1 DEF Grown, Seen
  <2>3. CASE Flying(req[q])
    <3> DEFINE w == since[q]
               x == [w EXCEPT !.held[u] = @ \cup P, !.active = IF b THEN @ \cup {u} ELSE @]
    <3>1. since'[q] = x
      BY <2>3 DEF Witness, Flying
    <3>2. /\ x.held = [w.held EXCEPT ![u] = @ \cup P] /\ x.active = IF b THEN w.active \cup {u} ELSE w.active
          /\ x.good = w.good /\ x.fresh = w.fresh /\ x \in SinceSet
      BY <2>1 DEF SinceSet
    <3>3. w.held \in [Users -> SUBSET Permissions]
      BY <2>1 DEF SinceSet
    <3> HIDE DEF x
    <3>4. Grown(w, x)
      BY <3>2, <3>3 DEF Grown
    <3>5. Seen(req[q], x, users')
      BY <1>1, <2>1, <2>3, <3>2, <3>3 DEF Seen
    <3>6. QED
      BY <3>1, <3>2, <3>4, <3>5
  <2>4. QED
    BY <2>2, <2>3
<1>4. since' \in [Requests -> SinceSet]
  BY <1>3 DEF Witness
<1>5. QED
  BY <1>2, <1>3, <1>4

\* What administrators and time do keeps every request good.
LEMMA Outside ==
  ASSUME IInv, UNCHANGED req, changes' \in 0..MaxChanges,
         users' \in [Users -> UserSet], since' \in [Requests -> SinceSet],
         cred' \in [Credentials -> CredSet], login' \in [States -> LoginSet],
         Frozen(cred, cred'), Onward(login, login'), Buried(users, users', cred), Rowless(cred', users'),
         \A q \in Requests : Grown(since[q], since'[q]) /\ Seen(req[q], since'[q], users')
  PROVE  IInv'
<1>1. Typed' /\ Locks(req')
  BY DEF IInv, Typed
<1>2. ASSUME NEW q \in Requests
      PROVE  GoodReq(req'[q], since'[q], users', cred', login')
  <2>1. GoodReq(req[q], since[q], users, cred, login)
    BY DEF IInv
  <2>2. QED
    BY <2>1, GoodStays DEF IInv, Typed
<1>3. QED
  BY <1>1, <1>2 DEF IInv

LEMMA ProvisionOK ==
  ASSUME IInv, NEW r \in Requests, NEW u \in Users, NEW P \in SUBSET Permissions, Provision(r, u, P)
  PROVE  IInv'
<1> DEFINE v == [status |-> IF users[u].status = "gone" THEN "active" ELSE users[u].status, perms |-> P]
           b == users[u].status # "inactive"
           o == [req[r] EXCEPT !.pc = "check", !.user = u]
<1>1. /\ req[r].pc = "idp" /\ req' = [req EXCEPT ![r] = o] /\ UNCHANGED <<cred, changes>>
      /\ users' = [users EXCEPT ![u] = v] /\ Witness(u, P, b)
      /\ login' = [login EXCEPT ![req[r].cred].row = "gone"]
      /\ users[u].status = "gone" => \A c \in Credentials : cred[c].owner # u
  BY Known DEF Provision
<1>2. users[u] \in UserSet /\ req[r] \in ReqSet /\ GoodReq(req[r], since[r], users, cred, login)
  BY Known
<1>3. v \in UserSet /\ v.perms = P /\ (v.status = "active" => b \/ users[u].status = "active")
      /\ (v.status = "gone" <=> FALSE) /\ b \in BOOLEAN
  BY <1>2 DEF UserSet
<1>4. /\ users' \in [Users -> UserSet] /\ since' \in [Requests -> SinceSet]
      /\ \A q \in Requests : Grown(since[q], since'[q]) /\ Seen(req[q], since'[q], users')
  <2> HIDE DEF v, b
  <2>1. QED
    BY <1>1, <1>3, Witnessed
<1>5. /\ o \in ReqSet /\ o.pc = "check" /\ o.user = u /\ o.kind = "callback" /\ o.cred = req[r].cred
      /\ req[r].kind = "callback"
  <2>1. "check" \in Labels /\ req[r].kind = "callback"
    BY <1>1, <1>2 DEF Labels, GoodReq, Kinded
  <2>2. QED
    BY <1>2, <2>1 DEF ReqSet
<1>6. login' \in [States -> LoginSet] /\ Onward(login, login')
  <2>1. req[r].cred \in States /\ login \in [States -> LoginSet]
    BY <1>2, <1>5, Known DEF GoodReq, Kinded
  <2>2. [login[req[r].cred] EXCEPT !.row = "gone"] \in LoginSet
    BY <2>1 DEF LoginSet
  <2>3. QED
    BY <1>1, <2>1, <2>2 DEF Onward, LoginSet
<1>7. Buried(users, users', cred) /\ Rowless(cred', users')
  <2>1. \A c \in Credentials : cred[c].owner # None =>
           cred[c].owner \in Users /\ (users[cred[c].owner].status = "gone" => cred[c].owner # u)
    BY <1>1, Known DEF CredSet
  <2>2. QED
    BY <1>1, <2>1, Known DEF Buried, Rowless, IInv
<1> HIDE DEF o, v, b
<1>8. ASSUME NEW q \in Requests
      PROVE  GoodReq(req'[q], since'[q], users', cred', login') /\ req'[q] \in ReqSet
  <2>1. req[q] \in ReqSet /\ since[q] \in SinceSet /\ since'[q] \in SinceSet
        /\ GoodReq(req[q], since[q], users, cred, login)
    BY <1>4, Known
  <2>2. GoodReq(req[q], since'[q], users', cred', login')
    <3>1. /\ Frozen(cred, cred') /\ Onward(login, login') /\ Buried(users, users', cred)
          /\ Grown(since[q], since'[q]) /\ Seen(req[q], since'[q], users')
          /\ cred \in [Credentials -> CredSet] /\ cred' \in [Credentials -> CredSet]
          /\ login \in [States -> LoginSet] /\ login' \in [States -> LoginSet]
      BY <1>1, <1>4, <1>6, <1>7, FrozenRefl, Known
    <3>2. QED
      BY <2>1, <3>1, GoodStays
  <2>3. CASE q # r
    BY <1>1, <2>1, <2>2, <2>3, Known
  <2>4. CASE q = r
    <3>1. req'[q] = o
      BY <1>1, <2>4, Known
    <3>2. GoodReq(o, since'[q], users', cred', login')
      BY <1>1, <1>5, <2>2, <2>4
         DEF GoodReq, Kinded, Seen, WasGood, Doubt, Checked, Entitled, Carried, Flying, Ok, Calls
    <3>3. QED
      BY <1>5, <3>1, <3>2
  <2>5. QED
    BY <2>3, <2>4
<1>9. Typed'
  BY <1>1, <1>4, <1>6, <1>8, Known DEF IInv, Typed
<1>10. Locks(req')
  BY <1>1, <1>5, Known DEF IInv, Locks
<1>11. QED
  BY <1>7, <1>8, <1>9, <1>10 DEF IInv

LEMMA EnvironmentOK ==
  ASSUME IInv, Environment
  PROVE  IInv'
<1>1. changes' \in 0..MaxChanges
  BY SetAssumption DEF IInv, Typed, Environment
<1>2. /\ users \in [Users -> UserSet] /\ cred \in [Credentials -> CredSet]
      /\ login \in [States -> LoginSet] /\ since \in [Requests -> SinceSet] /\ Rowless(cred, users)
      /\ \A q \in Requests : Seen(req[q], since[q], users)
  BY DEF IInv, Typed, GoodReq
<1>3. \A c \in Credentials : cred[c].owner # None => cred[c].owner \in Users
  BY <1>2 DEF CredSet
<1>4. ASSUME NEW u \in Users, NEW v \in UserSet, NEW P \in SUBSET Permissions, NEW b \in BOOLEAN,
             users' = [users EXCEPT ![u] = v], Witness(u, P, b), UNCHANGED <<cred, login, req>>,
             v.perms \subseteq P \/ v.perms \subseteq users[u].perms,
             v.status = "active" => b \/ users[u].status = "active",
             users[u].status # "gone", v.status # "gone"
      PROVE  IInv'
  <2>1. /\ users' \in [Users -> UserSet] /\ since' \in [Requests -> SinceSet]
        /\ \A q \in Requests : Grown(since[q], since'[q]) /\ Seen(req[q], since'[q], users')
    BY <1>4, Witnessed
  <2>2. Buried(users, users', cred) /\ Rowless(cred', users')
    BY <1>2, <1>3, <1>4 DEF Buried, Rowless
  <2>3. QED
    BY <1>1, <1>2, <1>4, <2>1, <2>2, Outside, FrozenRefl
<1>5. ASSUME NEW u \in Users, NEW P \in Grants, SetPermissions(u, P)
      PROVE  IInv'
  <2> DEFINE v == [users[u] EXCEPT !.perms = P]
  <2>1. P \in SUBSET Permissions /\ users[u] \in UserSet
    BY <1>2, SetAssumption
  <2>2. v \in UserSet /\ v.perms = P /\ v.status = users[u].status
    BY <2>1 DEF UserSet
  <2>3. users' = [users EXCEPT ![u] = v]
    BY <1>5 DEF SetPermissions
  <2> HIDE DEF v
  <2>4. QED
    BY <1>4, <1>5, <2>1, <2>2, <2>3 DEF SetPermissions
<1>6. ASSUME NEW u \in Users, NEW b \in BOOLEAN, SetActive(u, b)
      PROVE  IInv'
  <2> DEFINE v == [users[u] EXCEPT !.status = IF b THEN "active" ELSE "inactive"]
  <2>1. {} \in SUBSET Permissions /\ users[u] \in UserSet
    BY <1>2
  <2>2. v \in UserSet /\ v.perms = users[u].perms /\ v.status = IF b THEN "active" ELSE "inactive"
    BY <2>1 DEF UserSet
  <2>3. users' = [users EXCEPT ![u] = v] /\ Witness(u, {}, b)
    BY <1>6 DEF SetActive
  <2> HIDE DEF v
  <2>4. QED
    <3>1. /\ UNCHANGED <<cred, login, req>> /\ v.perms \subseteq users[u].perms
          /\ v.status = "active" => b
          /\ users[u].status # "gone" /\ v.status # "gone"
      BY <1>6, <2>2 DEF SetActive
    <3>2. QED
      BY <1>4, <2>1, <2>2, <2>3, <3>1
<1>7. ASSUME NEW u \in Users, DeleteUser(u)
      PROVE  IInv'
  <2> DEFINE v == [status |-> "gone", perms |-> {}]
  <2>1. v \in UserSet /\ v.status = "gone" /\ v.perms = {}
    BY DEF UserSet
  <2>2. users' = [users EXCEPT ![u] = v] /\ UNCHANGED <<login, req, since>>
    BY <1>7 DEF DeleteUser
  <2> HIDE DEF v
  <2>3. users' \in [Users -> UserSet] /\ users'[u].status = "gone" /\ users'[u].perms = {}
        /\ \A t \in Users : t # u => users'[t] = users[t]
    BY <1>2, <2>1, <2>2
  <2>4. cred' = [c \in Credentials |-> IF cred[c].owner = u THEN [cred[c] EXCEPT !.row = FALSE] ELSE cred[c]]
    BY <1>7 DEF DeleteUser
  <2>5. ASSUME NEW c \in Credentials
        PROVE  /\ cred'[c] \in CredSet /\ cred'[c].owner = cred[c].owner /\ cred'[c].perms = cred[c].perms
               /\ cred[c].owner # u => cred'[c].row = cred[c].row
    <3>1. cred[c] \in CredSet
      BY <1>2
    <3>2. QED
      BY <2>4, <3>1 DEF CredSet
  <2>6. cred' \in [Credentials -> CredSet] /\ Frozen(cred, cred')
    BY <2>4, <2>5 DEF Frozen
  <2>7. Buried(users, users', cred) /\ Rowless(cred', users')
    BY <1>2, <1>3, <2>3, <2>5 DEF Buried, Rowless
  <2>8. \A q \in Requests : Grown(since[q], since'[q]) /\ Seen(req[q], since'[q], users')
    BY <1>2, <2>2, <2>3 DEF Grown, Seen
  <2>9. QED
    BY <1>1, <1>2, <2>2, <2>3, <2>6, <2>7, <2>8, Outside, FrozenRefl
<1>8. ASSUME NEW c \in Credentials, Lapse(c) \/ Age(c)
      PROVE  IInv'
  <2>1. cred[c] \in CredSet /\ UNCHANGED <<users, login, req, since>>
    BY <1>2, <1>8 DEF Lapse, Age
  <2>2. PICK d \in CredSet : cred' = [cred EXCEPT ![c] = d] /\ d.owner = cred[c].owner
                             /\ d.perms = cred[c].perms /\ d.row = cred[c].row
    <3>1. /\ [cred[c] EXCEPT !.lapsed = TRUE] \in CredSet /\ [cred[c] EXCEPT !.aged = TRUE] \in CredSet
      BY <2>1 DEF CredSet
    <3>2. CASE Lapse(c)
      BY <2>1, <3>1, <3>2 DEF Lapse, CredSet
    <3>3. CASE Age(c)
      BY <2>1, <3>1, <3>3 DEF Age, CredSet
    <3>4. QED
      BY <1>8, <3>2, <3>3
  <2>3. cred' \in [Credentials -> CredSet] /\ Frozen(cred, cred') /\ Rowless(cred', users')
    BY <1>2, <2>1, <2>2 DEF Frozen, Rowless
  <2>4. \A q \in Requests : Grown(since[q], since'[q]) /\ Seen(req[q], since'[q], users')
    BY <1>2, <2>1 DEF Grown
  <2>5. QED
    BY <1>1, <1>2, <2>1, <2>3, <2>4, Outside, FrozenRefl
<1>9. ASSUME NEW s \in States, ExpireState(s)
      PROVE  IInv'
  <2>1. login[s] \in LoginSet /\ UNCHANGED <<users, cred, req, since>>
    BY <1>2, <1>9 DEF ExpireState
  <2>2. login' \in [States -> LoginSet] /\ Onward(login, login')
    BY <1>2, <1>9, <2>1 DEF ExpireState, Onward, LoginSet
  <2>3. \A q \in Requests : Grown(since[q], since'[q]) /\ Seen(req[q], since'[q], users')
    BY <1>2, <2>1 DEF Grown
  <2>4. QED
    BY <1>1, <1>2, <2>1, <2>2, <2>3, Outside, FrozenRefl
<1>10. QED
  BY <1>5, <1>6, <1>7, <1>8, <1>9 DEF Environment

LEMMA AuthorizeOK ==
  ASSUME IInv, NEW s \in States, Authorize(s)
  PROVE  IInv'
<1>1. /\ users \in [Users -> UserSet] /\ cred \in [Credentials -> CredSet]
      /\ login \in [States -> LoginSet] /\ since \in [Requests -> SinceSet] /\ Rowless(cred, users)
      /\ \A q \in Requests : Seen(req[q], since[q], users)
      /\ changes \in 0..MaxChanges
  BY DEF IInv, Typed, GoodReq
<1>2. UNCHANGED <<users, cred, req, since, changes>> /\ login' = [login EXCEPT ![s] = Open]
      /\ login[s].row = "unused"
  BY DEF Authorize
<1>3. Open \in LoginSet
  BY DEF Open, LoginSet
<1>4. login' \in [States -> LoginSet] /\ Onward(login, login')
  BY <1>1, <1>2, <1>3 DEF Onward
<1>5. \A q \in Requests : Grown(since[q], since'[q]) /\ Seen(req[q], since'[q], users')
  BY <1>1, <1>2 DEF Grown
<1>6. QED
  BY <1>1, <1>2, <1>4, <1>5, Outside, FrozenRefl

LEMMA StepOK ==
  ASSUME IInv, [Next]_vars
  PROVE  IInv'
<1>1. CASE UNCHANGED vars
  BY <1>1 DEF vars, IInv, Typed
<1>2. ASSUME NEW r \in Requests, RequestStep(r)
      PROVE  IInv'
  <2>1. \A P \in Grants : P \in SUBSET Permissions
    BY SetAssumption
  <2>2. QED
    BY <1>2, <2>1, CheckedOK, DropOK, ResolveOK, CommitOK, PopOK, FailsOK, ProvisionOK, CallUserOK,
       CallPermsOK, LooksUpOK, SpendOK, MintCommitOK DEF RequestStep
<1>3. CASE Next
  BY <1>2, <1>3, StartOK, FailsOK, AuthorizeOK, EnvironmentOK DEF Next
<1>4. QED
  BY <1>1, <1>3

LEMMA InitOK == Init => IInv
<1> SUFFICES ASSUME Init PROVE IInv
  OBVIOUS
<1>1. /\ Unused \in ReqSet /\ Unused.pc = "new" /\ Unused.kind = "login" /\ Unused.cred = None
      /\ Nothing \in SinceSet
  BY DEF Unused, ReqSet, Nothing, SinceSet, Labels, Kinds, Results
<1>2. ASSUME NEW c \in Credentials
      PROVE  cred[c] \in CredSet /\ (cred[c].owner # None => cred[c].row)
  <2>1. cred[c] \in {Unissued} \cup [owner : {u \in Users : users[u].status # "gone"},
                                     perms : SUBSET Permissions, row : {TRUE},
                                     spent : BOOLEAN, aged : {FALSE}, lapsed : {FALSE}]
    BY DEF Init
  <2>2. CASE cred[c] = Unissued
    BY <2>2 DEF Unissued, CredSet
  <2>3. CASE cred[c] # Unissued
    BY <2>1, <2>3 DEF CredSet
  <2>4. QED
    BY <2>2, <2>3
<1>3. cred \in [Credentials -> CredSet] /\ Rowless(cred, users)
  BY <1>2 DEF Init, Rowless
<1>4. Typed
  <2>1. users \in [Users -> UserSet]
    BY DEF Init, UserSet
  <2>2. login \in [States -> LoginSet]
    BY DEF Init, LoginSet
  <2>3. req \in [Requests -> ReqSet] /\ since \in [Requests -> SinceSet]
    BY <1>1 DEF Init
  <2>4. changes \in 0..MaxChanges
    BY SetAssumption DEF Init
  <2>5. QED
    BY <1>3, <2>1, <2>2, <2>3, <2>4 DEF Typed
<1>5. \A r \in Requests : req[r] = Unused
  BY DEF Init
<1>6. \A w : GoodReq(Unused, w, users, cred, login)
  BY <1>1 DEF GoodReq, Kinded, Seen, WasGood, Doubt, Checked, Entitled, Carried, Flying, Ok, Calls
<1>7. Locks(req)
  BY <1>1, <1>5 DEF Locks
<1>8. QED
  BY <1>3, <1>4, <1>5, <1>6, <1>7 DEF IInv

LEMMA Safe == Spec => Init /\ [][Next]_vars
  BY PTL DEF Spec

LEMMA Inductive == Spec => []IInv
<1>1. Init /\ [][Next]_vars => []IInv
  BY InitOK, StepOK, PTL
<1>2. QED
  BY <1>1, Safe

-----------------------------------------------------------------------------
\* Every variable keeps its type, and one refresh at a time holds a token.
THEOREM TypeCorrect == Spec => []TypeOK
  BY Inductive, TypedIsTypeOK, PTL

\* However requests overlap, whoever is served had a credential that was good
\* when it began.
THEOREM RevocationHolds == Spec => []RevokedRefused
<1>1. IInv => RevokedRefused
  BY DEF IInv, GoodReq, WasGood, RevokedRefused, Served, Ok
<1>2. QED
  BY <1>1, Inductive, PTL

\* Whatever administrators do meanwhile, a served call needs what its JWT
\* grants and its user has held during it.
THEOREM ServesWithinHeld == Spec => []ServedWithinHeld
<1>1. IInv => ServedWithinHeld
  <2>1. SUFFICES ASSUME IInv, NEW r \in Requests, Served(r), req[r].kind \in Calls, req[r].need # None
                 PROVE  req[r].need \in cred[req[r].cred].perms \cap since[r].held[req[r].user]
    BY DEF ServedWithinHeld
  <2>2. Entitled(req[r], since[r], cred)
    BY <2>1 DEF IInv, GoodReq
  <2>3. QED
    BY <2>1, <2>2 DEF Entitled, Served, Ok
<1>2. QED
  BY <1>1, Inductive, PTL

\* What a request issued carries what its owner has held, for ever after.
THEOREM IssuesWithinHeld == Spec => []IssuedWithinHeld
<1>1. IInv => IssuedWithinHeld
  <2>1. SUFFICES ASSUME IInv, NEW r \in Requests, Served(r), req[r].out # None
                 PROVE  LET c == req[r].out IN
                        /\ cred[c].perms \subseteq since[r].held[cred[c].owner]
                        /\ cred[c].owner = IF req[r].kind = "mint" THEN req[r].target ELSE req[r].user
                        /\ Allowed(c, cred[c].perms)
    BY DEF IssuedWithinHeld
  <2>2. Carried(req[r], since[r], cred)
    BY <2>1 DEF IInv, GoodReq
  <2>3. QED
    BY <2>1, <2>2 DEF Carried, Served, Ok
<1>2. QED
  BY <1>1, Inductive, PTL

\* Who was deactivated before and is not activated since gets nothing.
THEOREM DeactivationHolds == Spec => []DeactivatedGetsNothing
<1>1. IInv => DeactivatedGetsNothing
  BY DEF IInv, GoodReq, Checked, DeactivatedGetsNothing, Served, Ok
<1>2. QED
  BY <1>1, Inductive, PTL

\* Only the provisioning of its user consumes a state.
THEOREM FailedLoginKeepsState == Spec => StateGoesWithLogin
<1>1. ASSUME IInv, [Next]_vars, NEW s \in States, login[s].row = "open", login'[s].row = "gone"
      PROVE  \E r \in Requests : req[r].cred = s /\ req[r].pc = "idp" /\ req'[r].pc = "check"
  <2>1. login \in [States -> LoginSet] /\ req \in [Requests -> ReqSet]
    BY <1>1 DEF IInv, Typed
  <2>2. ASSUME NEW r \in Requests, NEW u \in Users, NEW P, Provision(r, u, P)
        PROVE  req[r].cred = s /\ req[r].pc = "idp" /\ req'[r].pc = "check"
    BY <1>1, <2>1, <2>2 DEF Provision
  <2>3. login' # login
    BY <1>1
  <2>4. ASSUME NEW r \in Requests, RequestStart(r)
        PROVE  FALSE
    BY <2>3, <2>4 DEF RequestStart, CallStart, Login, Refresh, Callback, Call, Begin
  <2>5. ASSUME NEW r \in Requests, RequestStep(r)
        PROVE  \E u \in Users, P \in Grants : Provision(r, u, P)
    BY <2>3, <2>5 DEF RequestStep, RefreshLoad, RefreshDrop, Resolve, CommitPair, CallbackPop,
       CallbackRefused, CallbackCheck, CallUser, CallPerms, Logout, LogoutCommit, Spend, Mint, Revoke,
       RevokeCommit, MintCommit
  <2>6. ~\E r \in Requests : Fails(r)
    BY <2>3 DEF Fails
  <2>7. ~\E t \in States : Authorize(t)
    BY <1>1, <2>1 DEF Authorize, Open
  <2>8. ~Environment
    BY <1>1, <2>1 DEF Environment, SetPermissions, SetActive, DeleteUser, Lapse, Age, ExpireState, LoginSet
  <2>9. QED
    BY <1>1, <2>2, <2>3, <2>4, <2>5, <2>6, <2>7, <2>8 DEF Next, vars
<1>2. IInv /\ [Next]_vars =>
        [\A s \in States : login[s].row = "open" /\ login'[s].row = "gone" =>
            \E r \in Requests : req[r].cred = s /\ req[r].pc = "idp" /\ req'[r].pc = "check"]_vars
  BY <1>1
<1>3. QED
  BY <1>2, Safe, Inductive, PTL DEF StateGoesWithLogin

-----------------------------------------------------------------------------
\* RoleSync: the types and the row lock, that a sync never undoes a newer one, and
\* that a provider that does not rotate keeps the user's token in place.
LEMMA Constants ==
    /\ MaxTokens \in Nat /\ 1 \in Tokens /\ Tokens = 1..MaxTokens /\ MaxRoles \in Nat
    /\ NoToken = 0 /\ DefaultsOnly = -1 /\ NoOne \notin UserRequests
    /\ \A r \in UserRequests : r \in Tasks /\ r \notin Logins /\ r # NoOne
    /\ \A l \in Logins : l \in Tasks /\ l \notin UserRequests
BY BoundsAssumption, RequestsAssumption, NoOneAssumption, HabitsAssumption
   DEF Tokens, NoToken, DefaultsOnly, Tasks

Answers == [token : Tokens \cup {NoToken}, roles : 0..MaxRoles]
SyncLabels == {"idle", "locking", "calling", "answered", "provision"}

LEMMA AnswerTypes ==
    SyncTypeOK => /\ NoAnswer \in Answers
                  /\ \A t \in Tasks : /\ answer[t] \in Answers
                                      /\ answer[t].token \in Tokens \cup {NoToken}
                                      /\ answer[t].roles \in 0..MaxRoles
BY Constants DEF SyncTypeOK, NoAnswer, Answers

\* Ending the transaction frees the row and no other request held it.
LEMMA LeaveTyped ==
    ASSUME SyncTypeOK, NEW r \in UserRequests, pc[r] \in {"calling", "answered"}, Leave(r)
    PROVE  /\ pc' \in [Tasks -> SyncLabels] /\ rowLock' \in UserRequests \cup {NoOne}
           /\ copy' \in [UserRequests -> Tokens \cup {NoToken}]
           /\ answer' \in [Tasks -> Answers]
           /\ \A q \in UserRequests : pc'[q] \in {"calling", "answered"} <=> rowLock' = q
<1>1. pc' \in [Tasks -> SyncLabels] /\ rowLock' \in UserRequests \cup {NoOne}
      /\ copy' \in [UserRequests -> Tokens \cup {NoToken}]
  BY DEF Leave, SyncTypeOK, SyncLabels
<1>2. answer' \in [Tasks -> Answers]
  BY AnswerTypes DEF Leave, SyncTypeOK, Answers
<1>3. ASSUME NEW q \in UserRequests PROVE pc'[q] \in {"calling", "answered"} <=> rowLock' = q
  <2>1. rowLock = r /\ rowLock' = NoOne /\ q # NoOne /\ q \in Tasks /\ r \in Tasks
    BY Constants DEF Leave, SyncTypeOK
  <2>2. CASE q = r
    BY <2>1, <2>2 DEF Leave, SyncTypeOK
  <2>3. CASE q # r
    BY <2>1, <2>3 DEF Leave, SyncTypeOK
  <2> QED BY <2>2, <2>3
<1> QED BY <1>1, <1>2, <1>3

\* Every variable keeps its type, and the row stays locked by the request at work.
THEOREM SyncTypeCorrect == SyncSpec => []SyncTypeOK
<1>1. SyncInit => SyncTypeOK
  BY Constants DEF SyncInit, SyncTypeOK, NoAnswer
<1>2. SyncTypeOK /\ [SyncNext]_syncVars => SyncTypeOK'
  <2> SUFFICES ASSUME SyncTypeOK, [SyncNext]_syncVars PROVE SyncTypeOK'
    OBVIOUS
  <2>0. SyncLabels = {"idle", "locking", "calling", "answered", "provision"}
        /\ Answers = [token : Tokens \cup {NoToken}, roles : 0..MaxRoles]
    BY DEF SyncLabels, Answers
  <2>1. ASSUME NEW r \in UserRequests, Arrive(r) PROVE SyncTypeOK'
    BY <2>1, Constants DEF Arrive, SyncTypeOK, idpVars, rowVars
  <2>2. ASSUME NEW r \in UserRequests, Lock(r) PROVE SyncTypeOK'
    BY <2>2, Constants DEF Lock, SyncTypeOK, idpVars, rowVars
  <2>3. ASSUME NEW r \in UserRequests, ProviderAnswers(r) PROVE SyncTypeOK'
    <3>1. answer' \in [Tasks -> Answers]
      <4>1. CASE Rotates
        <5>1. [token |-> issued + 1, roles |-> idpRoles] \in Answers
          BY <2>3, <4>1, Constants DEF ProviderAnswers, SyncTypeOK, Answers
        <5> QED BY <2>3, <2>0, <4>1, <5>1 DEF ProviderAnswers, SyncTypeOK
      <4>2. CASE ~Rotates
        <5>1. [token |-> NoToken, roles |-> idpRoles] \in Answers
          BY Constants DEF SyncTypeOK, Answers
        <5> QED BY <2>3, <2>0, <4>2, <5>1 DEF ProviderAnswers, SyncTypeOK
      <4> QED BY <4>1, <4>2
    <3>2. issued' \in Tokens /\ live' \subseteq Tokens
      <4>1. CASE Rotates
        <5>1. /\ issued < MaxTokens /\ issued' = issued + 1
              /\ live' = (live \ {copy[r]}) \cup {issued + 1}
          BY <2>3, <4>1 DEF ProviderAnswers
        <5>2. issued + 1 \in Tokens
          BY <5>1, Constants DEF SyncTypeOK
        <5> QED BY <5>1, <5>2 DEF SyncTypeOK
      <4>2. CASE ~Rotates
        BY <2>3, <4>2 DEF ProviderAnswers, SyncTypeOK
      <4> QED BY <4>1, <4>2
    <3>3. /\ pc' \in [Tasks -> SyncLabels]
          /\ \A q \in UserRequests : pc'[q] \in {"calling", "answered"} <=> rowLock' = q
      BY <2>3, Constants DEF ProviderAnswers, SyncTypeOK, SyncLabels
    <3> QED BY <2>3, <2>0, <3>1, <3>2, <3>3 DEF ProviderAnswers, SyncTypeOK, rowVars
  <2>4. ASSUME NEW r \in UserRequests, ProviderRefuses(r) PROVE SyncTypeOK'
    <3>1. pc[r] \in {"calling", "answered"} /\ Leave(r)
      BY <2>4 DEF ProviderRefuses
    <3> QED BY <2>0, <2>4, <3>1, LeaveTyped DEF ProviderRefuses, SyncTypeOK, idpVars
  <2>5. ASSUME NEW r \in UserRequests, SyncCommits(r) PROVE SyncTypeOK'
    <3>1. pc[r] \in {"calling", "answered"} /\ Leave(r) /\ r \in Tasks
      BY <2>5, Constants DEF SyncCommits
    <3>2. token' \in Tokens \cup {NoToken}
      BY <2>5, <3>1, AnswerTypes DEF SyncCommits, SyncTypeOK
    <3>3. groups' \in 0..MaxRoles \cup {DefaultsOnly}
      BY <2>5, <3>1, AnswerTypes DEF SyncCommits
    <3> QED BY <2>0, <2>5, <3>1, <3>2, <3>3, LeaveTyped DEF SyncCommits, SyncTypeOK, idpVars
  <2>6. ASSUME NEW r \in UserRequests, SyncAborts(r) PROVE SyncTypeOK'
    <3>1. pc[r] \in {"calling", "answered"} /\ Leave(r)
      BY <2>6 DEF SyncAborts
    <3> QED BY <2>0, <2>6, <3>1, LeaveTyped DEF SyncAborts, SyncTypeOK, idpVars, rowVars
  <2>7. ASSUME NEW l \in Logins, LoginExchanges(l) PROVE SyncTypeOK'
    <3>1. issued + 1 \in Tokens
      BY <2>7, Constants DEF LoginExchanges, SyncTypeOK
    <3>2. [token |-> issued + 1, roles |-> idpRoles] \in Answers
      BY <3>1 DEF SyncTypeOK, Answers
    <3>3. answer' \in [Tasks -> Answers]
      BY <2>7, <2>0, <3>2 DEF LoginExchanges, SyncTypeOK
    <3>4. /\ pc' \in [Tasks -> SyncLabels]
          /\ \A q \in UserRequests : pc'[q] \in {"calling", "answered"} <=> rowLock' = q
      BY <2>7, Constants DEF LoginExchanges, SyncTypeOK, SyncLabels
    <3> QED BY <2>7, <2>0, <3>1, <3>3, <3>4 DEF LoginExchanges, SyncTypeOK, rowVars
  <2>8. ASSUME NEW l \in Logins, LoginCommits(l) \/ LoginAborts(l) PROVE SyncTypeOK'
    <3>1. l \in Tasks /\ l \notin UserRequests /\ pc[l] = "provision"
      BY <2>8, Constants DEF LoginCommits, LoginAborts
    <3>2. /\ pc' \in [Tasks -> SyncLabels]
          /\ \A q \in UserRequests : pc'[q] \in {"calling", "answered"} <=> rowLock' = q
      BY <2>8, <3>1, Constants DEF LoginCommits, LoginAborts, SyncTypeOK, SyncLabels
    <3>3. answer' \in [Tasks -> Answers]
      BY <2>8, <2>0, AnswerTypes DEF LoginCommits, LoginAborts, SyncTypeOK
    <3>4. token' \in Tokens \cup {NoToken} /\ groups' \in 0..MaxRoles \cup {DefaultsOnly}
          /\ fresh' \in BOOLEAN
      BY <2>8, <3>1, AnswerTypes DEF LoginCommits, LoginAborts, SyncTypeOK, rowVars
    <3> QED BY <2>8, <2>0, <3>2, <3>3, <3>4 DEF LoginCommits, LoginAborts, SyncTypeOK, idpVars
  <2>9. CASE RolesChange
    BY <2>9, Constants DEF RolesChange, SyncTypeOK, rowVars
  <2>10. CASE IntervalElapses
    BY <2>10 DEF IntervalElapses, SyncTypeOK, idpVars
  <2>11. CASE UNCHANGED syncVars
    BY <2>11 DEF syncVars, idpVars, rowVars, SyncTypeOK
  <2> QED BY <2>1, <2>2, <2>3, <2>4, <2>5, <2>6, <2>7, <2>8, <2>9, <2>10, <2>11
          DEF SyncNext, SyncStep, LoginStep
<1> QED BY <1>1, <1>2, PTL DEF SyncSpec

-----------------------------------------------------------------------------
\* What is in flight was granted by the provider before.
Granted ==
    /\ groups <= idpRoles
    /\ \A t \in Tasks : pc[t] \in {"answered", "provision"} => answer[t].roles <= idpRoles

NewestInv == Granted /\ SyncIsNewest

\* A sync writes roles at least as new as the memberships it replaces, because the
\* row has been locked since before the provider was asked.
THEOREM SyncNeverUndoes == SyncSpec => []SyncIsNewest
<1>1. SyncInit => NewestInv
  BY Constants DEF SyncInit, NewestInv, Granted, SyncIsNewest
<1>2. SyncTypeOK /\ NewestInv /\ [SyncNext]_syncVars => NewestInv'
  <2> SUFFICES ASSUME SyncTypeOK, NewestInv, [SyncNext]_syncVars PROVE NewestInv'
    OBVIOUS
  <2>0. /\ idpRoles \in Int /\ groups \in Int /\ 0 <= idpRoles
        /\ \A t \in Tasks : answer[t].roles \in Int
    BY AnswerTypes, Constants DEF SyncTypeOK
  \* Steps after which fewer tasks are in flight, none with another answer.
  <2>1. ASSUME NEW r \in Tasks, groups' <= idpRoles, idpRoles' = idpRoles,
               pc'[r] \in {"idle", "locking", "calling"},
               \A t \in Tasks : t # r => pc'[t] = pc[t] /\ answer'[t] = answer[t],
               \/ groups' = groups
               \/ \A q \in UserRequests : q # r => pc[q] # "answered"
        PROVE  NewestInv'
    BY <2>1, Constants DEF NewestInv, Granted, SyncIsNewest
  <2>2. ASSUME NEW r \in UserRequests, pc[r] \in {"calling", "answered"}, Leave(r),
               groups' <= idpRoles, idpRoles' = idpRoles
        PROVE  NewestInv'
    <3>1. r \in Tasks /\ pc'[r] = "idle"
          /\ \A t \in Tasks : t # r => pc'[t] = pc[t] /\ answer'[t] = answer[t]
      BY <2>2, Constants DEF Leave, SyncTypeOK
    <3>2. \A q \in UserRequests : q # r => pc[q] # "answered"
      BY <2>2 DEF SyncTypeOK
    <3> QED BY <2>1, <2>2, <3>1, <3>2
  <2>3. ASSUME NEW r \in UserRequests, Arrive(r) \/ Lock(r) PROVE NewestInv'
    <3>1. r \in Tasks /\ pc'[r] \in {"locking", "calling"}
          /\ \A t \in Tasks : t # r => pc'[t] = pc[t] /\ answer'[t] = answer[t]
      BY <2>3, Constants DEF Arrive, Lock, SyncTypeOK
    <3>2. groups' = groups /\ idpRoles' = idpRoles
      BY <2>3 DEF Arrive, Lock, idpVars, rowVars
    <3> QED BY <2>1, <3>1, <3>2 DEF NewestInv, Granted
  <2>4. ASSUME NEW r \in UserRequests, ProviderAnswers(r) PROVE NewestInv'
    <3>1. r \in Tasks /\ pc' = [pc EXCEPT ![r] = "answered"]
          /\ UNCHANGED <<idpRoles, groups>>
      BY <2>4, Constants DEF ProviderAnswers, rowVars
    <3>2. answer'[r].roles = idpRoles /\ \A t \in Tasks : t # r => answer'[t] = answer[t]
      BY <2>4, <3>1 DEF ProviderAnswers, SyncTypeOK
    <3>3. \A t \in Tasks : t # r => pc'[t] = pc[t]
      BY <3>1 DEF SyncTypeOK
    <3>4. Granted'
      <4> SUFFICES ASSUME NEW t \in Tasks, pc'[t] \in {"answered", "provision"}
                   PROVE  answer'[t].roles <= idpRoles
        BY <3>1 DEF NewestInv, Granted
      <4>1. CASE t = r
        BY <2>0, <3>2, <4>1
      <4>2. CASE t # r
        BY <3>2, <3>3, <4>2 DEF NewestInv, Granted
      <4> QED BY <4>1, <4>2
    <3>5. SyncIsNewest'
      <4> SUFFICES ASSUME NEW q \in UserRequests, pc'[q] = "answered"
                   PROVE  groups <= answer'[q].roles
        BY <3>1 DEF SyncIsNewest
      <4>1. CASE q = r
        BY <3>2, <4>1 DEF NewestInv, Granted
      <4>2. CASE q # r
        BY <3>2, <3>3, <4>2, Constants DEF NewestInv, SyncIsNewest
      <4> QED BY <4>1, <4>2
    <3> QED BY <3>4, <3>5 DEF NewestInv
  <2>5. ASSUME NEW r \in UserRequests, ProviderRefuses(r) \/ SyncAborts(r) PROVE NewestInv'
    BY <2>2, <2>5 DEF ProviderRefuses, SyncAborts, NewestInv, Granted, idpVars, rowVars
  <2>6. ASSUME NEW r \in UserRequests, SyncCommits(r) PROVE NewestInv'
    <3>1. pc[r] = "answered" /\ Leave(r) /\ idpRoles' = idpRoles /\ r \in Tasks
      BY <2>6, Constants DEF SyncCommits, idpVars
    <3>2. groups' = answer[r].roles \/ groups' = -1
      BY <2>6, Constants DEF SyncCommits
    <3>3. groups' <= idpRoles
      BY <2>0, <3>1, <3>2 DEF NewestInv, Granted
    <3> QED BY <2>2, <3>1, <3>3
  <2>7. ASSUME NEW l \in Logins, LoginExchanges(l) PROVE NewestInv'
    <3>1. l \in Tasks /\ pc' = [pc EXCEPT ![l] = "provision"] /\ l \notin UserRequests
          /\ UNCHANGED <<idpRoles, groups>>
      BY <2>7, Constants DEF LoginExchanges, rowVars
    <3>2. answer'[l].roles = idpRoles /\ \A t \in Tasks : t # l => answer'[t] = answer[t]
      BY <2>7, <3>1 DEF LoginExchanges, SyncTypeOK
    <3>3. \A t \in Tasks : t # l => pc'[t] = pc[t]
      BY <3>1 DEF SyncTypeOK
    <3>4. Granted'
      <4> SUFFICES ASSUME NEW t \in Tasks, pc'[t] \in {"answered", "provision"}
                   PROVE  answer'[t].roles <= idpRoles
        BY <3>1 DEF NewestInv, Granted
      <4>1. CASE t = l
        BY <2>0, <3>2, <4>1
      <4>2. CASE t # l
        BY <3>2, <3>3, <4>2 DEF NewestInv, Granted
      <4> QED BY <4>1, <4>2
    <3>5. SyncIsNewest'
      BY <3>1, <3>2, <3>3, Constants DEF NewestInv, SyncIsNewest
    <3> QED BY <3>4, <3>5 DEF NewestInv
  <2>8. ASSUME NEW l \in Logins, LoginCommits(l) PROVE NewestInv'
    <3>1. /\ l \in Tasks /\ pc[l] = "provision" /\ rowLock = NoOne /\ pc'[l] = "idle"
          /\ groups' = answer[l].roles /\ idpRoles' = idpRoles
          /\ \A t \in Tasks : t # l => pc'[t] = pc[t] /\ answer'[t] = answer[t]
      BY <2>8, Constants DEF LoginCommits, idpVars, SyncTypeOK
    <3>2. \A q \in UserRequests : q # l => pc[q] # "answered"
      BY <3>1, Constants DEF SyncTypeOK
    <3>3. groups' <= idpRoles
      BY <3>1 DEF NewestInv, Granted
    <3> QED BY <2>1, <3>1, <3>2, <3>3
  <2>9. ASSUME NEW l \in Logins, LoginAborts(l) PROVE NewestInv'
    <3>1. /\ l \in Tasks /\ pc'[l] = "idle" /\ groups' = groups /\ idpRoles' = idpRoles
          /\ \A t \in Tasks : t # l => pc'[t] = pc[t] /\ answer'[t] = answer[t]
      BY <2>9, Constants DEF LoginAborts, idpVars, rowVars, SyncTypeOK
    <3> QED BY <2>1, <3>1 DEF NewestInv, Granted
  <2>10. CASE RolesChange
    <3>1. idpRoles' = idpRoles + 1 /\ UNCHANGED <<groups, pc, answer>>
      BY <2>10 DEF RolesChange, rowVars
    <3>2. Granted'
      BY <2>0, <3>1 DEF NewestInv, Granted
    <3> QED BY <3>1, <3>2 DEF NewestInv, SyncIsNewest
  <2>11. CASE IntervalElapses \/ UNCHANGED syncVars
    BY <2>11 DEF IntervalElapses, syncVars, idpVars, rowVars, NewestInv, Granted, SyncIsNewest
  <2> QED BY <2>3, <2>4, <2>5, <2>6, <2>7, <2>8, <2>9, <2>10, <2>11
          DEF SyncNext, SyncStep, LoginStep
<1>3. NewestInv => SyncIsNewest
  BY DEF NewestInv
<1> QED BY <1>1, <1>2, <1>3, SyncTypeCorrect, PTL DEF SyncSpec

-----------------------------------------------------------------------------
\* Everything stored or in flight is a token the provider accepts.
LiveInv ==
    /\ token \in live
    /\ \A r \in UserRequests : pc[r] \in {"locking", "calling"} => copy[r] \in live
    /\ \A r \in UserRequests : pc[r] = "answered" => answer[r].token = NoToken
    /\ \A l \in Logins : pc[l] = "provision" => answer[l].token \in live

\* With a provider that does not rotate and does not fail, no race of requests and
\* logins loses the user's token.
THEOREM SteadyProviderKeepsToken == SyncSpec => []SteadyTokenKept
<1> DEFINE Steady == ~Rotates /\ "provider" \notin Faults
<1>1. SyncInit => LiveInv
  BY Constants DEF SyncInit, LiveInv
<1>2. SyncTypeOK /\ (Steady => LiveInv) /\ [SyncNext]_syncVars => (Steady => LiveInv)'
  <2>0. [SyncNext]_syncVars => habit' = habit
    BY DEF SyncNext, SyncStep, LoginStep, Arrive, Lock, ProviderAnswers, ProviderRefuses,
           SyncCommits, SyncAborts, LoginExchanges, LoginCommits, LoginAborts,
           RolesChange, IntervalElapses, idpVars, syncVars
  <2> SUFFICES ASSUME SyncTypeOK, LiveInv, Steady, [SyncNext]_syncVars PROVE LiveInv'
    BY <2>0 DEF Rotates, Faults
  <2>1. ASSUME NEW r \in UserRequests, Arrive(r) PROVE LiveInv'
    BY <2>1, Constants DEF Arrive, LiveInv, SyncTypeOK, idpVars, rowVars
  <2>2. ASSUME NEW r \in UserRequests, Lock(r) PROVE LiveInv'
    BY <2>2, Constants DEF Lock, LiveInv, SyncTypeOK, idpVars, rowVars
  <2>3. ASSUME NEW r \in UserRequests, ProviderAnswers(r) PROVE LiveInv'
    <3>1. /\ answer' = [answer EXCEPT ![r] = [token |-> NoToken, roles |-> idpRoles]]
          /\ pc' = [pc EXCEPT ![r] = "answered"] /\ UNCHANGED <<live, token, copy>>
      BY <2>3 DEF ProviderAnswers, rowVars
    <3> QED BY <3>1, Constants DEF LiveInv, SyncTypeOK
  <2>4. ASSUME NEW r \in UserRequests, ProviderRefuses(r) PROVE LiveInv'
    BY <2>4 DEF ProviderRefuses, LiveInv
  <2>5. ASSUME NEW r \in UserRequests, SyncCommits(r) \/ SyncAborts(r) PROVE LiveInv'
    <3>1. token' = token /\ live' = live /\ Leave(r)
      BY <2>5 DEF SyncCommits, SyncAborts, LiveInv, idpVars, rowVars
    <3> QED BY <3>1, Constants DEF Leave, LiveInv, SyncTypeOK
  <2>6. ASSUME NEW l \in Logins, LoginExchanges(l) PROVE LiveInv'
    <3>1. /\ live' = live \cup {issued + 1} /\ pc' = [pc EXCEPT ![l] = "provision"]
          /\ answer' = [answer EXCEPT ![l] = [token |-> issued + 1, roles |-> idpRoles]]
          /\ UNCHANGED <<token, copy>> /\ l \in Tasks /\ l \notin UserRequests
      BY <2>6, Constants DEF LoginExchanges, rowVars
    <3> QED BY <3>1, Constants DEF LiveInv, SyncTypeOK
  <2>7. ASSUME NEW l \in Logins, LoginCommits(l) \/ LoginAborts(l) PROVE LiveInv'
    BY <2>7, Constants DEF LoginCommits, LoginAborts, LiveInv, SyncTypeOK, idpVars, rowVars
  <2>8. CASE RolesChange \/ IntervalElapses \/ UNCHANGED syncVars
    BY <2>8 DEF RolesChange, IntervalElapses, syncVars, idpVars, rowVars, LiveInv
  <2> QED BY <2>1, <2>2, <2>3, <2>4, <2>5, <2>6, <2>7, <2>8 DEF SyncNext, SyncStep, LoginStep
<1>3. SyncTypeOK /\ (Steady => LiveInv) => SteadyTokenKept
  BY Constants DEF SyncTypeOK, LiveInv, SteadyTokenKept
<1> QED BY <1>1, <1>2, <1>3, SyncTypeCorrect, PTL DEF SyncSpec
=============================================================================

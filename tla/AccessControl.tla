--------------------------- MODULE AccessControl ---------------------------
(***************************************************************************)
(* The mutating endpoints of api/admin.py on users, groups, models,        *)
(* secrets and rules and on what links them (services/user_service.py,     *)
(* group_service.py, model_service.py, auth_service.py), with the entry    *)
(* each writes in the admin audit log (services/admin_audit_service.py),   *)
(* several administrators at a time.  A request is suspended at each query *)
(* and at each commit; a commit is one step.                               *)
(*                                                                         *)
(* A link is a row of user_groups (member), user_permissions, of           *)
(* group_permissions, model_assignments or group_model_assignments: its    *)
(* kind and its two ends.  Nothing refers to secrets and rules.  All       *)
(* endpoints need the one permission Manage.                               *)
(***************************************************************************)
EXTENDS Naturals, FiniteSets

CONSTANTS
    Users, Groups, Models, Secrets, Rules, Permissions,
    Manage,          \* the permission the endpoints ask for
    Administrators,  \* the group of that name
    Matches,         \* the names the match_pattern of a model matches
    Bodies,          \* the sets of links a bulk endpoint is asked for
    Requests, None

Rows == Users \cup Groups \cup Models \cup Secrets \cup Rules

Link ==
    ({"member"} \X Users \X Groups) \cup ({"userPerm"} \X Users \X Permissions)
    \cup ({"groupPerm"} \X Groups \X Permissions)
    \cup ({"direct"} \X Users \X Models) \cup ({"viaGroup"} \X Groups \X Models)

ASSUME RowAssumption ==
    /\ Users \cap Groups = {} /\ Users \cap Models = {} /\ Groups \cap Models = {}
    /\ (Secrets \cup Rules) \cap (Users \cup Groups \cup Models) = {} /\ Secrets \cap Rules = {}
    /\ Permissions \cap Rows = {}
    /\ Administrators \in Groups /\ Manage \in Permissions /\ None \notin Rows
    /\ Bodies \subseteq SUBSET Link /\ IsFiniteSet(Users)

VARIABLES
    status,  \* of every row; an id is used once
    links,   \* the rows that link them
    op,      \* the requests of administrators
    audit    \* the requests with an entry in admin_audit_logs

vars == <<status, links, op, audit>>

Unused == [pc |-> "new", kind |-> "create", row |-> None, to |-> "active", links |-> {},
           made |-> {}, look |-> {}, saw |-> {}, broken |-> FALSE, result |-> "none"]

Statuses == {"new", "active", "inactive", "gone"}
Absent == {x \in Rows : status[x] \in {"new", "gone"}}
Present(x) == x \notin Absent
Complete(l) == Present(l[2]) /\ Present(l[3])

Init ==
    /\ status \in [Rows -> Statuses]
    /\ links \in SUBSET Link /\ \A l \in links : Complete(l)
    /\ op = [r \in Requests |-> Unused]
    /\ audit = {}

-----------------------------------------------------------------------------
\* resolve_user_permissions, over the active groups of list_user_groups.
ActiveGroups(u) == {g \in Groups : status[g] = "active" /\ <<"member", u, g>> \in links}
Rights(u) ==
    {p \in Permissions : \/ <<"userPerm", u, p>> \in links
                         \/ \E g \in ActiveGroups(u) : <<"groupPerm", g, p>> \in links}

\* direct and via_group: a group need not be active.
Accessible(u) ==
    {m \in Models : \/ <<"direct", u, m>> \in links
                    \/ \E g \in Groups : {<<"member", u, g>>, <<"viaGroup", g, m>>} \subseteq links}

ListUserModels(u) == {m \in Accessible(u) : status[m] = "active"}

\* A slip of ByPattern: over the active models of everybody.
ByPatternOfAll(u, name) == {m \in Models : status[m] = "active" /\ name \in Matches[m]}

ByPattern(u, name) == {m \in ListUserModels(u) : name \in Matches[m]}

\* get_model_for_user: the models it may return, the order of the pattern scan
\* being that of an unordered query.
ModelForUser(u, name) ==
    IF name \in ListUserModels(u) THEN {name} ELSE ByPattern(u, name)

\* list_group_members, of the administrators.
AdminMembers == {u \in Users : <<"member", u, Administrators>> \in links}
ActiveAdmins == {u \in AdminMembers : status[u] = "active"}

-----------------------------------------------------------------------------
Begin(r, a, fields) ==
    /\ op[r].pc = "new" /\ status[a] = "active" /\ Manage \in Rights(a)
    /\ op' = [op EXCEPT ![r] = fields]
    /\ UNCHANGED <<status, links, audit>>

Create(r, a, x) ==
    /\ status[x] = "new"
    /\ Begin(r, a, [Unused EXCEPT !.pc = "write", !.row = x])

\* is_active is what update_user, update_group and update_model change that
\* anything here depends on.
Update(r, a, x, s) ==
    Begin(r, a, [Unused EXCEPT !.pc = "read", !.kind = "update", !.row = x, !.to = s])

\* One's own account is refused before any query; of a user, the members of the
\* administrators are counted first.
Delete(r, a, x) ==
    Begin(r, a, IF x = a
                THEN [Unused EXCEPT !.pc = "done", !.kind = "delete", !.row = x, !.result = "conflict"]
                ELSE [Unused EXCEPT !.pc = IF x \in Users THEN "guard" ELSE "read",
                                    !.kind = "delete", !.row = x])

\* assign_group_permission, and the bulk endpoints: of user_permissions and of
\* the assignments of a model the user or the model is read first.
Assign(r, a, l) ==
    /\ l[1] = "groupPerm"
    /\ Begin(r, a, [Unused EXCEPT !.pc = "write", !.kind = "assign", !.links = {l}])

OwnerOf(l) == CASE l[1] = "userPerm" -> l[2] [] l[1] \in {"direct", "viaGroup"} -> l[3] [] OTHER -> None

Bulk(r, a, L, x) ==
    /\ \A l \in L : l[1] # "groupPerm" /\ OwnerOf(l) = x
    /\ Begin(r, a, [Unused EXCEPT !.pc = IF x = None THEN "items" ELSE "read", !.kind = "bulk",
                                  !.row = x, !.links = L])

Unassign(r, a, l) == Begin(r, a, [Unused EXCEPT !.pc = "read", !.kind = "unassign", !.links = {l}])

-----------------------------------------------------------------------------
To(r, l) == op' = [op EXCEPT ![r].pc = l]
End(r, result) == op' = [op EXCEPT ![r].pc = "done", ![r].result = result]
\* The commit is done; an ORM object that was written is then read back.
Wrote(r, next, what) == op' = [op EXCEPT ![r].pc = next, ![r].made = what]

Guard(r) ==
    /\ op[r].pc = "guard"
    /\ IF op[r].row \in ActiveAdmins /\ Cardinality(ActiveAdmins) <= 1
       THEN End(r, "conflict") ELSE To(r, "read")
    /\ UNCHANGED <<status, links, audit>>

\* The links the ORM knows as children of a user or of a model, without a cascade.
ChildKinds(x) ==
    CASE x \in Users -> {"member", "direct"} [] x \in Models -> {"direct", "viaGroup"} [] OTHER -> {}

\* What is to be changed is looked up: 404 when it is not there.
Read(r) ==
    LET found == IF op[r].kind = "unassign" THEN op[r].links \subseteq links
                                            ELSE Present(op[r].row)
        children == IF op[r].kind = "delete" THEN ChildKinds(op[r].row) ELSE {} IN
    /\ op[r].pc = "read"
    /\ IF ~found THEN End(r, "notfound")
       ELSE op' = [op EXCEPT ![r].look = children,
                             ![r].pc = CASE op[r].kind = "bulk" -> "items"
                                         [] children # {} -> "children"
                                         [] OTHER -> "write"]
    /\ UNCHANGED <<status, links, audit>>

\* A name taken: of a secret 409, of the rest the insert fails.
WriteCreate(r) ==
    LET x == op[r].row IN
    /\ op[r].pc = "write" /\ op[r].kind = "create"
    /\ \/ /\ status[x] = "new"
          /\ status' = [status EXCEPT ![x] = "active"]
          /\ Wrote(r, "refresh", {x})
       \/ /\ \E result \in {"conflict", "error"} : End(r, result)
          /\ UNCHANGED status
    /\ UNCHANGED <<links, audit>>

\* Updated by id: the flush fails when the row has been deleted meanwhile or
\* its new name is taken.
WriteUpdate(r) ==
    LET x == op[r].row IN
    /\ op[r].pc = "write" /\ op[r].kind = "update"
    /\ \/ Present(x) /\ status' = [status EXCEPT ![x] = op[r].to] /\ Wrote(r, "refresh", {x})
       \/ End(r, "error") /\ UNCHANGED status
    /\ UNCHANGED <<links, audit>>

\* A slip of Orphans: the relationships leave the links to the database.
PassiveDeletes(x, k) == {}

\* The children of x of kind k: the ORM would set their column to NULL, which is not
\* allowed.
Orphans(x, k) == {l \in links : l[1] = k /\ x \in {l[2], l[3]}}

\* The flush of a deletion queries the children, one relationship after another and
\* without a lock.  saw remembers who was an administrator when it did.
LoadChildren(r, k) ==
    /\ op[r].pc = "children" /\ k \in op[r].look
    /\ IF Orphans(op[r].row, k) # {} THEN End(r, "error")
       ELSE op' = [op EXCEPT ![r].look = @ \ {k},
                             ![r].saw = IF k = "member" THEN AdminMembers ELSE @,
                             ![r].pc = IF op[r].look = {k} THEN "write" ELSE @]
    /\ UNCHANGED <<status, links, audit>>

\* The DELETE: the database cascades to the links there are by now.
Unlinked(x) == {l \in links : l[2] # x /\ l[3] # x}

\* A row that is already gone is not noticed.
WriteDelete(r) ==
    LET x == op[r].row IN
    /\ op[r].pc = "write" /\ op[r].kind = "delete"
    /\ status' = [status EXCEPT ![x] = "gone"]
    /\ links' = Unlinked(x)
    /\ Wrote(r, "audit", {x})
    /\ UNCHANGED audit

\* The unique constraint and the foreign keys.
Insertable(l) == l \notin links /\ Complete(l)

WriteAssign(r) ==
    /\ op[r].pc = "write" /\ op[r].kind = "assign"
    /\ IF \A l \in op[r].links : Insertable(l)
       THEN links' = links \cup op[r].links /\ Wrote(r, "refresh", op[r].links)
       ELSE End(r, "conflict") /\ UNCHANGED links
    /\ UNCHANGED <<status, audit>>

\* A slip of Item: the failed insert is rolled back and the loop goes on.
ItemRollback(r, l) ==
    /\ op[r].pc = "items" /\ l \in op[r].links \ op[r].made /\ ~op[r].broken
    /\ IF Insertable(l)
       THEN links' = links \cup {l} /\ Wrote(r, "refresh", op[r].made \cup {l})
       ELSE To(r, "audit") /\ UNCHANGED links
    /\ UNCHANGED <<status, audit>>

\* One link of a bulk request is inserted and committed.  The first insert that
\* fails leaves the session without a usable transaction: the rest fail too.
Item(r, l) ==
    /\ op[r].pc = "items" /\ l \in op[r].links \ op[r].made
    /\ IF Insertable(l)
       THEN links' = links \cup {l} /\ Wrote(r, "refresh", op[r].made \cup {l})
       ELSE /\ op' = [op EXCEPT ![r].broken = TRUE, ![r].pc = "audit"]
            /\ UNCHANGED links
    /\ UNCHANGED <<status, audit>>

\* What was written is read back.  When it has been deleted meanwhile, this raises: of
\* a link of a bulk request that counts as one that was there before, and so it does of
\* assign_group_permission, which answers 409.
Refresh(r) ==
    /\ op[r].pc = "refresh"
    /\ CASE op[r].kind = "bulk" -> To(r, IF op[r].made = op[r].links THEN "audit" ELSE "items")
         [] op[r].kind = "assign" -> IF op[r].made \subseteq links THEN To(r, "audit") ELSE End(r, "conflict")
         [] OTHER -> IF Present(op[r].row) THEN To(r, "audit") ELSE End(r, "error")
    /\ UNCHANGED <<status, links, audit>>

WriteUnassign(r) ==
    /\ op[r].pc = "write" /\ op[r].kind = "unassign"
    /\ links' = links \ op[r].links
    /\ Wrote(r, "audit", op[r].links)
    /\ UNCHANGED <<status, audit>>

\* A slip of Log: the failure to log is passed over.
LogOrNot(r) ==
    /\ op[r].pc = "audit"
    /\ End(r, "ok")
    /\ audit' = IF op[r].broken THEN audit ELSE audit \cup {r}
    /\ UNCHANGED <<status, links>>

\* admin_audit_service.log, in a transaction of its own, and the answer.
Log(r) ==
    /\ op[r].pc = "audit"
    /\ IF op[r].broken THEN End(r, "error") /\ UNCHANGED audit
                       ELSE End(r, "ok") /\ audit' = audit \cup {r}
    /\ UNCHANGED <<status, links>>

\* The database fails a query, a commit, or the answer to one that it has carried out:
\* 500, or what the except branches of the assignments make of it.
QueryFails(r) ==
    /\ op[r].pc \in {"guard", "read", "children", "write", "items", "refresh", "audit"}
    /\ IF op[r].kind = "bulk" /\ op[r].pc \in {"items", "refresh"}
       THEN op' = [op EXCEPT ![r].broken = TRUE, ![r].pc = "audit"]
       ELSE End(r, IF op[r].kind = "assign" /\ op[r].pc \in {"write", "refresh"}
                   THEN "conflict" ELSE "error")
    /\ UNCHANGED <<status, links, audit>>

\* The client is gone, the worker stops: the open transaction is undone.
Lost(r) ==
    /\ op[r].pc \notin {"new", "done"}
    /\ End(r, "lost")
    /\ UNCHANGED <<status, links, audit>>

RowEndpoints(r, a, X) ==
    \E x \in X :
       \/ Create(r, a, x) \/ Delete(r, a, x)
       \/ \E s \in {"active", "inactive"} : Update(r, a, x, s)

\* The bulk endpoints that read the row x first, and the removal of one link.
LinkEndpoints(r, a, kinds, X) ==
    \/ \E L \in Bodies, x \in X : (\A l \in L : l[1] \in kinds) /\ Bulk(r, a, L, x)
    \/ \E l \in UNION Bodies : l[1] \in kinds /\ Unassign(r, a, l)

UserEndpoints(r, a) == RowEndpoints(r, a, Users) \/ LinkEndpoints(r, a, {"userPerm"}, Users)

ModelEndpoints(r, a) ==
    RowEndpoints(r, a, Models) \/ LinkEndpoints(r, a, {"direct", "viaGroup"}, Models)

GroupEndpoints(r, a) ==
    \/ RowEndpoints(r, a, Groups) \/ LinkEndpoints(r, a, {"groupPerm", "member"}, {None})
    \/ \E l \in UNION Bodies : Assign(r, a, l)

SecretEndpoints(r, a) == RowEndpoints(r, a, Secrets)

RuleEndpoints(r, a) == RowEndpoints(r, a, Rules)

RequestStart(r, a) ==
    \/ UserEndpoints(r, a) \/ ModelEndpoints(r, a) \/ GroupEndpoints(r, a)
    \/ SecretEndpoints(r, a) \/ RuleEndpoints(r, a)

RequestStep(r) ==
    \/ Guard(r) \/ Read(r)
    \/ WriteCreate(r) \/ WriteUpdate(r) \/ WriteDelete(r) \/ WriteAssign(r) \/ WriteUnassign(r)
    \/ \E k \in op[r].look : LoadChildren(r, k)
    \/ \E l \in op[r].links : Item(r, l)
    \/ Refresh(r)
    \/ Log(r)

Next ==
    \E r \in Requests :
       \/ \E a \in Users : RequestStart(r, a)
       \/ RequestStep(r)
       \/ QueryFails(r)
       \/ Lost(r)

Spec == Init /\ [][Next]_vars

-----------------------------------------------------------------------------
\* Types, and no link without both its ends.
TypeOK ==
    /\ status \in [Rows -> Statuses]
    /\ links \subseteq Link /\ \A l \in links : Complete(l)
    /\ op \in [Requests ->
           [pc : {"new", "guard", "read", "children", "write", "items", "refresh", "audit", "done"},
            kind : {"create", "update", "delete", "assign", "bulk", "unassign"},
            row : Rows \cup {None}, to : {"active", "inactive"}, links : SUBSET Link,
            made : SUBSET (Link \cup Rows), look : SUBSET {"member", "direct", "viaGroup"},
            saw : SUBSET Users, broken : BOOLEAN,
            result : {"none", "ok", "notfound", "conflict", "error", "lost"}]]
    /\ audit \subseteq Requests

\* A change without an entry in the audit log is one whose request was answered 500
\* or not at all, or the 409 of assign_group_permission, which may stand for a
\* permission that was assigned and could not be read back.  Whoever is told of success
\* finds the entry, and any other refusal has changed nothing (admin_audit_service.log
\* after every commit).
AuditComplete ==
    \A r \in Requests : op[r].pc = "done" =>
        /\ op[r].result = "ok" => r \in audit
        /\ op[r].made # {} /\ r \notin audit =>
              \/ op[r].result \in {"error", "lost"}
              \/ op[r].result = "conflict" /\ op[r].kind = "assign"

\* "Permission already assigned" is what a 409 says; not checked: it may have been
\* assigned by the very request, without an entry in the log.
RefusalChangesNothing ==
    \A r \in Requests : op[r].result \in {"notfound", "conflict"} => op[r].made = {}

\* The entry of an assignment lists every link it was asked for, and each has
\* been made by that request: a bulk request that skips an item is not logged
\* (the except branches of assign_user_permissions, assign_model, ...).
AuditTrue ==
    \A r \in audit : op[r].kind \in {"assign", "bulk"} => op[r].made = op[r].links

\* Who a step deletes as the last active administrator.
LastAdminDeleted(u) ==
    /\ status[u] # "gone" /\ status'[u] = "gone"
    /\ ActiveAdmins # {} /\ ActiveAdmins' = {}

\* However many deletions run at once, and whatever is assigned or reactivated
\* meanwhile, a deletion takes the last active administrator only if it has become a
\* member after that deletion looked for memberships (delete_user counts the members,
\* queries the memberships and deletes, each without a lock).
AdministratorsSurviveDelete ==
    [][\A u \in Users : LastAdminDeleted(u) =>
          \E r \in Requests : op[r].pc = "write" /\ op[r].kind = "delete" /\ op[r].row = u
                              /\ u \notin op[r].saw]_vars

\* Not checked: the last administrator is never deleted ("Cannot delete the last
\* administrator", api/admin.py).
LastAdminStays == [][\A u \in Users : ~LastAdminDeleted(u)]_vars

\* A name resolves to a model the user's listing shows, and a listed model
\* resolves by its name whatever patterns the others have
\* (get_model_for_user, list_user_models).
ListingMatchesAccess ==
    \A u \in Users, name \in Models \cup UNION {Matches[m] : m \in Models} :
        /\ ModelForUser(u, name) \subseteq ListUserModels(u)
        /\ name \in ListUserModels(u) => ModelForUser(u, name) = {name}

\* Not checked: nothing stands against the deletion of a user or a model ("Safe
\* unconditionally: memberships/permissions/tokens/model assignments cascade at the DB
\* level", services/user_service.py).
NothingStandsAgainst ==
    \A r \in Requests : op[r].pc = "children" =>
        \A k \in op[r].look : Orphans(op[r].row, k) = {}
=============================================================================

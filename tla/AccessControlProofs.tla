------------------------ MODULE AccessControlProofs ------------------------
(***************************************************************************)
(* What AccessControl promises for any number of users, groups, models and *)
(* requests: its types, the audit log, and which deletions may take the    *)
(* last administrator.  The inductive invariant is TypeOK and, for every   *)
(* request, what its pc says of what it has done and seen so far.          *)
(***************************************************************************)
EXTENDS AccessControl, TLAPS

Linking == {"assign", "bulk"}

\* What the record of a request says of what it has done so far: it has changed
\* nothing before it writes; it is logged last, and a request that assigns links has
\* then made them all; and who is to be deleted was no administrator when its
\* memberships were queried.
RecordOK(o, logged) ==
    /\ o.pc \in {"new", "guard", "read", "children", "write"} => o.made = {}
    /\ o.pc \in {"guard", "read", "children", "write"} => o.row \notin o.saw
    /\ o.pc \in {"guard", "read", "write"} /\ o.kind \in {"create", "update", "delete"} => o.row \in Rows
    /\ o.pc = "children" => o.kind = "delete" /\ o.row \in Rows
    /\ o.pc = "items" => o.kind = "bulk"
    /\ o.pc \in {"items", "refresh"} /\ o.kind = "bulk" => o.made \subseteq o.links
    /\ o.pc = "refresh" /\ o.kind = "assign" => o.made = o.links
    /\ o.pc = "audit" /\ ~o.broken /\ o.kind \in Linking => o.made = o.links
    /\ logged => o.pc = "done" /\ (o.kind \in Linking => o.made = o.links)
    /\ o.pc = "done" /\ o.result = "ok" => logged
    /\ o.pc = "done" /\ o.made # {} /\ ~logged =>
          o.result \in {"error", "lost"} \/ (o.result = "conflict" /\ o.kind = "assign")

IInv == TypeOK /\ \A r \in Requests : RecordOK(op[r], r \in audit)

PcSet == {"new", "guard", "read", "children", "write", "items", "refresh", "audit", "done"}
OpSet == [pc : PcSet,
          kind : {"create", "update", "delete", "assign", "bulk", "unassign"},
          row : Rows \cup {None}, to : {"active", "inactive"}, links : SUBSET Link,
          made : SUBSET (Link \cup Rows), look : SUBSET {"member", "direct", "viaGroup"},
          saw : SUBSET Users, broken : BOOLEAN,
          result : {"none", "ok", "notfound", "conflict", "error", "lost"}]

-----------------------------------------------------------------------------
\* The request that begins is typed and has done nothing.
LEMMA UnusedTyped == Unused \in OpSet /\ Unused.made = {} /\ Unused.pc = "new"
  BY DEF Unused, OpSet, PcSet

\* A step of one request that may change rows and links keeps the invariant if
\* it does for that request.
LEMMA RowChange ==
  ASSUME IInv, NEW r \in Requests, NEW o \in OpSet, op' = [op EXCEPT ![r] = o],
         status' \in [Rows -> Statuses], links' \subseteq Link, \A l \in links' : Complete(l)',
         audit' \subseteq audit \cup {r}, audit \subseteq audit', RecordOK(o, r \in audit')
  PROVE  IInv'
<1>1. op \in [Requests -> OpSet]
  BY DEF IInv, TypeOK, OpSet, PcSet
<1>2. op' \in [Requests -> OpSet] /\ audit' \subseteq Requests
  BY <1>1 DEF IInv, TypeOK
<1>3. TypeOK'
  BY <1>2 DEF IInv, TypeOK, OpSet, PcSet
<1>4. ASSUME NEW q \in Requests
      PROVE  RecordOK(op'[q], q \in audit')
  <2>1. CASE q = r
    BY <1>1, <2>1
  <2>2. CASE q # r
    <3>1. op'[q] = op[q] /\ (q \in audit' <=> q \in audit) /\ RecordOK(op[q], q \in audit)
      BY <1>1, <2>2 DEF IInv
    <3>2. QED
      BY <3>1 DEF RecordOK
  <2>3. QED
    BY <2>1, <2>2
<1>5. QED
  BY <1>3, <1>4 DEF IInv

\* The same for a step that leaves rows and links alone.
LEMMA OpChange ==
  ASSUME IInv, NEW r \in Requests, NEW o \in OpSet, op' = [op EXCEPT ![r] = o],
         UNCHANGED <<status, links>>, audit' \subseteq audit \cup {r}, audit \subseteq audit',
         RecordOK(o, r \in audit')
  PROVE  IInv'
<1>1. /\ status' \in [Rows -> Statuses] /\ links' \subseteq Link /\ \A l \in links' : Complete(l)'
  BY DEF IInv, TypeOK, Complete, Present, Absent
<1>2. QED
  BY <1>1, RowChange

\* What is known of a request under way.
LEMMA UnderWay ==
  ASSUME IInv, NEW r \in Requests
  PROVE  /\ op \in [Requests -> OpSet] /\ op[r] \in OpSet /\ RecordOK(op[r], r \in audit)
         /\ op[r].pc # "done" => r \notin audit
  BY DEF IInv, TypeOK, OpSet, PcSet, RecordOK

\* What Begin starts is typed, has made nothing and is not done with success.
LEMMA BeginOK ==
  ASSUME IInv, NEW r \in Requests, NEW a, NEW o \in OpSet, Begin(r, a, o),
         o.made = {}, o.saw = {}, o.pc \in {"guard", "read", "write", "items", "done"},
         o.pc = "done" => o.result = "conflict", o.pc = "items" => o.kind = "bulk",
         o.kind \in {"create", "update", "delete"} => o.row \in Rows
  PROVE  IInv'
<1>1. op' = [op EXCEPT ![r] = o] /\ UNCHANGED <<status, links, audit>> /\ op[r].pc = "new"
  BY DEF Begin
<1>2. r \notin audit'
  BY <1>1, UnderWay
<1>3. RecordOK(o, r \in audit')
  BY <1>2 DEF RecordOK, Linking
<1>4. QED
  BY <1>1, <1>3, OpChange

LEMMA StartOK ==
  ASSUME IInv, NEW r \in Requests, NEW a \in Users, RequestStart(r, a)
  PROVE  IInv'
<1> USE DEF OpSet, PcSet
<1>1. ASSUME NEW x \in Rows, Create(r, a, x)
      PROVE  IInv'
  <2> DEFINE o == [Unused EXCEPT !.pc = "write", !.row = x]
  <2>1. o \in OpSet /\ o.made = {} /\ o.saw = {} /\ o.pc = "write" /\ o.row = x
    BY DEF Unused
  <2>2. Begin(r, a, o)
    BY <1>1 DEF Create
  <2>3. QED
    BY <2>1, <2>2, BeginOK
<1>2. ASSUME NEW x \in Rows, Delete(r, a, x)
      PROVE  IInv'
  <2> DEFINE o == IF x = a
                  THEN [Unused EXCEPT !.pc = "done", !.kind = "delete", !.row = x, !.result = "conflict"]
                  ELSE [Unused EXCEPT !.pc = IF x \in Users THEN "guard" ELSE "read",
                                      !.kind = "delete", !.row = x]
  <2>1. o \in OpSet /\ o.made = {} /\ o.saw = {} /\ o.pc \in {"guard", "read", "done"} /\ o.row = x
        /\ (o.pc = "done" => o.result = "conflict")
    BY DEF Unused
  <2>2. Begin(r, a, o)
    BY <1>2 DEF Delete
  <2> HIDE DEF o
  <2>3. QED
    BY <2>1, <2>2, BeginOK
<1>3. ASSUME NEW x \in Rows, NEW s \in {"active", "inactive"}, Update(r, a, x, s)
      PROVE  IInv'
  <2> DEFINE o == [Unused EXCEPT !.pc = "read", !.kind = "update", !.row = x, !.to = s]
  <2>1. o \in OpSet /\ o.made = {} /\ o.saw = {} /\ o.pc = "read" /\ o.row = x
    BY DEF Unused
  <2>2. Begin(r, a, o)
    BY <1>3 DEF Update
  <2> HIDE DEF o
  <2>3. QED
    BY <2>1, <2>2, BeginOK
<1>4. ASSUME NEW l \in UNION Bodies, Assign(r, a, l) \/ Unassign(r, a, l)
      PROVE  IInv'
  <2>1. l \in Link
    BY RowAssumption
  <2> DEFINE o == [Unused EXCEPT !.pc = "write", !.kind = "assign", !.links = {l}]
             d == [Unused EXCEPT !.pc = "read", !.kind = "unassign", !.links = {l}]
  <2>2. /\ o \in OpSet /\ o.made = {} /\ o.saw = {} /\ o.pc = "write" /\ o.kind = "assign"
        /\ d \in OpSet /\ d.made = {} /\ d.saw = {} /\ d.pc = "read" /\ d.kind = "unassign"
    BY <2>1 DEF Unused
  <2>3. Begin(r, a, o) \/ Begin(r, a, d)
    BY <1>4 DEF Assign, Unassign
  <2> HIDE DEF o, d
  <2>4. QED
    BY <2>2, <2>3, BeginOK
<1>5. ASSUME NEW L \in Bodies, NEW x \in Rows \cup {None}, Bulk(r, a, L, x)
      PROVE  IInv'
  <2>1. L \subseteq Link
    BY RowAssumption
  <2> DEFINE o == [Unused EXCEPT !.pc = IF x = None THEN "items" ELSE "read", !.kind = "bulk",
                                 !.row = x, !.links = L]
  <2>2. /\ o \in OpSet /\ o.made = {} /\ o.saw = {} /\ o.pc \in {"items", "read"} /\ o.kind = "bulk"
    BY <2>1 DEF Unused
  <2>3. Begin(r, a, o)
    BY <1>5 DEF Bulk
  <2> HIDE DEF o
  <2>4. QED
    BY <2>2, <2>3, BeginOK
<1>6. QED
  <2>1. (\E X \in {Users, Models, Groups, Secrets, Rules} : RowEndpoints(r, a, X))
        \/ (\E kinds, X : X \subseteq Rows \cup {None} /\ LinkEndpoints(r, a, kinds, X))
        \/ \E l \in UNION Bodies : Assign(r, a, l)
    BY DEF RequestStart, UserEndpoints, ModelEndpoints, GroupEndpoints, SecretEndpoints,
           RuleEndpoints, Rows
  <2>2. (\E X \in {Users, Models, Groups, Secrets, Rules} : RowEndpoints(r, a, X)) => IInv'
    BY <1>1, <1>2, <1>3 DEF RowEndpoints, Rows
  <2>3. (\E kinds, X : X \subseteq Rows \cup {None} /\ LinkEndpoints(r, a, kinds, X)) => IInv'
    BY <1>4, <1>5 DEF LinkEndpoints
  <2>4. QED
    BY <1>4, <2>1, <2>2, <2>3
-----------------------------------------------------------------------------
\* A request that goes on to another query has still changed nothing.
LEMMA ToOK ==
  ASSUME IInv, NEW r \in Requests, NEW l \in {"read", "items", "write", "children"},
         NEW look \in SUBSET {"member", "direct", "viaGroup"},
         op' = [op EXCEPT ![r].look = look, ![r].pc = l], UNCHANGED <<status, links, audit>>,
         op[r].pc \in {"guard", "read"}, l = "items" => op[r].kind = "bulk",
         l = "children" => op[r].kind = "delete"
  PROVE  IInv'
<1>1. op \in [Requests -> OpSet] /\ op[r] \in OpSet /\ RecordOK(op[r], r \in audit) /\ r \notin audit
  BY UnderWay
<1> DEFINE o == [op[r] EXCEPT !.look = look, !.pc = l]
<1>2. o \in OpSet /\ op' = [op EXCEPT ![r] = o]
  BY <1>1 DEF OpSet, PcSet
<1>3. /\ o.pc = l /\ o.kind = op[r].kind /\ o.row = op[r].row /\ o.saw = op[r].saw
      /\ o.made = op[r].made
  BY <1>1 DEF OpSet
<1> HIDE DEF o
<1>4. RecordOK(o, r \in audit')
  BY <1>1, <1>3 DEF RecordOK
<1>5. QED
  BY <1>2, <1>4, OpChange

\* A request that is refused has changed nothing, or is the assignment of a
\* permission; one that fails or is lost may have.
LEMMA EndOK ==
  ASSUME IInv, NEW r \in Requests, NEW e \in {"notfound", "conflict", "error", "lost"}, End(r, e),
         UNCHANGED <<status, links, audit>>, op[r].pc \notin {"new", "done"},
         \/ op[r].pc \in {"guard", "read", "children", "write"}
         \/ e \in {"error", "lost"}
         \/ e = "conflict" /\ op[r].kind = "assign"
  PROVE  IInv'
<1>1. op \in [Requests -> OpSet] /\ op[r] \in OpSet /\ RecordOK(op[r], r \in audit) /\ r \notin audit
  BY UnderWay
<1> DEFINE o == [op[r] EXCEPT !.pc = "done", !.result = e]
<1>2. o \in OpSet /\ op' = [op EXCEPT ![r] = o]
  BY <1>1 DEF End, OpSet, PcSet
<1>3. o.pc = "done" /\ o.result = e /\ o.kind = op[r].kind /\ o.made = op[r].made
  BY <1>1 DEF OpSet
<1> HIDE DEF o
<1>4. RecordOK(o, r \in audit')
  BY <1>1, <1>3 DEF RecordOK
<1>5. QED
  BY <1>2, <1>4, OpChange

\* A request that has made what it was asked for, or whose session is of no use
\* any more, goes on to the log; a bulk request also to its next item.
LEMMA OnOK ==
  ASSUME IInv, NEW r \in Requests, NEW l \in {"audit", "items"}, NEW b \in BOOLEAN,
         op' = [op EXCEPT ![r].broken = b, ![r].pc = l], UNCHANGED <<status, links, audit>>,
         op[r].pc \in {"items", "refresh"}, op[r].kind = "bulk" \/ l = "audit",
         l = "audit" => b \/ op[r].kind \notin Linking \/ op[r].made = op[r].links
  PROVE  IInv'
<1>1. op \in [Requests -> OpSet] /\ op[r] \in OpSet /\ RecordOK(op[r], r \in audit) /\ r \notin audit
  BY UnderWay
<1> DEFINE o == [op[r] EXCEPT !.broken = b, !.pc = l]
<1>2. o \in OpSet /\ op' = [op EXCEPT ![r] = o]
  BY <1>1 DEF OpSet, PcSet
<1>3. /\ o.pc = l /\ o.kind = op[r].kind /\ o.links = op[r].links /\ o.made = op[r].made
      /\ o.broken = b
  BY <1>1 DEF OpSet
<1> HIDE DEF o
<1>4. RecordOK(o, r \in audit')
  BY <1>1, <1>3 DEF RecordOK
<1>5. QED
  BY <1>2, <1>4, OpChange

\* The steps that change nothing but the request.
LEMMA TurnOK ==
  ASSUME IInv, NEW r \in Requests, Guard(r) \/ Read(r) \/ Refresh(r) \/ QueryFails(r) \/ Lost(r)
  PROVE  IInv'
<1>1. /\ op \in [Requests -> OpSet] /\ op[r] \in OpSet /\ RecordOK(op[r], r \in audit)
      /\ UNCHANGED <<status, links, audit>>
  BY UnderWay DEF Guard, Read, Refresh, QueryFails, Lost
<1>2. op[r].kind \in {"create", "update", "delete", "assign", "bulk", "unassign"}
      /\ op[r].look \in SUBSET {"member", "direct", "viaGroup"} /\ op[r].broken \in BOOLEAN
  BY <1>1 DEF OpSet
<1>3. CASE Guard(r)
  <2>1. CASE End(r, "conflict")
    BY <1>1, <1>3, <2>1, EndOK DEF Guard
  <2>2. CASE To(r, "read")
    <3>1. op' = [op EXCEPT ![r].look = op[r].look, ![r].pc = "read"]
      BY <1>1, <2>2 DEF To, OpSet
    <3>2. QED
      BY <1>1, <1>2, <1>3, <3>1, ToOK DEF Guard
  <2>3. QED
    BY <1>3, <2>1, <2>2 DEF Guard
<1>4. CASE Read(r)
  <2> DEFINE children == IF op[r].kind = "delete" THEN ChildKinds(op[r].row) ELSE {}
             l == CASE op[r].kind = "bulk" -> "items" [] children # {} -> "children" [] OTHER -> "write"
  <2>1. CASE End(r, "notfound")
    BY <1>1, <1>4, <2>1, EndOK DEF Read
  <2>2. CASE op' = [op EXCEPT ![r].look = children, ![r].pc = l]
    <3>1. children \in SUBSET {"member", "direct", "viaGroup"}
      BY DEF ChildKinds
    <3>2. l \in {"read", "items", "write", "children"}
      OBVIOUS
    <3>3. (l = "items" => op[r].kind = "bulk") /\ (l = "children" => op[r].kind = "delete")
      OBVIOUS
    <3> HIDE DEF l, children
    <3>4. op[r].pc = "read"
      BY <1>4 DEF Read
    <3>5. QED
      BY <1>1, <2>2, <3>1, <3>2, <3>3, <3>4, ToOK
  <2>3. QED
    BY <1>4, <2>1, <2>2 DEF Read
<1>5. CASE Refresh(r)
  <2>1. op[r].pc = "refresh"
    BY <1>5 DEF Refresh
  <2>2. CASE op[r].kind = "bulk"
    <3> DEFINE l == IF op[r].made = op[r].links THEN "audit" ELSE "items"
    <3>1. To(r, l)
      BY <1>5, <2>2 DEF Refresh
    <3>2. l \in {"audit", "items"} /\ (l = "audit" => op[r].made = op[r].links)
      OBVIOUS
    <3> HIDE DEF l
    <3>3. op' = [op EXCEPT ![r].broken = op[r].broken, ![r].pc = l]
      BY <1>1, <3>1 DEF To, OpSet
    <3>4. QED
      BY <1>1, <1>2, <2>1, <2>2, <3>2, <3>3, OnOK
  <2>3. CASE op[r].kind = "assign"
    <3>1. op[r].made = op[r].links
      BY <1>1, <2>1, <2>3 DEF RecordOK
    <3>2. CASE To(r, "audit")
      <4>1. op' = [op EXCEPT ![r].broken = op[r].broken, ![r].pc = "audit"]
        BY <1>1, <3>2 DEF To, OpSet
      <4>2. QED
        BY <1>1, <1>2, <2>1, <3>1, <4>1, OnOK
    <3>3. CASE End(r, "conflict")
      BY <1>1, <2>1, <2>3, <3>3, EndOK
    <3>4. QED
      BY <1>5, <2>3, <3>2, <3>3 DEF Refresh
  <2>4. CASE op[r].kind \notin {"bulk", "assign"}
    <3>1. CASE To(r, "audit")
      <4>1. op' = [op EXCEPT ![r].broken = op[r].broken, ![r].pc = "audit"]
        BY <1>1, <3>1 DEF To, OpSet
      <4>2. QED
        BY <1>1, <1>2, <2>1, <2>4, <4>1, OnOK DEF Linking
    <3>2. CASE End(r, "error")
      BY <1>1, <2>1, <3>2, EndOK
    <3>3. QED
      BY <1>5, <2>4, <3>1, <3>2 DEF Refresh
  <2>5. QED
    BY <2>2, <2>3, <2>4
<1>6. CASE QueryFails(r)
  <2>1. CASE op[r].kind = "bulk" /\ op[r].pc \in {"items", "refresh"}
    <3>1. op' = [op EXCEPT ![r].broken = TRUE, ![r].pc = "audit"]
      BY <1>6, <2>1 DEF QueryFails
    <3>2. QED
      BY <1>1, <2>1, <3>1, OnOK
  <2>2. CASE ~(op[r].kind = "bulk" /\ op[r].pc \in {"items", "refresh"})
    <3>1. PICK e \in {"error", "conflict"} : End(r, e) /\ (e = "conflict" => op[r].kind = "assign")
      BY <1>6, <2>2 DEF QueryFails
    <3>2. op[r].pc \notin {"new", "done"}
      BY <1>6 DEF QueryFails
    <3>3. QED
      BY <1>1, <3>1, <3>2, EndOK
  <2>3. QED
    BY <2>1, <2>2
<1>7. CASE Lost(r)
  BY <1>1, <1>7, EndOK DEF Lost
<1>8. QED
  BY <1>3, <1>4, <1>5, <1>6, <1>7

\* Who is a member of the administrators has a membership the ORM would find.
LEMMA MembersAreFound ==
  ASSUME NEW u \in AdminMembers
  PROVE  Orphans(u, "member") # {}
<1>1. <<"member", u, Administrators>> \in Orphans(u, "member")
  BY DEF AdminMembers, Orphans
<1>2. QED
  BY <1>1

LEMMA LoadOK ==
  ASSUME IInv, NEW r \in Requests, NEW k \in op[r].look, LoadChildren(r, k)
  PROVE  IInv'
<1>1. /\ op \in [Requests -> OpSet] /\ op[r] \in OpSet /\ RecordOK(op[r], r \in audit) /\ r \notin audit
      /\ UNCHANGED <<status, links, audit>> /\ op[r].pc = "children"
  BY UnderWay DEF LoadChildren
<1>2. CASE Orphans(op[r].row, k) # {}
  BY <1>1, <1>2, EndOK DEF LoadChildren
<1>3. CASE Orphans(op[r].row, k) = {}
  <2> DEFINE saw == IF k = "member" THEN AdminMembers ELSE op[r].saw
             o == [op[r] EXCEPT !.look = op[r].look \ {k}, !.saw = saw,
                                !.pc = IF op[r].look = {k} THEN "write" ELSE op[r].pc]
  <2>1. saw \subseteq Users
    BY <1>1 DEF OpSet, AdminMembers
  <2>2. op[r].row \notin saw
    BY <1>1, <1>3, MembersAreFound DEF RecordOK
  <2>3. op' = [op EXCEPT ![r] = o]
    BY <1>1, <1>3 DEF LoadChildren, OpSet
  <2> HIDE DEF saw
  <2>4. o \in OpSet
    BY <1>1, <2>1 DEF OpSet, PcSet
  <2>5. /\ o.pc \in {"children", "write"} /\ o.kind = op[r].kind /\ o.row = op[r].row
        /\ o.saw = saw /\ o.made = op[r].made
    BY <1>1 DEF OpSet
  <2> HIDE DEF o
  <2>6. RecordOK(o, r \in audit')
    BY <1>1, <2>2, <2>5 DEF RecordOK
  <2>7. QED
    BY <1>1, <2>3, <2>4, <2>6, OpChange
<1>4. QED
  BY <1>2, <1>3

\* A request that has written what it was asked for reads it back or logs it.
LEMMA WroteOK ==
  ASSUME IInv, NEW r \in Requests, op[r].pc = "write", op[r].kind # "bulk",
         NEW next \in {"refresh", "audit"}, NEW W \in SUBSET (Link \cup Rows), Wrote(r, next, W),
         op[r].kind \in Linking => W = op[r].links,
         status' \in [Rows -> Statuses], links' \subseteq Link, \A l \in links' : Complete(l)',
         UNCHANGED audit
  PROVE  IInv'
<1>1. op \in [Requests -> OpSet] /\ op[r] \in OpSet /\ r \notin audit
  BY UnderWay
<1> DEFINE o == [op[r] EXCEPT !.pc = next, !.made = W]
<1>2. o \in OpSet /\ op' = [op EXCEPT ![r] = o]
  BY <1>1 DEF Wrote, OpSet, PcSet
<1>3. o.pc = next /\ o.kind = op[r].kind /\ o.links = op[r].links /\ o.made = W
  BY <1>1 DEF OpSet
<1> HIDE DEF o
<1>4. RecordOK(o, r \in audit')
  BY <1>1, <1>3 DEF RecordOK, Linking
<1>5. QED
  BY <1>2, <1>4, RowChange

LEMMA WriteRowOK ==
  ASSUME IInv, NEW r \in Requests, WriteCreate(r) \/ WriteUpdate(r) \/ WriteDelete(r)
  PROVE  IInv'
<1> DEFINE x == op[r].row
<1>1. /\ op \in [Requests -> OpSet] /\ op[r] \in OpSet /\ op[r].pc = "write"
      /\ status \in [Rows -> Statuses] /\ links \subseteq Link /\ \A l \in links : Complete(l)
      /\ op[r].kind \in {"create", "update", "delete"}
  BY UnderWay DEF IInv, TypeOK, WriteCreate, WriteUpdate, WriteDelete
<1>2. x \in Rows /\ op[r].to \in {"active", "inactive"}
  BY <1>1, UnderWay DEF RecordOK, OpSet
<1>3. ASSUME NEW e \in {"error", "conflict"}, End(r, e), UNCHANGED <<status, links, audit>>
      PROVE  IInv'
  BY <1>1, <1>3, EndOK
<1>4. ASSUME NEW s \in {"active", "inactive"}, status' = [status EXCEPT ![x] = s], Wrote(r, "refresh", {x}),
             UNCHANGED <<links, audit>>
      PROVE  IInv'
  <2>1. status' \in [Rows -> Statuses]
    BY <1>1, <1>2, <1>4 DEF Statuses
  <2>2. Absent' \subseteq Absent
    BY <1>1, <1>2, <1>4 DEF Absent
  <2>3. \A l \in links' : Complete(l)'
    BY <1>1, <1>4, <2>2 DEF Complete, Present
  <2>4. QED
    BY <1>1, <1>2, <1>4, <2>1, <2>3, WroteOK DEF Linking
<1>5. ASSUME status' = [status EXCEPT ![x] = "gone"], links' = Unlinked(x), Wrote(r, "audit", {x}),
             UNCHANGED audit
      PROVE  IInv'
  <2>1. status' \in [Rows -> Statuses]
    BY <1>1, <1>2, <1>5 DEF Statuses
  <2>2. Absent' \subseteq Absent \cup {x}
    BY <1>1, <1>2, <1>5 DEF Absent
  <2>3. links' \subseteq Link /\ \A l \in links' : Complete(l)'
    BY <1>1, <1>5, <2>2 DEF Complete, Present, Unlinked
  <2>4. QED
    BY <1>1, <1>2, <1>5, <2>1, <2>3, WroteOK DEF Linking
<1>6. CASE WriteCreate(r)
  BY <1>3, <1>4, <1>6 DEF WriteCreate
<1>7. CASE WriteUpdate(r)
  BY <1>2, <1>3, <1>4, <1>7 DEF WriteUpdate
<1>8. CASE WriteDelete(r)
  BY <1>5, <1>8 DEF WriteDelete
<1>9. QED
  BY <1>6, <1>7, <1>8

LEMMA WriteLinksOK ==
  ASSUME IInv, NEW r \in Requests, WriteAssign(r) \/ WriteUnassign(r)
  PROVE  IInv'
<1>1. /\ op \in [Requests -> OpSet] /\ op[r] \in OpSet /\ op[r].pc = "write"
      /\ status \in [Rows -> Statuses] /\ links \subseteq Link /\ \A l \in links : Complete(l)
      /\ op[r].links \subseteq Link /\ op[r].kind \in {"assign", "unassign"}
      /\ UNCHANGED <<status, audit>>
  BY UnderWay DEF IInv, TypeOK, OpSet, WriteAssign, WriteUnassign
<1>2. \A l : Complete(l)' <=> Complete(l)
  BY <1>1 DEF Complete, Present, Absent
<1>3. CASE WriteAssign(r) /\ \A l \in op[r].links : Insertable(l)
  <2>1. links' \subseteq Link /\ (\A l \in links' : Complete(l)') /\ Wrote(r, "refresh", op[r].links)
    BY <1>1, <1>2, <1>3 DEF WriteAssign, Insertable
  <2>2. QED
    BY <1>1, <2>1, WroteOK
<1>4. CASE WriteAssign(r) /\ ~\A l \in op[r].links : Insertable(l)
  BY <1>1, <1>4, EndOK DEF WriteAssign
<1>5. CASE WriteUnassign(r)
  <2>1. links' \subseteq Link /\ (\A l \in links' : Complete(l)') /\ Wrote(r, "audit", op[r].links)
    BY <1>1, <1>2, <1>5 DEF WriteUnassign
  <2>2. QED
    BY <1>1, <2>1, WroteOK
<1>6. QED
  BY <1>3, <1>4, <1>5

LEMMA ItemOK ==
  ASSUME IInv, NEW r \in Requests, NEW l \in op[r].links, Item(r, l)
  PROVE  IInv'
<1>1. /\ op \in [Requests -> OpSet] /\ op[r] \in OpSet /\ op[r].pc = "items"
      /\ status \in [Rows -> Statuses] /\ links \subseteq Link /\ \A k \in links : Complete(k)
      /\ l \in Link /\ UNCHANGED <<status, audit>> /\ r \notin audit
  BY UnderWay DEF IInv, TypeOK, OpSet, Item
<1>2. op[r].made \subseteq op[r].links /\ op[r].kind = "bulk"
  BY <1>1, UnderWay DEF RecordOK
<1>3. CASE Insertable(l)
  <2> DEFINE o == [op[r] EXCEPT !.pc = "refresh", !.made = op[r].made \cup {l}]
  <2>1. o \in OpSet
    BY <1>1 DEF OpSet, PcSet
  <2>2. op' = [op EXCEPT ![r] = o] /\ links' = links \cup {l}
    BY <1>1, <1>3 DEF Item, Wrote, OpSet
  <2>3. links' \subseteq Link /\ \A k \in links' : Complete(k)'
    BY <1>1, <1>3, <2>2 DEF Insertable, Complete, Present, Absent
  <2>4. /\ o.links = op[r].links /\ o.made = op[r].made \cup {l} /\ o.pc = "refresh"
        /\ o.kind = op[r].kind
    BY <1>1 DEF OpSet
  <2> HIDE DEF o
  <2>5. RecordOK(o, r \in audit')
    BY <1>1, <1>2, <2>4 DEF RecordOK
  <2>6. QED
    BY <1>1, <2>1, <2>2, <2>3, <2>5, RowChange
<1>4. CASE ~Insertable(l)
  BY <1>1, <1>2, <1>4, OnOK DEF Item
<1>5. QED
  BY <1>3, <1>4

LEMMA LogOK ==
  ASSUME IInv, NEW r \in Requests, Log(r)
  PROVE  IInv'
<1>1. /\ op \in [Requests -> OpSet] /\ op[r] \in OpSet /\ RecordOK(op[r], r \in audit) /\ r \notin audit
      /\ op[r].pc = "audit" /\ UNCHANGED <<status, links>>
  BY UnderWay DEF Log
<1>2. CASE op[r].broken
  BY <1>1, <1>2, EndOK DEF Log
<1>3. CASE ~op[r].broken
  <2> DEFINE o == [op[r] EXCEPT !.pc = "done", !.result = "ok"]
  <2>1. o \in OpSet /\ op' = [op EXCEPT ![r] = o] /\ audit' = audit \cup {r}
    BY <1>1, <1>3 DEF Log, End, OpSet, PcSet
  <2>2. /\ o.pc = "done" /\ o.result = "ok" /\ o.kind = op[r].kind /\ o.made = op[r].made
        /\ o.links = op[r].links
    BY <1>1 DEF OpSet
  <2> HIDE DEF o
  <2>3. RecordOK(o, r \in audit')
    BY <1>1, <1>3, <2>1, <2>2 DEF RecordOK
  <2>4. QED
    BY <1>1, <2>1, <2>3, OpChange
<1>4. QED
  BY <1>2, <1>3

-----------------------------------------------------------------------------
LEMMA StepOK ==
  ASSUME IInv, [Next]_vars
  PROVE  IInv'
<1>1. CASE UNCHANGED vars
  BY <1>1 DEF vars, IInv, TypeOK, RecordOK, Complete, Present, Absent
<1>2. ASSUME NEW r \in Requests, NEW a \in Users, RequestStart(r, a)
      PROVE  IInv'
  BY <1>2, StartOK
<1>3. ASSUME NEW r \in Requests, RequestStep(r)
      PROVE  IInv'
  BY <1>3, TurnOK, LoadOK, WriteRowOK, WriteLinksOK, ItemOK, LogOK DEF RequestStep
<1>4. ASSUME NEW r \in Requests, QueryFails(r) \/ Lost(r)
      PROVE  IInv'
  BY <1>4, TurnOK
<1>5. QED
  BY <1>1, <1>2, <1>3, <1>4 DEF Next

LEMMA InitOK == Init => IInv
<1> SUFFICES ASSUME Init PROVE IInv
  OBVIOUS
<1>1. TypeOK
  BY UnusedTyped DEF Init, TypeOK, OpSet, PcSet
<1>2. ASSUME NEW r \in Requests
      PROVE  RecordOK(op[r], r \in audit)
  BY UnusedTyped DEF Init, RecordOK
<1>3. QED
  BY <1>1, <1>2 DEF IInv

LEMMA Inductive == Spec => []IInv
  BY InitOK, StepOK, PTL DEF Spec

\* Every variable keeps its type, and no link outlives what it links.
THEOREM TypeCorrect == Spec => []TypeOK
<1>1. IInv => TypeOK
  BY DEF IInv
<1>2. QED
  BY <1>1, Inductive, PTL

\* Whoever is told of success finds an entry in the audit log, and a change without
\* one is of a request that failed, was lost, or is the 409 of an assignment.
THEOREM LogComplete == Spec => []AuditComplete
<1>1. IInv => AuditComplete
  BY DEF IInv, RecordOK, AuditComplete
<1>2. QED
  BY <1>1, Inductive, PTL

\* An entry of an assignment is of one that made every link it lists.
THEOREM LogTrue == Spec => []AuditTrue
<1>1. IInv => AuditTrue
  BY DEF IInv, TypeOK, RecordOK, AuditTrue, Linking
<1>2. QED
  BY <1>1, Inductive, PTL

-----------------------------------------------------------------------------
\* Only the DELETE of a request that did not see the user among the members of the
\* administrators removes it.
LEMMA DeletedUnseen ==
  ASSUME IInv, [Next]_vars, NEW u \in Users, status[u] # "gone", status'[u] = "gone"
  PROVE  \E r \in Requests : op[r].pc = "write" /\ op[r].kind = "delete" /\ op[r].row = u
                             /\ u \notin op[r].saw
<1>1. u \in Rows /\ op \in [Requests -> OpSet] /\ status \in [Rows -> Statuses]
  BY DEF IInv, TypeOK, OpSet, PcSet, Rows
<1>2. PICK r \in Requests : WriteCreate(r) \/ WriteUpdate(r) \/ WriteDelete(r)
  <2>1. status' # status
    OBVIOUS
  <2>2. PICK r \in Requests : (\E a \in Users : RequestStart(r, a)) \/ RequestStep(r)
                              \/ QueryFails(r) \/ Lost(r)
    BY <2>1 DEF Next, vars
  <2>3. ~\E a \in Users : RequestStart(r, a)
    BY <2>1 DEF RequestStart, UserEndpoints, ModelEndpoints, GroupEndpoints, SecretEndpoints,
           RuleEndpoints, RowEndpoints, LinkEndpoints, Create, Update, Delete, Assign, Unassign, Bulk,
           Begin
  <2>4. /\ ~Lost(r) /\ ~QueryFails(r) /\ ~Guard(r) /\ ~Read(r) /\ ~Refresh(r) /\ ~Log(r)
        /\ ~WriteAssign(r) /\ ~WriteUnassign(r)
    BY <2>1 DEF Lost, QueryFails, Guard, Read, Refresh, Log, WriteAssign, WriteUnassign
  <2>5. (~\E l \in op[r].links : Item(r, l)) /\ ~\E k \in op[r].look : LoadChildren(r, k)
    BY <2>1 DEF Item, LoadChildren
  <2>6. QED
    BY <2>2, <2>3, <2>4, <2>5 DEF RequestStep
<1>3. op[r] \in OpSet /\ RecordOK(op[r], r \in audit)
  BY UnderWay
<1>4. ~WriteCreate(r) /\ ~WriteUpdate(r)
  BY <1>1, <1>3 DEF WriteCreate, WriteUpdate, OpSet
<1>5. op[r].pc = "write" /\ op[r].kind = "delete" /\ op[r].row = u
  BY <1>1, <1>2, <1>4 DEF WriteDelete
<1>6. u \notin op[r].saw
  BY <1>3, <1>5 DEF RecordOK
<1>7. QED
  BY <1>5, <1>6

\* However many deletions run at once, one takes the last active administrator only
\* if it has become a member after that deletion queried the memberships.
THEOREM DeletionsLeaveAdministrators == Spec => AdministratorsSurviveDelete
<1>1. IInv /\ [Next]_vars =>
        [\A u \in Users : LastAdminDeleted(u) =>
            \E r \in Requests : op[r].pc = "write" /\ op[r].kind = "delete" /\ op[r].row = u
                                /\ u \notin op[r].saw]_vars
  BY DeletedUnseen DEF LastAdminDeleted
<1>2. QED
  BY <1>1, Inductive, PTL DEF Spec, AdministratorsSurviveDelete

\* A name resolves to a model of the user's listing, and a listed model by its
\* name, whatever the links, the states and the patterns.
THEOREM ResolutionFollowsListing == Spec => []ListingMatchesAccess
<1>1. ListingMatchesAccess
  BY DEF ListingMatchesAccess, ModelForUser, ByPattern, ListUserModels, Accessible
<1>2. QED
  BY <1>1, PTL
=============================================================================

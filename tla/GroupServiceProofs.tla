------------------------- MODULE GroupServiceProofs -------------------------
(***************************************************************************)
(* Proofs about the group service for any number of groups, users and      *)
(* workers, any limits, and any choice of endpoints; and, from the section *)
(* on a single worker on, that requests which are served one after the     *)
(* other take effect atomically, as GroupAbstract says.                    *)
(***************************************************************************)
EXTENDS GroupSerial, FiniteSetTheorems, TLAPS

TablesOK ==
    /\ grp \in [Groups -> GroupRow]
    /\ co \in [Groups -> SUBSET Users]
    /\ mem \in [Groups -> [Users -> MembershipRow \cup {NoMembership}]]

LocalsOK ==
    /\ pc \in [Workers -> Labels]
    /\ req \in [Workers -> Request \cup {NoReq}]
    /\ row \in [Workers -> GroupRow]
    /\ memb \in [Workers -> MembershipRow \cup {NoMembership}]

\* A worker past the insertion of its group, or past routing, serves a
\* request on a group of the table; the instance it may write back is one
\* that was in the table.
Targets ==
    \A w \in Workers :
        /\ pc[w] \in Labels \ {"idle", "findActive", "insertGroup"}
              => req[w] \in Request /\ req[w].group \in Groups
        /\ pc[w] \in {"saveInactive", "saveActive"} => memb[w] \in MembershipRow
        /\ pc[w] = "countSeats" /\ req[w].op = "approve" => memb[w] \in MembershipRow
        /\ pc[w] \in {"findActive", "insertGroup"} => req[w] \in Request /\ req[w].user \in Users

TypeInv == TablesOK /\ LocalsOK /\ Targets

-----------------------------------------------------------------------------
(* The three ways a step ends.                                             *)

LEMMA TypeParts == TypeOK <=> TablesOK /\ LocalsOK
BY DEF TypeOK, TablesOK, LocalsOK

LEMMA FinishLocals ==
    ASSUME TypeInv, NEW w \in Workers, Finish(w)
    PROVE  LocalsOK' /\ Targets'
<1>1. NoRow \in GroupRow
  BY LimitsAssumption DEF NoRow, GroupRow
<1>2. LocalsOK'
  BY <1>1 DEF TypeInv, LocalsOK, Finish, Labels
<1>3. Targets'
  BY DEF TypeInv, LocalsOK, Targets, Finish, Labels
<1> QED BY <1>2, <1>3

LEMMA RefuseType ==
    ASSUME TypeInv, NEW w \in Workers, Refuse(w)
    PROVE  TypeInv'
<1>1. LocalsOK' /\ Targets'
  BY FinishLocals DEF Refuse
<1>2. TablesOK'
  BY DEF TypeInv, TablesOK, Refuse, tables
<1> QED BY <1>1, <1>2 DEF TypeInv

LEMMA ProceedType ==
    ASSUME TypeInv, NEW w \in Workers, NEW l \in Labels \ {"idle"}, Proceed(w, l),
           \/ pc[w] \notin {"idle", "findActive", "insertGroup"} /\ l \notin {"findActive", "insertGroup", "saveInactive"}
           \/ pc[w] = "findActive" /\ l = "insertGroup",
           l = "saveActive" => memb[w] \in MembershipRow,
           l = "countSeats" => req[w].op = "join"
    PROVE  TypeInv'
<1>1. TablesOK'
  BY DEF TypeInv, TablesOK, Proceed, tables
<1>2. LocalsOK'
  BY DEF TypeInv, LocalsOK, Proceed, Goto
<1>3. Targets'
  BY DEF TypeInv, LocalsOK, Targets, Proceed, Goto, Labels
<1> QED BY <1>1, <1>2, <1>3 DEF TypeInv

-----------------------------------------------------------------------------
(* Type correctness, action by action.                                     *)

LEMMA InsertType ==
    ASSUME TypeInv, NEW g \in Groups, NEW u \in Users, NEW role \in Roles,
           NEW status \in Statuses, InsertMembership(g, u, role, status)
    PROVE  mem' \in [Groups -> [Users -> MembershipRow \cup {NoMembership}]]
BY DEF TypeInv, TablesOK, InsertMembership, MembershipRow

LEMMA SaveType ==
    ASSUME TypeInv, NEW g \in Groups, NEW u \in Users, NEW r \in MembershipRow,
           SaveMembership(g, u, r)
    PROVE  mem' \in [Groups -> [Users -> MembershipRow \cup {NoMembership}]]
<1>1. CASE mem[g][u].id \in {r.id, NoId}
  <2>1. mem' = [mem EXCEPT ![g][u] = r]
    BY <1>1 DEF SaveMembership
  <2> QED BY <2>1 DEF TypeInv, TablesOK
<1>2. CASE mem[g][u].id \notin {r.id, NoId}
  <2>1. UNCHANGED mem
    BY <1>2 DEF SaveMembership
  <2> QED BY <2>1 DEF TypeInv, TablesOK
<1> QED BY <1>1, <1>2

\* A step that ends the request and writes the membership table only.
LEMMA FinishMembership ==
    ASSUME TypeInv, NEW w \in Workers, Finish(w), UNCHANGED <<grp, co>>,
           mem' \in [Groups -> [Users -> MembershipRow \cup {NoMembership}]]
    PROVE  TypeInv'
<1>1. LocalsOK' /\ Targets'
  BY FinishLocals
<1> QED BY <1>1 DEF TypeInv, TablesOK

LEMMA BeginType == ASSUME TypeInv, NEW w \in Workers, Begin(w) PROVE TypeInv'
<1>1. PICK op \in Ops :
         /\ \/ op = "create" /\ BeginCreate(w)
            \/ op \in {"join", "leave", "update", "photo", "destroy"} /\ BeginOnGroup(w, op)
            \/ op \in {"approve", "reject"} /\ BeginOnMembership(w, op)
         /\ Goto(w, FirstLabel(op))
  BY DEF Begin
<1>2. TablesOK' /\ row' \in [Workers -> GroupRow]
  BY DEF Begin, tables, TypeInv, TablesOK, LocalsOK
<1>3. PICK r \in Request : req' = [req EXCEPT ![w] = r] /\ (op # "create" => r.group \in Groups)
  <2>1. CASE op = "create" /\ BeginCreate(w)
    <3>1. PICK u \in CanLead :
             req' = [req EXCEPT ![w] = [op |-> "create", user |-> u, group |-> NoGroup, target |-> u]]
      BY <2>1 DEF BeginCreate
    <3>2. [op |-> "create", user |-> u, group |-> NoGroup, target |-> u] \in Request
      BY UsersAssumption DEF Request, AllOps
    <3> QED BY <2>1, <3>1, <3>2
  <2>2. CASE op \in {"join", "leave", "update", "photo", "destroy"} /\ BeginOnGroup(w, op)
    <3>1. PICK g \in Groups, u \in Users :
             req' = [req EXCEPT ![w] = [op |-> op, user |-> u, group |-> g, target |-> u]]
      BY <2>2 DEF BeginOnGroup
    <3>2. [op |-> op, user |-> u, group |-> g, target |-> u] \in Request
      BY <2>2 DEF Request, AllOps
    <3> QED BY <3>1, <3>2
  <2>3. CASE op \in {"approve", "reject"} /\ BeginOnMembership(w, op)
    <3>1. PICK g \in Groups, u \in Users, t \in Users :
             req' = [req EXCEPT ![w] = [op |-> op, user |-> u, group |-> g, target |-> t]]
      BY <2>3 DEF BeginOnMembership
    <3>2. [op |-> op, user |-> u, group |-> g, target |-> t] \in Request
      BY <2>3 DEF Request, AllOps
    <3> QED BY <3>1, <3>2
  <2> QED BY <1>1, <2>1, <2>2, <2>3
<1>4. memb' \in [Workers -> MembershipRow \cup {NoMembership}] /\ \A v \in Workers : v # w => memb'[v] = memb[v]
  BY <1>1 DEF BeginCreate, BeginOnGroup, BeginOnMembership, TypeInv, TablesOK, LocalsOK
<1>5. pc' = [pc EXCEPT ![w] = IF op = "create" THEN "findActive" ELSE "getGroup"]
  BY <1>1 DEF Goto, FirstLabel
<1>6. LocalsOK'
  BY <1>2, <1>3, <1>4, <1>5 DEF TypeInv, LocalsOK, Labels
<1>7. Targets'
  BY <1>3, <1>4, <1>5 DEF TypeInv, LocalsOK, Targets, Labels, Request
<1> QED BY <1>2, <1>6, <1>7 DEF TypeInv

LEMMA InsertGroupType == ASSUME TypeInv, NEW w \in Workers, InsertGroup(w) PROVE TypeInv'
<1>1. req[w] \in Request /\ req[w].user \in Users
  BY DEF InsertGroup, TypeInv, Targets
<1>2. PICK g \in Groups, limit \in Limits, open \in BOOLEAN :
         /\ grp' = [grp EXCEPT ![g] = [creator |-> req[w].user, leader |-> req[w].user,
                                       active |-> TRUE, open |-> open,
                                       archived |-> FALSE, limit |-> limit]]
         /\ req' = [req EXCEPT ![w].group = g]
  BY DEF InsertGroup
<1>3. limit \in 0..MaxLimit
  BY LimitsAssumption
<1>4. TablesOK'
  BY <1>1, <1>2, <1>3 DEF InsertGroup, TypeInv, TablesOK, GroupRow
<1>5. [req[w] EXCEPT !.group = g] \in Request
  BY <1>1 DEF Request
<1>6. LocalsOK'
  BY <1>2, <1>5 DEF InsertGroup, Goto, TypeInv, LocalsOK, Labels
<1>7. Targets'
  BY <1>2, <1>5 DEF InsertGroup, Goto, TypeInv, LocalsOK, Targets, Labels, Request
<1> QED BY <1>4, <1>6, <1>7 DEF TypeInv

LEMMA GetGroupType == ASSUME TypeInv, NEW w \in Workers, GetGroup(w) PROVE TypeInv'
<1>1. CASE Refuse(w)
  BY <1>1, RefuseType
<1>2. CASE /\ row' = [row EXCEPT ![w] = grp[req[w].group]]
           /\ Goto(w, AfterGet(req[w].op))
           /\ UNCHANGED <<req, memb, tables>>
  <2>1. AfterGet(req[w].op) \in {"readOwn", "checkLeader", "recheck", "archive"}
    BY DEF AfterGet
  <2>2. req[w] \in Request /\ req[w].group \in Groups
    BY DEF GetGroup, TypeInv, Targets, Labels
  <2>3. TablesOK'
    BY <1>2 DEF tables, TypeInv, TablesOK
  <2>4. LocalsOK'
    BY <1>2, <2>1, <2>2 DEF Goto, TypeInv, TablesOK, LocalsOK, Labels
  <2>5. Targets'
    BY <1>2, <2>1, <2>2 DEF Goto, TypeInv, LocalsOK, Targets, Labels
  <2> QED BY <2>3, <2>4, <2>5 DEF TypeInv
<1> QED BY <1>1, <1>2 DEF GetGroup

\* A step that loads a membership: the row exists.
LEMMA LoadType ==
    ASSUME TypeInv, NEW w \in Workers, NEW g \in Groups, NEW u \in Users,
           HasRow(g, u), memb' = [memb EXCEPT ![w] = mem[g][u]],
           NEW l \in {"saveInactive", "countSeats", "deleteRow"}, Goto(w, l),
           req[w] \in Request, req[w].group \in Groups,
           UNCHANGED <<req, row, tables>>
    PROVE  TypeInv'
<1>1. mem[g][u] \in MembershipRow
  BY DEF TypeInv, TablesOK, HasRow
<1>2. TablesOK'
  BY DEF tables, TypeInv, TablesOK
<1>3. LocalsOK'
  BY <1>1 DEF Goto, TypeInv, LocalsOK, Labels
<1>4. Targets'
  BY <1>1 DEF Goto, TypeInv, LocalsOK, Targets, Labels
<1> QED BY <1>2, <1>3, <1>4 DEF TypeInv

LEMMA SaveEditedType ==
    ASSUME NEW g \in Groups, NEW r \in GroupRow, SaveEdited(g, r)
    PROVE  \E e \in GroupRow : SaveRow(g, e)
<1>1. PICK l \in CanLead \cup {r.leader}, n \in Limits \cup {r.limit}, o \in BOOLEAN, a \in BOOLEAN :
         SaveRow(g, [r EXCEPT !.leader = l, !.limit = n, !.open = o, !.active = a])
  BY DEF SaveEdited
<1>2. l \in Users \cup {NoUser} /\ n \in 0..MaxLimit
  BY UsersAssumption, LimitsAssumption DEF GroupRow
<1>3. [r EXCEPT !.leader = l, !.limit = n, !.open = o, !.active = a] \in GroupRow
  BY <1>2 DEF GroupRow
<1> QED BY <1>1, <1>3

LEMMA SaveGroupType == ASSUME TypeInv, NEW w \in Workers, SaveGroup(w) PROVE TypeInv'
<1>1. req[w] \in Request /\ req[w].group \in Groups /\ row[w] \in GroupRow
  BY DEF SaveGroup, TypeInv, LocalsOK, Targets, Labels
<1>2. PICK r \in GroupRow : grp' = [grp EXCEPT ![req[w].group] = r]
  BY <1>1, SaveEditedType DEF SaveGroup, SaveRow
<1>3. TablesOK'
  BY <1>1, <1>2 DEF SaveGroup, TypeInv, TablesOK
<1>4. LocalsOK' /\ Targets'
  <2>1. CASE Finish(w)
    BY <2>1, FinishLocals
  <2>2. CASE Goto(w, "setCoLeaders") /\ UNCHANGED <<req, row, memb>>
    <3>1. LocalsOK'
      BY <2>2 DEF Goto, TypeInv, LocalsOK, Labels
    <3>2. Targets'
      BY <1>1, <2>2 DEF Goto, TypeInv, LocalsOK, Targets, Labels
    <3> QED BY <3>1, <3>2
  <2> QED BY <2>1, <2>2 DEF SaveGroup
<1> QED BY <1>3, <1>4 DEF TypeInv

LEMMA StepType == ASSUME TypeInv, NEW w \in Workers, Step(w) PROVE TypeInv'
<1> DEFINE g == req[w].group
<1> DEFINE u == req[w].user
<1>0. /\ pc[w] \in Labels
      /\ pc[w] \notin {"idle", "findActive", "insertGroup"}
            => req[w] \in Request /\ g \in Groups /\ u \in Users /\ req[w].target \in Users
  BY DEF TypeInv, LocalsOK, Targets, Request
<1>1. CASE Begin(w)
  BY <1>1, BeginType
<1>2. CASE GetGroup(w)
  BY <1>2, GetGroupType
<1>3. CASE FindActive(w)
  BY <1>3, RefuseType, ProceedType DEF FindActive, Labels
<1>4. CASE InsertGroup(w)
  BY <1>4, InsertGroupType
<1>5. CASE SeatLeader(w)
  <2>1. mem' \in [Groups -> [Users -> MembershipRow \cup {NoMembership}]]
    <3>1. CASE InsertMembership(g, u, "leader", "active")
      BY <1>0, <1>5, <3>1, InsertType DEF SeatLeader, Roles, Statuses
    <3>2. CASE UNCHANGED mem
      BY <3>2 DEF TypeInv, TablesOK
    <3> QED BY <1>5, <3>1, <3>2 DEF SeatLeader
  <2> QED BY <1>5, <2>1, FinishMembership DEF SeatLeader
<1>6. CASE ReadOwnToJoin(w)
  <2>1. CASE Proceed(w, "countSeats")
    BY <1>6, <2>1, ProceedType DEF ReadOwnToJoin, Labels
  <2> QED BY <1>6, <2>1, RefuseType DEF ReadOwnToJoin
<1>7. CASE CountSeatsToJoin(w)
  <2>1. CASE Proceed(w, "insertPending")
    BY <1>7, <2>1, ProceedType DEF CountSeatsToJoin, Labels
  <2> QED BY <1>7, <2>1, RefuseType DEF CountSeatsToJoin
<1>8. CASE InsertPending(w)
  <2>1. mem' \in [Groups -> [Users -> MembershipRow \cup {NoMembership}]]
    <3>1. CASE InsertMembership(g, u, "member", "pending")
      BY <1>0, <1>8, <3>1, InsertType DEF InsertPending, Roles, Statuses
    <3>2. CASE UNCHANGED mem
      BY <3>2 DEF TypeInv, TablesOK
    <3> QED BY <1>8, <3>1, <3>2 DEF InsertPending
  <2> QED BY <1>8, <2>1, FinishMembership DEF InsertPending
<1>9. CASE ReadOwnToLeave(w)
  <2>1. CASE MayLeave(w)
    BY <1>0, <1>9, <2>1, LoadType DEF ReadOwnToLeave, MayLeave
  <2> QED BY <1>9, <2>1, RefuseType DEF ReadOwnToLeave
<1>10. CASE SaveInactive(w)
  <2>1. [memb[w] EXCEPT !.status = "inactive"] \in MembershipRow
    BY <1>10 DEF SaveInactive, TypeInv, Targets, MembershipRow, Statuses
  <2>2. mem' \in [Groups -> [Users -> MembershipRow \cup {NoMembership}]]
    BY <1>0, <1>10, <2>1, SaveType DEF SaveInactive
  <2> QED BY <1>10, <2>2, FinishMembership DEF SaveInactive
<1>11. CASE CheckLeader(w)
  <2>1. CASE \E l \in {"saveGroup", "readPending"} : Proceed(w, l)
    BY <1>11, <2>1, ProceedType DEF CheckLeader, Labels
  <2> QED BY <1>11, <2>1, RefuseType DEF CheckLeader
<1>12. CASE ReadPending(w)
  <2>1. CASE PendingFound(w)
    <3>1. HasRow(g, req[w].target)
      BY <2>1 DEF PendingFound, HasRow, NoMembership
    <3>2. PICK l \in {"countSeats", "deleteRow"} : Goto(w, l)
      BY <1>12, <2>1 DEF ReadPending
    <3> QED BY <1>0, <1>12, <2>1, <3>1, <3>2, LoadType DEF ReadPending
  <2> QED BY <1>12, <2>1, RefuseType DEF ReadPending
<1>13. CASE CountSeatsToApprove(w)
  <2>1. CASE Proceed(w, "saveActive")
    <3>1. memb[w] \in MembershipRow
      BY <1>13 DEF CountSeatsToApprove, TypeInv, Targets
    <3> QED BY <1>13, <2>1, <3>1, ProceedType DEF CountSeatsToApprove, Labels
  <2> QED BY <1>13, <2>1, RefuseType DEF CountSeatsToApprove
<1>14. CASE SaveActive(w)
  <2>1. [memb[w] EXCEPT !.status = "active"] \in MembershipRow
    BY <1>14 DEF SaveActive, TypeInv, Targets, MembershipRow, Statuses
  <2>2. mem' \in [Groups -> [Users -> MembershipRow \cup {NoMembership}]]
    BY <1>0, <1>14, <2>1, SaveType DEF SaveActive
  <2> QED BY <1>14, <2>2, FinishMembership DEF SaveActive
<1>15. CASE DeleteRow(w)
  <2>1. mem' \in [Groups -> [Users -> MembershipRow \cup {NoMembership}]]
    BY <1>0, <1>15 DEF DeleteRow, TypeInv, TablesOK
  <2> QED BY <1>15, <2>1, FinishMembership DEF DeleteRow
<1>16. CASE Recheck(w)
  <2>1. CASE Proceed(w, "saveGroup")
    BY <1>16, <2>1, ProceedType DEF Recheck, Labels
  <2> QED BY <1>16, <2>1, RefuseType DEF Recheck
<1>17. CASE SaveGroup(w)
  BY <1>17, SaveGroupType
<1>18. CASE SetCoLeaders(w)
  <2>1. LocalsOK' /\ Targets'
    BY <1>18, FinishLocals DEF SetCoLeaders
  <2>2. TablesOK'
    BY <1>18, CoListsAssumption DEF SetCoLeaders, TypeInv, TablesOK
  <2> QED BY <2>1, <2>2 DEF TypeInv
<1>19. CASE Archive(w)
  <2>1. CASE Refuse(w)
    BY <2>1, RefuseType
  <2>2. CASE /\ SaveRow(g, [grp[g] EXCEPT !.archived = TRUE, !.active = FALSE, !.open = FALSE])
             /\ Finish(w)
             /\ UNCHANGED <<co, mem>>
    <3>1. LocalsOK' /\ Targets'
      BY <2>2, FinishLocals
    <3>2. TablesOK'
      <4>1. [grp[g] EXCEPT !.archived = TRUE, !.active = FALSE, !.open = FALSE] \in GroupRow
        <5>1. g \in Groups
          BY <1>0, <1>19 DEF Archive
        <5>2. grp[g] \in GroupRow
          BY <5>1 DEF TypeInv, TablesOK
        <5> QED BY <5>2 DEF GroupRow
      <4> QED BY <2>2, <4>1 DEF SaveRow, TypeInv, TablesOK
    <3> QED BY <3>1, <3>2 DEF TypeInv
  <2> QED BY <1>19, <2>1, <2>2 DEF Archive
<1>20. CASE Abort(w)
  BY <1>20, RefuseType DEF Abort
<1> QED BY <1>1, <1>2, <1>3, <1>4, <1>5, <1>6, <1>7, <1>8, <1>9, <1>10, <1>11, <1>12,
           <1>13, <1>14, <1>15, <1>16, <1>17, <1>18, <1>19, <1>20 DEF Step

LEMMA InitType == Init => TypeInv
<1> SUFFICES ASSUME Init PROVE TypeInv
  OBVIOUS
<1>1. NoRow \in GroupRow
  BY LimitsAssumption DEF NoRow, GroupRow
<1>2. TablesOK
  BY <1>1 DEF Init, TablesOK
<1>3. LocalsOK /\ Targets
  BY <1>1 DEF Init, LocalsOK, Targets, Labels
<1> QED BY <1>2, <1>3 DEF TypeInv

LEMMA StutterType == TypeInv /\ UNCHANGED vars => TypeInv'
BY DEF vars, TypeInv, TablesOK, LocalsOK, Targets

LEMMA TypeInvariant == Spec => []TypeInv
<1>1. TypeInv /\ [Next]_vars => TypeInv'
  BY StepType, StutterType DEF Next
<1> QED BY <1>1, InitType, PTL DEF Spec

\* Every table row and every local variable keeps its type, whatever the
\* interleaving of the handlers' statements.
THEOREM TypeCorrect == Spec => []TypeOK
<1>1. TypeInv => TypeOK
  BY TypeParts DEF TypeInv
<1> QED BY <1>1, TypeInvariant, PTL

-----------------------------------------------------------------------------
(* The member limit.  Membership rows belong to groups that exist, requests *)
(* past routing are about such groups, and an instance that may be written  *)
(* back has a leader: no step makes a group disappear.                      *)

NoOrphans    == \A g \in Groups : ~Exists(g) => \A u \in Users : mem[g][u] = NoMembership
Routed(w)    == pc[w] \notin {"idle", "findActive", "insertGroup"}
TargetExists == \A w \in Workers : Routed(w) => Exists(req[w].group)
RowLoaded    == \A w \in Workers : pc[w] \in {"checkLeader", "recheck", "saveGroup"}
                                      => row[w].leader # NoUser
Owned == NoOrphans /\ TargetExists /\ RowLoaded

\* What a step of one worker must respect to keep that.
LEMMA OwnedKept ==
    ASSUME Owned, NEW w \in Workers,
           \A g \in Groups : Exists(g) => Exists(g)',
           \A g \in Groups : ~Exists(g)' => \A u \in Users : mem'[g][u] = mem[g][u],
           \A v \in Workers \ {w} : Routed(v) => req[v].group \in Groups,
           \A v \in Workers \ {w} : pc'[v] = pc[v] /\ req'[v] = req[v] /\ row'[v] = row[v],
           Routed(w)' => Exists(req[w].group)',
           pc'[w] \in {"checkLeader", "recheck", "saveGroup"} => row'[w].leader # NoUser
    PROVE  Owned'
<1>1. NoOrphans'
  BY DEF Owned, NoOrphans
<1>2. TargetExists'
  <2> SUFFICES ASSUME NEW v \in Workers, Routed(v)' PROVE Exists(req[v].group)'
    BY DEF TargetExists
  <2>1. CASE v = w
    BY <2>1
  <2>2. CASE v # w
    <3>1. Routed(v) /\ req'[v] = req[v]
      BY <2>2 DEF Routed
    <3>2. Exists(req[v].group) /\ req[v].group \in Groups
      BY <2>2, <3>1 DEF Owned, TargetExists
    <3> QED BY <3>1, <3>2 DEF Exists
  <2> QED BY <2>1, <2>2
<1>3. RowLoaded'
  BY DEF Owned, RowLoaded
<1> QED BY <1>1, <1>2, <1>3 DEF Owned

\* A request that ends, with no change to the groups and only memberships
\* of the request's group written, respects it.
LEMMA OwnedFinish ==
    ASSUME TypeInv, Owned, NEW w \in Workers, Finish(w),
           \A g \in Groups : Exists(g) => Exists(g)',
           \A g \in Groups : ~Exists(g) => \A u \in Users : mem'[g][u] = mem[g][u]
    PROVE  Owned'
<1>1. \A v \in Workers \ {w} : pc'[v] = pc[v] /\ req'[v] = req[v] /\ row'[v] = row[v]
  BY DEF Finish, TypeInv, LocalsOK
<1>2. pc'[w] = "idle"
  BY DEF Finish, TypeInv, LocalsOK
<1>3. \A v \in Workers : Routed(v) => req[v].group \in Groups
  BY DEF TypeInv, LocalsOK, Targets, Routed
<1>4. ~Routed(w)' /\ pc'[w] \notin {"checkLeader", "recheck", "saveGroup"}
  BY <1>2 DEF Routed
<1> QED BY <1>1, <1>3, <1>4, OwnedKept

LEMMA OwnedRefuse ==
    ASSUME TypeInv, Owned, NEW w \in Workers, Refuse(w)
    PROVE  Owned'
BY OwnedFinish DEF Refuse, tables, Exists

\* A step that writes no table and stays on its request.
LEMMA OwnedProceed ==
    ASSUME TypeInv, Owned, NEW w \in Workers, NEW l \in Labels, Goto(w, l),
           UNCHANGED <<req, tables>>, Routed(w) \/ l = "insertGroup",
           \A v \in Workers \ {w} : row'[v] = row[v],
           l \in {"checkLeader", "recheck", "saveGroup"} => row'[w].leader # NoUser
    PROVE  Owned'
<1>1. \A v \in Workers \ {w} : pc'[v] = pc[v] /\ req'[v] = req[v] /\ row'[v] = row[v]
  BY DEF Goto, TypeInv, LocalsOK
<1>2. pc'[w] = l
  BY DEF Goto, TypeInv, LocalsOK
<1>3. \A v \in Workers : Routed(v) => req[v].group \in Groups
  BY DEF TypeInv, LocalsOK, Targets, Routed
<1>4. Routed(w)' => Exists(req[w].group)'
  BY <1>2 DEF Routed, Owned, TargetExists, Exists, tables
<1>5. \A g \in Groups : (Exists(g) <=> Exists(g)') /\ \A u \in Users : mem'[g][u] = mem[g][u]
  BY DEF Exists, tables
<1> QED BY <1>1, <1>2, <1>3, <1>4, <1>5, OwnedKept

LEMMA OwnedBegin == ASSUME TypeInv, Owned, NEW w \in Workers, Begin(w) PROVE Owned'
<1>1. PICK op \in Ops :
         /\ \/ op = "create" /\ BeginCreate(w)
            \/ op \in {"join", "leave", "update", "photo", "destroy"} /\ BeginOnGroup(w, op)
            \/ op \in {"approve", "reject"} /\ BeginOnMembership(w, op)
         /\ Goto(w, FirstLabel(op))
  BY DEF Begin
<1>2. PICK r : req' = [req EXCEPT ![w] = r] /\ (op # "create" => r.group \in Groups /\ Exists(r.group))
  <2>1. CASE op = "create" /\ BeginCreate(w)
    BY <2>1 DEF BeginCreate
  <2>2. CASE op \in {"join", "leave", "update", "photo", "destroy"} /\ BeginOnGroup(w, op)
    <3>1. PICK g \in Groups, u \in Users :
             Exists(g) /\ req' = [req EXCEPT ![w] = [op |-> op, user |-> u, group |-> g, target |-> u]]
      BY <2>2 DEF BeginOnGroup
    <3>2. [op |-> op, user |-> u, group |-> g, target |-> u].group = g
      OBVIOUS
    <3> QED BY <3>1, <3>2
  <2>3. CASE op \in {"approve", "reject"} /\ BeginOnMembership(w, op)
    <3>1. PICK g \in Groups, u \in Users, t \in Users :
             HasRow(g, t) /\ req' = [req EXCEPT ![w] = [op |-> op, user |-> u, group |-> g, target |-> t]]
      BY <2>3 DEF BeginOnMembership
    <3>2. Exists(g)
      BY <3>1 DEF HasRow, Owned, NoOrphans
    <3>3. [op |-> op, user |-> u, group |-> g, target |-> t].group = g
      OBVIOUS
    <3> QED BY <3>1, <3>2, <3>3
  <2> QED BY <1>1, <2>1, <2>2, <2>3
<1>3. pc' = [pc EXCEPT ![w] = IF op = "create" THEN "findActive" ELSE "getGroup"]
  BY <1>1 DEF Goto, FirstLabel
<1>4. \A v \in Workers \ {w} : pc'[v] = pc[v] /\ req'[v] = req[v] /\ row'[v] = row[v]
  BY <1>2, <1>3 DEF Begin, TypeInv, LocalsOK
<1>5. \A g \in Groups : (Exists(g) <=> Exists(g)') /\ \A u \in Users : mem'[g][u] = mem[g][u]
  BY DEF Begin, tables, Exists
<1>6. \A v \in Workers : Routed(v) => req[v].group \in Groups
  BY DEF TypeInv, LocalsOK, Targets, Routed
<1>7. pc'[w] = (IF op = "create" THEN "findActive" ELSE "getGroup") /\ req'[w] = r
  BY <1>2, <1>3 DEF TypeInv, LocalsOK
<1>8. Routed(w)' => Exists(req[w].group)'
  BY <1>2, <1>5, <1>7 DEF Routed, Exists
<1> QED BY <1>4, <1>5, <1>6, <1>7, <1>8, OwnedKept

LEMMA OwnedInsertGroup == ASSUME TypeInv, Owned, NEW w \in Workers, InsertGroup(w) PROVE Owned'
<1>1. req[w].user # NoUser
  BY UsersAssumption DEF InsertGroup, TypeInv, Targets
<1>2. PICK g \in Groups : /\ ~Exists(g)
                          /\ \E r : SaveRow(g, r) /\ r.leader = req[w].user
                          /\ req' = [req EXCEPT ![w].group = g]
  <2>1. PICK g \in Groups, limit \in Limits, open \in BOOLEAN :
           /\ ~Exists(g)
           /\ grp' = [grp EXCEPT ![g] = [creator |-> req[w].user, leader |-> req[w].user,
                                         active |-> TRUE, open |-> open,
                                         archived |-> FALSE, limit |-> limit]]
           /\ req' = [req EXCEPT ![w].group = g]
    BY DEF InsertGroup
  <2>2. [creator |-> req[w].user, leader |-> req[w].user, active |-> TRUE, open |-> open,
         archived |-> FALSE, limit |-> limit].leader = req[w].user
    OBVIOUS
  <2> QED BY <2>1, <2>2 DEF SaveRow
<1>3. Exists(g)' /\ \A h \in Groups \ {g} : Exists(h) <=> Exists(h)'
  BY <1>1, <1>2 DEF Exists, SaveRow, TypeInv, TablesOK
<1>4. \A v \in Workers \ {w} : pc'[v] = pc[v] /\ req'[v] = req[v] /\ row'[v] = row[v]
  BY <1>2 DEF InsertGroup, Goto, TypeInv, LocalsOK
<1>5. pc'[w] = "seatLeader"
  BY DEF InsertGroup, Goto, TypeInv, LocalsOK
<1>6. req[w] \in Request /\ req'[w].group = g
  BY <1>2 DEF InsertGroup, TypeInv, LocalsOK, Targets, Request
<1>7. \A v \in Workers : Routed(v) => req[v].group \in Groups
  BY DEF TypeInv, LocalsOK, Targets, Routed
<1>8. Routed(w)' => Exists(req[w].group)'
  BY <1>3, <1>6 DEF Exists
<1>9. mem' = mem
  BY DEF InsertGroup
<1> QED BY <1>2, <1>3, <1>4, <1>5, <1>7, <1>8, <1>9, OwnedKept

LEMMA OwnedSaveGroup == ASSUME TypeInv, Owned, NEW w \in Workers, SaveGroup(w) PROVE Owned'
<1>1. req[w].group \in Groups /\ row[w].leader # NoUser
  BY DEF SaveGroup, TypeInv, LocalsOK, Targets, Labels, Owned, RowLoaded
<1>2. PICK r : SaveRow(req[w].group, r) /\ r.leader # NoUser
  <2>1. CASE SaveEdited(req[w].group, row[w])
    <3>1. PICK l \in CanLead \cup {row[w].leader}, n \in Limits \cup {row[w].limit}, o \in BOOLEAN, a \in BOOLEAN :
             SaveRow(req[w].group, [row[w] EXCEPT !.leader = l, !.limit = n, !.open = o, !.active = a])
      BY <2>1 DEF SaveEdited
    <3>2. row[w] \in GroupRow /\ l # NoUser
      BY <1>1, UsersAssumption DEF TypeInv, LocalsOK
    <3>3. [row[w] EXCEPT !.leader = l, !.limit = n, !.open = o, !.active = a].leader = l
      BY <3>2 DEF GroupRow
    <3> QED BY <3>1, <3>2, <3>3
  <2>2. CASE SaveRow(req[w].group, row[w])
    BY <1>1, <2>2
  <2> QED BY <2>1, <2>2 DEF SaveGroup
<1>3. \A g \in Groups : Exists(g) => Exists(g)'
  BY <1>1, <1>2 DEF Exists, SaveRow, TypeInv, TablesOK
<1>4. mem' = mem
  BY DEF SaveGroup
<1>5. CASE Finish(w)
  BY <1>3, <1>4, <1>5, OwnedFinish
<1>6. CASE Goto(w, "setCoLeaders") /\ UNCHANGED <<req, row, memb>>
  <2>1. \A v \in Workers \ {w} : pc'[v] = pc[v] /\ req'[v] = req[v] /\ row'[v] = row[v]
    BY <1>6 DEF Goto, TypeInv, LocalsOK
  <2>2. pc'[w] = "setCoLeaders"
    BY <1>6 DEF Goto, TypeInv, LocalsOK
  <2>3. \A v \in Workers : Routed(v) => req[v].group \in Groups
    BY DEF TypeInv, LocalsOK, Targets, Routed
  <2>4. Routed(w)' => Exists(req[w].group)'
    BY <1>1, <1>2, <1>6 DEF Exists, SaveRow, TypeInv, TablesOK
  <2> QED BY <1>3, <1>4, <2>1, <2>2, <2>3, <2>4, OwnedKept
<1> QED BY <1>5, <1>6 DEF SaveGroup

\* The handlers that end by writing one membership of the request's group.
LEMMA OwnedMembership ==
    ASSUME TypeInv, Owned, NEW w \in Workers, Finish(w), Routed(w), NEW u \in Users, NEW m,
           mem' = [mem EXCEPT ![req[w].group][u] = m] \/ UNCHANGED mem,
           UNCHANGED <<grp, co>>
    PROVE  Owned'
<1>1. Exists(req[w].group) /\ req[w].group \in Groups
  BY DEF Owned, TargetExists, TypeInv, LocalsOK, Targets, Routed
<1>2. \A g \in Groups : g # req[w].group => mem'[g] = mem[g]
  BY DEF TypeInv, TablesOK
<1>3. \A g \in Groups : ~Exists(g) => \A v \in Users : mem'[g][v] = mem[g][v]
  BY <1>1, <1>2
<1>4. \A g \in Groups : Exists(g) => Exists(g)'
  BY DEF Exists
<1> QED BY <1>3, <1>4, OwnedFinish

LEMMA OwnedStep == ASSUME TypeInv, Owned, NEW w \in Workers, Step(w) PROVE Owned'
<1> DEFINE g == req[w].group
<1> DEFINE u == req[w].user
<1> DEFINE t == req[w].target
<1>0. Routed(w) => g \in Groups /\ u \in Users /\ t \in Users /\ Exists(g)
  BY DEF TypeInv, LocalsOK, Targets, Routed, Request, Owned, TargetExists
<1>1. CASE Begin(w)
  BY <1>1, OwnedBegin
<1>2. CASE GetGroup(w)
  <2>1. CASE row' = [row EXCEPT ![w] = grp[g]] /\ Goto(w, AfterGet(req[w].op)) /\ UNCHANGED <<req, memb, tables>>
    <3>1. AfterGet(req[w].op) \in Labels
      BY DEF AfterGet, Labels
    <3>2. Routed(w) /\ grp[g].leader # NoUser
      BY <1>0, <1>2 DEF GetGroup, Routed, Exists
    <3>3. row'[w].leader # NoUser /\ \A v \in Workers \ {w} : row'[v] = row[v]
      BY <2>1, <3>2 DEF TypeInv, LocalsOK
    <3> QED BY <2>1, <3>1, <3>2, <3>3, OwnedProceed
  <2> QED BY <1>2, <2>1, OwnedRefuse DEF GetGroup
<1>3. CASE FindActive(w)
  BY <1>3, OwnedRefuse, OwnedProceed DEF FindActive, Proceed, Labels
<1>4. CASE InsertGroup(w)
  BY <1>4, OwnedInsertGroup
<1>5. CASE SeatLeader(w)
  <2>1. PICK m : mem' = [mem EXCEPT ![g][u] = m] \/ UNCHANGED mem
    BY <1>5 DEF SeatLeader, InsertMembership
  <2> QED BY <1>0, <1>5, <2>1, OwnedMembership DEF SeatLeader, Routed
<1>6. CASE ReadOwnToJoin(w)
  BY <1>6, OwnedRefuse, OwnedProceed DEF ReadOwnToJoin, Proceed, Labels, Routed
<1>7. CASE CountSeatsToJoin(w)
  BY <1>7, OwnedRefuse, OwnedProceed DEF CountSeatsToJoin, Proceed, Labels, Routed
<1>8. CASE InsertPending(w)
  <2>1. PICK m : mem' = [mem EXCEPT ![g][u] = m] \/ UNCHANGED mem
    BY <1>8 DEF InsertPending, InsertMembership
  <2> QED BY <1>0, <1>8, <2>1, OwnedMembership DEF InsertPending, Routed
<1>9. CASE ReadOwnToLeave(w)
  BY <1>9, OwnedRefuse, OwnedProceed DEF ReadOwnToLeave, Labels, Routed
<1>10. CASE SaveInactive(w)
  BY <1>0, <1>10, OwnedMembership DEF SaveInactive, SaveMembership, Routed
<1>11. CASE CheckLeader(w)
  <2>1. Routed(w) /\ row[w].leader # NoUser
    BY <1>11 DEF CheckLeader, Routed, Owned, RowLoaded
  <2> QED BY <1>11, <2>1, OwnedRefuse, OwnedProceed DEF CheckLeader, Proceed, Labels
<1>12. CASE ReadPending(w)
  BY <1>12, OwnedRefuse, OwnedProceed DEF ReadPending, Labels, Routed
<1>13. CASE CountSeatsToApprove(w)
  BY <1>13, OwnedRefuse, OwnedProceed DEF CountSeatsToApprove, Proceed, Labels, Routed
<1>14. CASE SaveActive(w)
  BY <1>0, <1>14, OwnedMembership DEF SaveActive, SaveMembership, Routed
<1>15. CASE DeleteRow(w)
  BY <1>0, <1>15, OwnedMembership DEF DeleteRow, Routed
<1>16. CASE Recheck(w)
  <2>1. Routed(w) /\ row[w].leader # NoUser
    BY <1>16 DEF Recheck, Routed, Owned, RowLoaded
  <2> QED BY <1>16, <2>1, OwnedRefuse, OwnedProceed DEF Recheck, Proceed, Labels
<1>17. CASE SaveGroup(w)
  BY <1>17, OwnedSaveGroup
<1>18. CASE SetCoLeaders(w)
  BY <1>18, OwnedFinish DEF SetCoLeaders, Exists
<1>19. CASE Archive(w)
  <2>1. CASE /\ SaveRow(g, [grp[g] EXCEPT !.archived = TRUE, !.active = FALSE, !.open = FALSE])
             /\ Finish(w) /\ UNCHANGED <<co, mem>>
    <3>1. g \in Groups /\ grp[g] \in GroupRow
      BY <1>0, <1>19 DEF Archive, Routed, TypeInv, TablesOK
    <3>2. grp'[g].leader = grp[g].leader
      BY <2>1, <3>1 DEF SaveRow, TypeInv, TablesOK, GroupRow
    <3>3. \A h \in Groups : Exists(h) => Exists(h)'
      BY <2>1, <3>1, <3>2 DEF SaveRow, Exists, TypeInv, TablesOK
    <3> QED BY <2>1, <3>3, OwnedFinish
  <2> QED BY <1>19, <2>1, OwnedRefuse DEF Archive
<1>20. CASE Abort(w)
  BY <1>20, OwnedRefuse DEF Abort
<1> QED BY <1>1, <1>2, <1>3, <1>4, <1>5, <1>6, <1>7, <1>8, <1>9, <1>10, <1>11, <1>12,
           <1>13, <1>14, <1>15, <1>16, <1>17, <1>18, <1>19, <1>20 DEF Step

-----------------------------------------------------------------------------
(* The count.  What bounds the active members is that each worker about to *)
(* add one already has its seat reserved in the sum below, and the worker  *)
(* that joins the sum last has just seen a free seat.                      *)

Bounded(g) ==
    Cardinality(Active(g)) + Cardinality(Seating(g)) <= MaxLimit + Cardinality(Workers) - 1

CountInv == TypeInv /\ Owned /\ \A g \in Groups : Bounded(g)

LEMMA SomeLimit == 2 <= MaxLimit
<1>1. PICK l \in Limits : l \in 2..MaxLimit
  BY LimitsAssumption
<1> QED BY <1>1, LimitsAssumption

LEMMA FiniteUsers ==
    ASSUME NEW S \in SUBSET Users
    PROVE  IsFiniteSet(S) /\ Cardinality(S) \in Nat
BY UsersAssumption, FS_Subset, FS_CardinalityType

LEMMA FiniteWorkers ==
    ASSUME NEW S \in SUBSET Workers
    PROVE  IsFiniteSet(S) /\ Cardinality(S) \in Nat /\ Cardinality(S) <= Cardinality(Workers)
BY WorkersAssumption, FS_Subset, FS_CardinalityType

\* Nobody is added, and no worker comes closer to adding anybody.
LEMMA BoundedLess ==
    ASSUME NEW g, Bounded(g), Active(g)' \subseteq Active(g), Seating(g)' \subseteq Seating(g)
    PROVE  Bounded(g)'
<1>1. Active(g) \in SUBSET Users /\ Seating(g) \in SUBSET Workers
  BY DEF Active, Seating
<1>2. /\ Cardinality(Active(g)') <= Cardinality(Active(g))
      /\ Cardinality(Seating(g)') <= Cardinality(Seating(g))
  BY <1>1, FiniteUsers, FiniteWorkers, FS_Subset
<1>3. /\ Cardinality(Active(g)) \in Nat /\ Cardinality(Seating(g)) \in Nat
      /\ Cardinality(Active(g)') \in Nat /\ Cardinality(Seating(g)') \in Nat
      /\ Cardinality(Workers) \in Nat
  <2>1. Active(g)' \in SUBSET Users /\ Seating(g)' \in SUBSET Workers
    BY <1>1
  <2> QED BY <1>1, <2>1, FiniteUsers, FiniteWorkers
<1> QED BY <1>2, <1>3, LimitsAssumption DEF Bounded

\* A worker that had its seat reserved takes it.
LEMMA BoundedSeat ==
    ASSUME NEW g, Bounded(g), NEW u, NEW w \in Seating(g),
           Active(g)' \subseteq Active(g) \cup {u}, Active(g)' \in SUBSET Users,
           Seating(g)' \subseteq Seating(g) \ {w}
    PROVE  Bounded(g)'
<1>1. Active(g) \in SUBSET Users /\ Seating(g) \in SUBSET Workers
  BY DEF Active, Seating
<1>2. IsFiniteSet(Active(g)) /\ IsFiniteSet(Seating(g))
  BY <1>1, FiniteUsers, FiniteWorkers
<1>3. /\ IsFiniteSet(Active(g) \cup {u})
      /\ Cardinality(Active(g) \cup {u}) <= Cardinality(Active(g)) + 1
  BY <1>1, <1>2, FiniteUsers, FS_AddElement
<1>4. /\ IsFiniteSet(Seating(g) \ {w})
      /\ Cardinality(Seating(g) \ {w}) = Cardinality(Seating(g)) - 1
  BY <1>2, FS_RemoveElement
<1>5. /\ Cardinality(Active(g)') <= Cardinality(Active(g) \cup {u})
      /\ Cardinality(Seating(g)') <= Cardinality(Seating(g) \ {w})
  BY <1>3, <1>4, FS_Subset
<1>6. /\ Cardinality(Active(g)) \in Nat /\ Cardinality(Seating(g)) \in Nat
      /\ Cardinality(Active(g)') \in Nat /\ Cardinality(Seating(g)') \in Nat
      /\ Cardinality(Active(g) \cup {u}) \in Nat
      /\ Cardinality(Workers) \in Nat
  <2>1. Seating(g)' \in SUBSET Workers
    BY <1>1
  <2> QED BY <1>1, <1>3, <2>1, FiniteUsers, FiniteWorkers, FS_CardinalityType
<1> QED BY <1>3, <1>4, <1>5, <1>6, LimitsAssumption DEF Bounded

\* A free seat was seen: every worker may be about to take one.
LEMMA BoundedFree ==
    ASSUME NEW g, Cardinality(Active(g)) < MaxLimit, Active(g)' \subseteq Active(g),
           Seating(g)' \in SUBSET Workers
    PROVE  Bounded(g)'
<1>1. Active(g) \in SUBSET Users
  BY DEF Active
<1>2. Cardinality(Active(g)') <= Cardinality(Active(g))
  BY <1>1, FiniteUsers, FS_Subset
<1>3. /\ Cardinality(Active(g)) \in Nat /\ Cardinality(Active(g)') \in Nat
      /\ Cardinality(Seating(g)') \in Nat /\ Cardinality(Workers) \in Nat
      /\ Cardinality(Seating(g)') <= Cardinality(Workers)
  <2>1. Active(g)' \in SUBSET Users
    BY <1>1
  <2> QED BY <1>1, <2>1, FiniteUsers, FiniteWorkers
<1> QED BY <1>2, <1>3, LimitsAssumption DEF Bounded

\* A worker that is elsewhere afterwards has given its reservation up.
LEMMA SeatingShrinks ==
    ASSUME TypeInv, NEW w \in Workers,
           \A v \in Workers \ {w} : pc'[v] = pc[v] /\ req'[v] = req[v],
           pc'[w] \notin {"saveActive", "seatLeader"}
    PROVE  \A g : Seating(g)' \subseteq Seating(g) \ {w}
BY DEF Seating

LEMMA FinishSeating ==
    ASSUME TypeInv, NEW w \in Workers, Finish(w)
    PROVE  \A g : Seating(g)' \subseteq Seating(g) \ {w}
BY SeatingShrinks DEF Finish, TypeInv, LocalsOK

LEMMA GotoSeating ==
    ASSUME TypeInv, NEW w \in Workers, NEW l, Goto(w, l), req' = req,
           l \notin {"saveActive", "seatLeader"}
    PROVE  \A g : Seating(g)' \subseteq Seating(g) \ {w}
BY SeatingShrinks DEF Goto, TypeInv, LocalsOK

LEMMA SameActive ==
    ASSUME UNCHANGED mem
    PROVE  \A g : Active(g)' = Active(g)
BY DEF Active

LEMMA WriteActive ==
    ASSUME TypeInv, NEW h \in Groups, NEW u \in Users, NEW m,
           mem' = [mem EXCEPT ![h][u] = m]
    PROVE  /\ \A g \in Groups : g # h => Active(g)' = Active(g)
           /\ Active(h)' \subseteq Active(h) \cup {u}
           /\ m.status # "active" => Active(h)' \subseteq Active(h)
BY DEF TypeInv, TablesOK, Active

\* A handler's last statement writes one membership, not making it active
\* unless the worker had reserved the seat.
LEMMA BoundedWrite ==
    ASSUME CountInv, NEW w \in Workers, Routed(w), Finish(w), NEW u \in Users, NEW m,
           mem' = [mem EXCEPT ![req[w].group][u] = m] \/ UNCHANGED mem,
           m.status = "active" => pc[w] \in {"saveActive", "seatLeader"}
    PROVE  \A g \in Groups : Bounded(g)'
<1> SUFFICES ASSUME NEW g \in Groups PROVE Bounded(g)'
  OBVIOUS
<1>1. TypeInv /\ Bounded(g) /\ req[w].group \in Groups
  BY DEF CountInv, TypeInv, LocalsOK, Targets, Routed
<1>2. Seating(g)' \subseteq Seating(g) \ {w}
  BY <1>1, FinishSeating
<1>3. CASE Active(g)' \subseteq Active(g)
  BY <1>1, <1>2, <1>3, BoundedLess
<1>4. CASE ~(Active(g)' \subseteq Active(g))
  <2>1. mem' = [mem EXCEPT ![req[w].group][u] = m]
    BY <1>4, SameActive
  <2>2. g = req[w].group /\ m.status = "active" /\ Active(g)' \subseteq Active(g) \cup {u}
    <3>1. PICK h \in Groups : h = req[w].group
      BY <1>1
    <3>2. /\ g # h => Active(g)' = Active(g)
          /\ Active(h)' \subseteq Active(h) \cup {u}
          /\ m.status # "active" => Active(h)' \subseteq Active(h)
      BY <1>1, <2>1, <3>1, WriteActive
    <3>3. g = h
      BY <1>4, <3>2
    <3> QED BY <1>4, <3>1, <3>2, <3>3
  <2>3. w \in Seating(g)
    BY <2>2 DEF Seating
  <2>4. Active(g)' \in SUBSET Users
    BY DEF Active
  <2> QED BY <1>1, <1>2, <2>2, <2>3, <2>4, BoundedSeat
<1> QED BY <1>3, <1>4

\* A step that leaves the memberships alone and does not reserve a seat.
LEMMA BoundedQuiet ==
    ASSUME CountInv, NEW w \in Workers, UNCHANGED mem,
           \/ Finish(w)
           \/ \E l : Goto(w, l) /\ req' = req /\ l \notin {"saveActive", "seatLeader"}
    PROVE  \A g \in Groups : Bounded(g)'
<1>1. \A g : Active(g)' = Active(g)
  BY SameActive
<1>2. \A g : Seating(g)' \subseteq Seating(g) \ {w}
  BY FinishSeating, GotoSeating DEF CountInv
<1> QED BY <1>1, <1>2, BoundedLess DEF CountInv

LEMMA BoundedBegin == ASSUME CountInv, NEW w \in Workers, Begin(w) PROVE \A g \in Groups : Bounded(g)'
<1>1. pc'[w] \in {"findActive", "getGroup"} /\ UNCHANGED mem
  BY DEF Begin, Goto, FirstLabel, CountInv, TypeInv, LocalsOK, tables
<1>2. \A v \in Workers \ {w} : pc'[v] = pc[v] /\ req'[v] = req[v]
  BY DEF Begin, Goto, BeginCreate, BeginOnGroup, BeginOnMembership, CountInv, TypeInv, LocalsOK
<1>3. \A g : Seating(g)' \subseteq Seating(g) \ {w}
  BY <1>1, <1>2, SeatingShrinks DEF CountInv
<1> QED BY <1>1, <1>3, SameActive, BoundedLess DEF CountInv

\* The group is new: it has no members.
LEMMA BoundedInsertGroup ==
    ASSUME CountInv, NEW w \in Workers, InsertGroup(w)
    PROVE  \A g \in Groups : Bounded(g)'
<1>1. PICK h \in Groups : ~Exists(h) /\ req' = [req EXCEPT ![w].group = h]
  BY DEF InsertGroup
<1>2. UNCHANGED mem
  BY DEF InsertGroup
<1> SUFFICES ASSUME NEW g \in Groups PROVE Bounded(g)'
  OBVIOUS
<1>3. Active(g)' = Active(g)
  BY <1>2, SameActive
<1>4. CASE g = h
  <2>1. Active(g) = {}
    BY <1>1, <1>4 DEF CountInv, Owned, NoOrphans, Active, NoMembership
  <2>2. Cardinality(Active(g)) < MaxLimit
    <3>1. 2 <= MaxLimit
      BY SomeLimit
    <3> QED BY <2>1, <3>1, FS_EmptySet, LimitsAssumption
  <2>3. Seating(g)' \in SUBSET Workers
    BY DEF Seating
  <2> QED BY <1>3, <2>2, <2>3, BoundedFree
<1>5. CASE g # h
  <2>1. /\ \A v \in Workers \ {w} : pc'[v] = pc[v] /\ req'[v] = req[v]
        /\ req'[w].group = h
    BY <1>1 DEF InsertGroup, Goto, CountInv, TypeInv, LocalsOK, Targets, Request
  <2>2. Seating(g)' \subseteq Seating(g)
    BY <1>5, <2>1 DEF Seating
  <2> QED BY <1>3, <2>2, BoundedLess DEF CountInv
<1> QED BY <1>4, <1>5

\* The count and the reservation: is_full saw a free seat.
LEMMA BoundedCount ==
    ASSUME CountInv, NEW w \in Workers, CountSeatsToApprove(w)
    PROVE  \A g \in Groups : Bounded(g)'
<1>1. CASE IsFull(req[w].group, row[w])
  BY <1>1, BoundedQuiet DEF CountSeatsToApprove, Refuse, tables
<1>2. CASE ~IsFull(req[w].group, row[w])
  <2>1. Goto(w, "saveActive") /\ req' = req /\ UNCHANGED mem
    BY <1>2 DEF CountSeatsToApprove, Proceed, tables
  <2> SUFFICES ASSUME NEW g \in Groups PROVE Bounded(g)'
    OBVIOUS
  <2>2. Active(g)' = Active(g)
    BY <2>1, SameActive
  <2>3. CASE g = req[w].group
    <3>1. Active(g) \in SUBSET Users
      BY DEF Active
    <3>2. row[w].limit \in 0..MaxLimit /\ Cardinality(Active(g)) \in Nat
      BY <3>1, FiniteUsers DEF CountInv, TypeInv, LocalsOK, GroupRow
    <3>3. Cardinality(Active(g)) < MaxLimit
      BY <1>2, <2>3, <3>2, LimitsAssumption DEF IsFull
    <3>4. Seating(g)' \in SUBSET Workers
      BY DEF Seating
    <3> QED BY <2>2, <3>3, <3>4, BoundedFree
  <2>4. CASE g # req[w].group
    <3>1. Seating(g)' \subseteq Seating(g)
      BY <2>1, <2>4 DEF Seating, Goto, CountInv, TypeInv, LocalsOK
    <3> QED BY <2>2, <3>1, BoundedLess DEF CountInv
  <2> QED BY <2>3, <2>4
<1> QED BY <1>1, <1>2

LEMMA BoundedStep ==
    ASSUME CountInv, NEW w \in Workers, Step(w)
    PROVE  \A g \in Groups : Bounded(g)'
<1> DEFINE g == req[w].group
<1> DEFINE u == req[w].user
<1> DEFINE t == req[w].target
<1>0. Routed(w) => g \in Groups /\ u \in Users /\ t \in Users
  BY DEF CountInv, TypeInv, LocalsOK, Targets, Routed, Request
<1>a. Refuse(w) => \A h \in Groups : Bounded(h)'
  BY BoundedQuiet DEF Refuse, tables
<1>b. ASSUME NEW l \in Labels \ {"saveActive", "seatLeader"}, Goto(w, l), UNCHANGED <<req, tables>>
      PROVE  \A h \in Groups : Bounded(h)'
  BY <1>b, BoundedQuiet DEF tables
<1>1. CASE Begin(w)
  BY <1>1, BoundedBegin
<1>2. CASE GetGroup(w)
  <2>1. AfterGet(req[w].op) \in Labels \ {"saveActive", "seatLeader"}
    BY DEF AfterGet, Labels
  <2> QED BY <1>2, <1>a, <1>b, <2>1 DEF GetGroup
<1>3. CASE FindActive(w)
  BY <1>3, <1>a, <1>b DEF FindActive, Proceed, Labels
<1>4. CASE InsertGroup(w)
  BY <1>4, BoundedInsertGroup
<1>5. CASE SeatLeader(w)
  <2>1. PICK m : mem' = [mem EXCEPT ![g][u] = m] \/ UNCHANGED mem
    BY <1>5 DEF SeatLeader, InsertMembership
  <2> QED BY <1>0, <1>5, <2>1, BoundedWrite DEF SeatLeader, Routed
<1>6. CASE ReadOwnToJoin(w)
  BY <1>6, <1>a, <1>b DEF ReadOwnToJoin, Proceed, Labels
<1>7. CASE CountSeatsToJoin(w)
  BY <1>7, <1>a, <1>b DEF CountSeatsToJoin, Proceed, Labels
<1>8. CASE InsertPending(w)
  <2>1. CASE UNCHANGED mem
    BY <1>8, <2>1, BoundedQuiet DEF InsertPending
  <2>2. CASE InsertMembership(g, u, "member", "pending")
    <3>1. PICK i \in Ids : mem' = [mem EXCEPT ![g][u] = [id |-> i, role |-> "member", status |-> "pending"]]
      BY <2>2 DEF InsertMembership
    <3>2. [id |-> i, role |-> "member", status |-> "pending"].status # "active"
      OBVIOUS
    <3> QED BY <1>0, <1>8, <3>1, <3>2, BoundedWrite DEF InsertPending, Routed
  <2> QED BY <1>8, <2>1, <2>2 DEF InsertPending
<1>9. CASE ReadOwnToLeave(w)
  BY <1>9, <1>a, <1>b DEF ReadOwnToLeave, Labels
<1>10. CASE SaveInactive(w)
  <2>1. memb[w] \in MembershipRow
    BY <1>10 DEF SaveInactive, CountInv, TypeInv, Targets
  <2> DEFINE r == [memb[w] EXCEPT !.status = "inactive"]
  <2>2. r.status # "active"
    BY <2>1 DEF MembershipRow
  <2>3. Finish(w) /\ (mem' = [mem EXCEPT ![g][u] = r] \/ UNCHANGED mem)
    BY <1>10 DEF SaveInactive, SaveMembership
  <2>4. u \in Users /\ Routed(w)
    BY <1>0, <1>10 DEF SaveInactive, Routed
  <2> HIDE DEF r
  <2> QED BY <2>2, <2>3, <2>4, BoundedWrite
<1>11. CASE CheckLeader(w)
  BY <1>11, <1>a, <1>b DEF CheckLeader, Proceed, Labels
<1>12. CASE ReadPending(w)
  BY <1>12, <1>a, <1>b DEF ReadPending, Labels
<1>13. CASE CountSeatsToApprove(w)
  BY <1>13, BoundedCount
<1>14. CASE SaveActive(w)
  <2> DEFINE r == [memb[w] EXCEPT !.status = "active"]
  <2>1. Finish(w) /\ (mem' = [mem EXCEPT ![g][t] = r] \/ UNCHANGED mem)
    BY <1>14 DEF SaveActive, SaveMembership
  <2>2. t \in Users /\ Routed(w) /\ pc[w] = "saveActive"
    BY <1>0, <1>14 DEF SaveActive, Routed
  <2> HIDE DEF r
  <2> QED BY <2>1, <2>2, BoundedWrite
<1>15. CASE DeleteRow(w)
  <2>1. mem' = [mem EXCEPT ![g][t] = NoMembership] \/ UNCHANGED mem
    BY <1>15 DEF DeleteRow
  <2>2. NoMembership.status # "active"
    BY DEF NoMembership
  <2> QED BY <1>0, <1>15, <2>1, <2>2, BoundedWrite DEF DeleteRow, Routed
<1>16. CASE Recheck(w)
  BY <1>16, <1>a, <1>b DEF Recheck, Proceed, Labels
<1>17. CASE SaveGroup(w)
  BY <1>17, BoundedQuiet DEF SaveGroup
<1>18. CASE SetCoLeaders(w)
  BY <1>18, BoundedQuiet DEF SetCoLeaders
<1>19. CASE Archive(w)
  BY <1>19, <1>a, BoundedQuiet DEF Archive
<1>20. CASE Abort(w)
  BY <1>20, <1>a DEF Abort
<1> QED BY <1>1, <1>2, <1>3, <1>4, <1>5, <1>6, <1>7, <1>8, <1>9, <1>10, <1>11, <1>12,
           <1>13, <1>14, <1>15, <1>16, <1>17, <1>18, <1>19, <1>20 DEF Step

LEMMA InitCount == Init => CountInv
<1> SUFFICES ASSUME Init PROVE CountInv
  OBVIOUS
<1>1. TypeInv
  BY InitType
<1>2. Owned
  BY DEF Init, Owned, NoOrphans, TargetExists, RowLoaded, Routed
<1>3. ASSUME NEW g \in Groups PROVE Bounded(g)
  <2>1. Active(g) = {} /\ Seating(g) = {}
    BY <1>3 DEF Init, Active, Seating, NoMembership
  <2>2. Cardinality(Workers) \in Nat /\ 2 <= MaxLimit
    BY SomeLimit, FiniteWorkers
  <2> QED BY <2>1, <2>2, FS_EmptySet, LimitsAssumption DEF Bounded
<1> QED BY <1>1, <1>2, <1>3 DEF CountInv

LEMMA CountInvariant == Spec => []CountInv
<1>1. CountInv /\ [Next]_vars => CountInv'
  <2>1. ASSUME CountInv, Next PROVE CountInv'
    <3>1. PICK w \in Workers : Step(w)
      BY <2>1 DEF Next
    <3> QED BY <2>1, <3>1, StepType, OwnedStep, BoundedStep DEF CountInv
  <2>2. ASSUME CountInv, UNCHANGED vars PROVE CountInv'
    BY <2>2, StutterType DEF vars, CountInv, Owned, NoOrphans, TargetExists, RowLoaded,
       Routed, Exists, Bounded, Active, Seating
  <2> QED BY <2>1, <2>2
<1> QED BY <1>1, InitCount, PTL DEF Spec

\* However the statements of the handlers interleave, a group's active members
\* and those about to be added are never more than the largest limit plus the
\* number of other workers (approve_request, perform_create).
THEOREM OvershootIsBounded == Spec => []OvershootBounded
<1>1. CountInv => OvershootBounded
  BY DEF CountInv, Bounded, OvershootBounded
<1> QED BY <1>1, CountInvariant, PTL

-----------------------------------------------------------------------------
(* The leader's seat.  An edit may hand a group to someone else; *)
(* without edits a membership with the role leader is the active one of the *)
(* group's leader, and no request under way is about to write over it.      *)

NoTransfer == "update" \notin Ops

Seats == \A g \in Groups, u \in Users :
            mem[g][u].role = "leader" => mem[g][u].status = "active" /\ grp[g].leader = u

\* The request read its pending membership and has not written it yet.
Deciding(w) == pc[w] \in {"saveActive", "deleteRow"} \/ (pc[w] = "countSeats" /\ req[w].op = "approve")

Loaded(w) == pc[w] \notin {"idle", "findActive", "insertGroup", "seatLeader", "getGroup"}

Harmless(w) ==
    LET g == req[w].group
        t == req[w].target
    IN /\ pc[w] # "idle" => req[w].op # "update"
       /\ pc[w] = "seatLeader" => grp[g].leader = req[w].user
       /\ Loaded(w) => row[w].leader = grp[g].leader
       /\ pc[w] = "saveInactive" => req[w].user # grp[g].leader /\ memb[w].role # "leader"
       /\ Deciding(w) => /\ memb[w].role # "leader"
                         /\ mem[g][t].id = memb[w].id => mem[g][t].role # "leader"

SeatInv == Seats /\ \A w \in Workers : Harmless(w)

LeadersKept == \A g \in Groups, u \in Users : mem[g][u].role = "leader" => mem'[g][u] = mem[g][u]

\* A write of row m where no leader's row is; a leader's row is written only
\* with a new key, and for the leader of the group.
SafeWrite(g, u, m) ==
    /\ mem' = [mem EXCEPT ![g][u] = m]
    /\ mem[g][u].role # "leader"
    /\ m.role = "leader" => /\ m.status = "active" /\ grp[g].leader = u
                            /\ \A v \in Workers : memb[v].id # m.id

SafeMem == UNCHANGED mem \/ \E g \in Groups, u \in Users : \E m : SafeWrite(g, u, m)

\* What a step of one worker must respect to keep the seats and the others'
\* requests harmless.
LEMMA SeatKept ==
    ASSUME TypeInv, Owned, SeatInv, NEW w \in Workers, SafeMem, Harmless(w)',
           \A g \in Groups : Exists(g) => grp'[g].leader = grp[g].leader,
           \A v \in Workers \ {w} : /\ pc'[v] = pc[v] /\ req'[v] = req[v]
                                    /\ row'[v] = row[v] /\ memb'[v] = memb[v]
    PROVE  SeatInv' /\ LeadersKept
<1>1. \A g \in Groups, u \in Users : mem[g][u].role = "leader" => Exists(g)
  BY UsersAssumption DEF SeatInv, Seats, Exists
<1> DEFINE Fine(g, u) ==
       \/ mem'[g][u] = mem[g][u]
       \/ /\ mem[g][u].role # "leader"
          /\ mem'[g][u].role = "leader" => /\ mem'[g][u].status = "active" /\ grp[g].leader = u
                                           /\ \A v \in Workers : memb[v].id # mem'[g][u].id
<1>2. ASSUME NEW g \in Groups, NEW u \in Users PROVE Fine(g, u)
  <2>1. CASE UNCHANGED mem
    BY <2>1
  <2>2. ASSUME NEW h \in Groups, NEW x \in Users, NEW m, SafeWrite(h, x, m)
        PROVE  Fine(g, u)
    <3>1. mem'[g][u] = IF g = h /\ u = x THEN m ELSE mem[g][u]
      BY <2>2 DEF SafeWrite, TypeInv, TablesOK
    <3> QED BY <2>2, <3>1 DEF SafeWrite
  <2> QED BY <2>1, <2>2 DEF SafeMem
<1>3. LeadersKept
  BY <1>2 DEF LeadersKept
<1>4. Seats'
  <2> SUFFICES ASSUME NEW g \in Groups, NEW u \in Users, mem'[g][u].role = "leader"
               PROVE  mem'[g][u].status = "active" /\ grp'[g].leader = u
    BY DEF Seats
  <2>1. mem'[g][u].status = "active" /\ grp[g].leader = u
    BY <1>2 DEF SeatInv, Seats
  <2> QED BY <2>1, UsersAssumption DEF Exists
<1>5. ASSUME NEW v \in Workers PROVE Harmless(v)'
  <2>1. CASE v = w
    BY <2>1
  <2>2. CASE v # w
    <3>1. pc'[v] = pc[v] /\ req'[v] = req[v] /\ row'[v] = row[v] /\ memb'[v] = memb[v] /\ Harmless(v)
      BY <2>2 DEF SeatInv
    <3>2. Routed(v) => /\ req[v].group \in Groups /\ req[v].target \in Users
                       /\ grp'[req[v].group].leader = grp[req[v].group].leader
      BY DEF TypeInv, LocalsOK, Targets, Routed, Request, Owned, TargetExists
    <3>3. (Loaded(v) \/ Deciding(v) \/ pc[v] = "seatLeader") => Routed(v)
      BY DEF Loaded, Deciding, Routed
    <3> QED BY <1>2, <3>1, <3>2, <3>3 DEF Harmless, Loaded, Deciding
  <2> QED BY <2>1, <2>2
<1> QED BY <1>3, <1>4, <1>5 DEF SeatInv

LEMMA SeatFinish ==
    ASSUME TypeInv, Owned, SeatInv, NEW w \in Workers, Finish(w), SafeMem,
           \A g \in Groups : Exists(g) => grp'[g].leader = grp[g].leader
    PROVE  SeatInv' /\ LeadersKept
<1>1. \A v \in Workers \ {w} : /\ pc'[v] = pc[v] /\ req'[v] = req[v]
                               /\ row'[v] = row[v] /\ memb'[v] = memb[v]
  BY DEF Finish, TypeInv, LocalsOK
<1>2. pc'[w] = "idle"
  BY DEF Finish, TypeInv, LocalsOK
<1>3. Harmless(w)'
  BY <1>2 DEF Harmless, Loaded, Deciding
<1> QED BY <1>1, <1>3, SeatKept

LEMMA SeatRefuse ==
    ASSUME TypeInv, Owned, SeatInv, NEW w \in Workers, Refuse(w)
    PROVE  SeatInv' /\ LeadersKept
BY SeatFinish DEF Refuse, tables, SafeMem

\* A step that writes no table and goes to statement l.
LEMMA SeatGoto ==
    ASSUME TypeInv, Owned, SeatInv, NEW w \in Workers, NEW l, Goto(w, l), UNCHANGED tables, Harmless(w)',
           \A v \in Workers \ {w} : req'[v] = req[v] /\ row'[v] = row[v] /\ memb'[v] = memb[v]
    PROVE  SeatInv' /\ LeadersKept
<1>1. \A v \in Workers \ {w} : pc'[v] = pc[v]
  BY DEF Goto, TypeInv, LocalsOK
<1> QED BY <1>1, SeatKept DEF SafeMem, tables

\* A check passed, and the next statement is not one that the invariant asks
\* more of than of this one.
LEMMA SeatProceed ==
    ASSUME TypeInv, Owned, SeatInv, NEW w \in Workers, NEW l, Proceed(w, l),
           \/ Loaded(w) /\ l \in {"countSeats", "insertPending", "readPending", "saveGroup"}
           \/ Deciding(w) /\ l = "saveActive"
           \/ pc[w] = "findActive" /\ l = "insertGroup",
           l = "countSeats" => req[w].op = "join"
    PROVE  SeatInv' /\ LeadersKept
<1>1. pc'[w] = l /\ UNCHANGED <<req, row, memb, grp, co, mem>>
  BY DEF Proceed, Goto, tables, TypeInv, LocalsOK
<1>2. Harmless(w) /\ pc[w] # "idle"
  BY DEF SeatInv, Loaded, Deciding
<1>3. Harmless(w)'
  BY <1>1, <1>2 DEF Harmless, Loaded, Deciding
<1> QED BY <1>1, <1>3, SeatGoto DEF Proceed, tables

LEMMA SeatBegin ==
    ASSUME NoTransfer, TypeInv, Owned, SeatInv, NEW w \in Workers, Begin(w)
    PROVE  SeatInv' /\ LeadersKept
<1>1. PICK op \in Ops :
         /\ \/ op = "create" /\ BeginCreate(w)
            \/ op \in {"join", "leave", "update", "photo", "destroy"} /\ BeginOnGroup(w, op)
            \/ op \in {"approve", "reject"} /\ BeginOnMembership(w, op)
         /\ Goto(w, FirstLabel(op))
  BY DEF Begin
<1>2. PICK r : req' = [req EXCEPT ![w] = r] /\ r.op = op
  <2>1. CASE op = "create" /\ BeginCreate(w)
    <3>1. PICK u \in CanLead :
             req' = [req EXCEPT ![w] = [op |-> "create", user |-> u, group |-> NoGroup, target |-> u]]
      BY <2>1 DEF BeginCreate
    <3>2. [op |-> "create", user |-> u, group |-> NoGroup, target |-> u].op = "create"
      OBVIOUS
    <3> QED BY <2>1, <3>1, <3>2
  <2>2. CASE op \in {"join", "leave", "update", "photo", "destroy"} /\ BeginOnGroup(w, op)
    <3>1. PICK g \in Groups, u \in Users :
             req' = [req EXCEPT ![w] = [op |-> op, user |-> u, group |-> g, target |-> u]]
      BY <2>2 DEF BeginOnGroup
    <3>2. [op |-> op, user |-> u, group |-> g, target |-> u].op = op
      OBVIOUS
    <3> QED BY <3>1, <3>2
  <2>3. CASE op \in {"approve", "reject"} /\ BeginOnMembership(w, op)
    <3>1. PICK g \in Groups, u \in Users, t \in Users :
             req' = [req EXCEPT ![w] = [op |-> op, user |-> u, group |-> g, target |-> t]]
      BY <2>3 DEF BeginOnMembership
    <3>2. [op |-> op, user |-> u, group |-> g, target |-> t].op = op
      OBVIOUS
    <3> QED BY <3>1, <3>2
  <2> QED BY <1>1, <2>1, <2>2, <2>3
<1>3. pc' = [pc EXCEPT ![w] = IF op = "create" THEN "findActive" ELSE "getGroup"]
  BY <1>1 DEF Goto, FirstLabel
<1>4. \A v \in Workers \ {w} : req'[v] = req[v] /\ row'[v] = row[v]
  BY <1>2 DEF Begin, TypeInv, LocalsOK
<1>5. \A v \in Workers \ {w} : memb'[v] = memb[v]
  BY <1>1 DEF BeginCreate, BeginOnGroup, BeginOnMembership, TypeInv, LocalsOK
<1>6. pc'[w] \in {"findActive", "getGroup"} /\ req'[w].op # "update"
  BY <1>2, <1>3 DEF NoTransfer, TypeInv, LocalsOK
<1>7. Harmless(w)'
  BY <1>6 DEF Harmless, Loaded, Deciding
<1>8. UNCHANGED tables
  BY DEF Begin
<1> QED BY <1>1, <1>4, <1>5, <1>7, <1>8, SeatGoto

LEMMA SeatInsertGroup ==
    ASSUME TypeInv, Owned, SeatInv, NEW w \in Workers, InsertGroup(w)
    PROVE  SeatInv' /\ LeadersKept
<1>1. PICK g \in Groups : /\ ~Exists(g)
                          /\ \E r : SaveRow(g, r) /\ r.leader = req[w].user
                          /\ req' = [req EXCEPT ![w].group = g]
  <2>1. PICK g \in Groups, limit \in Limits, open \in BOOLEAN :
           /\ ~Exists(g)
           /\ grp' = [grp EXCEPT ![g] = [creator |-> req[w].user, leader |-> req[w].user,
                                         active |-> TRUE, open |-> open,
                                         archived |-> FALSE, limit |-> limit]]
           /\ req' = [req EXCEPT ![w].group = g]
    BY DEF InsertGroup
  <2>2. [creator |-> req[w].user, leader |-> req[w].user, active |-> TRUE, open |-> open,
         archived |-> FALSE, limit |-> limit].leader = req[w].user
    OBVIOUS
  <2> QED BY <2>1, <2>2 DEF SaveRow
<1>2. grp'[g].leader = req[w].user /\ \A h \in Groups : Exists(h) => grp'[h].leader = grp[h].leader
  BY <1>1 DEF SaveRow, Exists, TypeInv, TablesOK
<1>3. \A v \in Workers \ {w} : pc'[v] = pc[v] /\ req'[v] = req[v] /\ row'[v] = row[v] /\ memb'[v] = memb[v]
  BY <1>1 DEF InsertGroup, Goto, TypeInv, LocalsOK
<1>4. pc[w] = "insertGroup" /\ pc'[w] = "seatLeader" /\ mem' = mem
  BY DEF InsertGroup, Goto, TypeInv, LocalsOK
<1>5. req[w] \in Request /\ req'[w].group = g /\ req'[w].op = req[w].op /\ req'[w].user = req[w].user
  BY <1>1, <1>4 DEF TypeInv, LocalsOK, Targets, Request
<1>6. req[w].op # "update"
  BY <1>4 DEF SeatInv, Harmless
<1>7. Harmless(w)'
  BY <1>2, <1>4, <1>5, <1>6 DEF Harmless, Loaded, Deciding
<1> QED BY <1>2, <1>3, <1>4, <1>7, SeatKept DEF SafeMem

\* A join, and the leader's own row: INSERTs where the user has no row.
LEMMA SeatInsert ==
    ASSUME TypeInv, Owned, SeatInv, NEW w \in Workers, Finish(w), UNCHANGED <<grp, co>>,
           NEW g \in Groups, NEW u \in Users, NEW role, NEW status,
           ~HasRow(g, u), InsertMembership(g, u, role, status),
           role = "leader" => status = "active" /\ grp[g].leader = u
    PROVE  SeatInv' /\ LeadersKept
<1>1. PICK i \in Ids : /\ \A v \in Workers : memb[v].id # i
                       /\ mem' = [mem EXCEPT ![g][u] = [id |-> i, role |-> role, status |-> status]]
  BY DEF InsertMembership
<1> DEFINE m == [id |-> i, role |-> role, status |-> status]
<1>2. mem[g][u].role # "leader"
  BY DEF HasRow, NoMembership
<1>3. m.id = i /\ m.role = role /\ m.status = status
  OBVIOUS
<1>4. SafeWrite(g, u, m)
  BY <1>1, <1>2, <1>3 DEF SafeWrite
<1> QED BY <1>4, SeatFinish DEF SafeMem

\* The handlers that save a membership they hold.
LEMMA SeatSave ==
    ASSUME TypeInv, Owned, SeatInv, NEW w \in Workers, Finish(w), UNCHANGED <<grp, co>>,
           NEW g \in Groups, NEW u \in Users, NEW r \in MembershipRow, SaveMembership(g, u, r),
           r.role # "leader", mem[g][u].id = r.id => mem[g][u].role # "leader"
    PROVE  SeatInv' /\ LeadersKept
<1>1. CASE mem[g][u].id \in {r.id, NoId}
  <2>1. mem[g][u].role # "leader"
    BY <1>1, IdsAssumption DEF TypeInv, TablesOK, MembershipRow, NoMembership
  <2>2. SafeWrite(g, u, r)
    BY <1>1, <2>1 DEF SafeWrite, SaveMembership
  <2> QED BY <2>2, SeatFinish DEF SafeMem
<1>2. CASE mem[g][u].id \notin {r.id, NoId}
  BY <1>2, SeatFinish DEF SaveMembership, SafeMem
<1> QED BY <1>1, <1>2

LEMMA SeatStep ==
    ASSUME NoTransfer, TypeInv, Owned, SeatInv, NEW w \in Workers, Step(w)
    PROVE  SeatInv' /\ LeadersKept
<1> DEFINE g == req[w].group
<1> DEFINE u == req[w].user
<1> DEFINE t == req[w].target
<1>0. Routed(w) => g \in Groups /\ u \in Users /\ t \in Users /\ Exists(g)
  BY DEF TypeInv, LocalsOK, Targets, Routed, Request, Owned, TargetExists
<1>1. Harmless(w) /\ Seats
  BY DEF SeatInv
<1>2. CASE Begin(w)
  BY <1>2, SeatBegin
<1>3. CASE GetGroup(w)
  <2>1. CASE row' = [row EXCEPT ![w] = grp[g]] /\ Goto(w, AfterGet(req[w].op)) /\ UNCHANGED <<req, memb, tables>>
    <3>1. pc[w] = "getGroup" /\ req[w].op # "update"
      BY <1>1, <1>3 DEF GetGroup, Harmless
    <3>2. pc'[w] = AfterGet(req[w].op) /\ row'[w] = grp[g] /\ UNCHANGED <<req, grp>>
      BY <2>1 DEF Goto, tables, TypeInv, LocalsOK
    <3>3. AfterGet(req[w].op) \in {"readOwn", "checkLeader", "archive"}
      BY <3>1 DEF AfterGet
    <3>4. Harmless(w)'
      BY <3>1, <3>2, <3>3 DEF Harmless, Loaded, Deciding
    <3>5. \A v \in Workers \ {w} : req'[v] = req[v] /\ row'[v] = row[v] /\ memb'[v] = memb[v]
      BY <2>1 DEF TypeInv, LocalsOK
    <3> QED BY <2>1, <3>4, <3>5, SeatGoto
  <2> QED BY <1>3, <2>1, SeatRefuse DEF GetGroup
<1>4. CASE FindActive(w)
  BY <1>4, SeatRefuse, SeatProceed DEF FindActive
<1>5. CASE InsertGroup(w)
  BY <1>5, SeatInsertGroup
<1>6. CASE SeatLeader(w)
  <2>1. g \in Groups /\ u \in Users /\ grp[g].leader = u /\ Finish(w) /\ UNCHANGED <<grp, co>>
    BY <1>0, <1>1, <1>6 DEF SeatLeader, Routed, Harmless
  <2>2. CASE ~HasRow(g, u) /\ InsertMembership(g, u, "leader", "active")
    BY <2>1, <2>2, SeatInsert
  <2> QED BY <1>6, <2>1, <2>2, SeatFinish DEF SeatLeader, SafeMem
<1>7. CASE ReadOwnToJoin(w)
  BY <1>7, SeatRefuse, SeatProceed DEF ReadOwnToJoin, Loaded
<1>8. CASE CountSeatsToJoin(w)
  BY <1>8, SeatRefuse, SeatProceed DEF CountSeatsToJoin, Loaded
<1>9. CASE InsertPending(w)
  <2>1. g \in Groups /\ u \in Users /\ Finish(w) /\ UNCHANGED <<grp, co>>
    BY <1>0, <1>9 DEF InsertPending, Routed
  <2>2. CASE ~HasRow(g, u) /\ InsertMembership(g, u, "member", "pending")
    BY <2>1, <2>2, SeatInsert
  <2> QED BY <1>9, <2>1, <2>2, SeatFinish DEF InsertPending, SafeMem
<1>10. CASE ReadOwnToLeave(w)
  <2>1. CASE /\ MayLeave(w)
             /\ memb' = [memb EXCEPT ![w] = mem[g][u]]
             /\ Goto(w, "saveInactive")
             /\ UNCHANGED <<req, row, tables>>
    <3>1. g \in Groups /\ u \in Users /\ row[w].leader = grp[g].leader /\ req[w].op = "leave"
      BY <1>0, <1>1, <1>10 DEF ReadOwnToLeave, Routed, Harmless, Loaded
    <3>2. u # grp[g].leader /\ mem[g][u].role # "leader"
      BY <1>1, <2>1, <3>1 DEF MayLeave, Seats
    <3>3. pc'[w] = "saveInactive" /\ memb'[w] = mem[g][u] /\ UNCHANGED <<req, row, grp, mem>>
      BY <2>1 DEF Goto, tables, TypeInv, LocalsOK
    <3>4. Harmless(w)'
      BY <3>1, <3>2, <3>3 DEF Harmless, Loaded, Deciding
    <3>5. \A v \in Workers \ {w} : memb'[v] = memb[v]
      BY <2>1 DEF TypeInv, LocalsOK
    <3> QED BY <2>1, <3>4, <3>5, SeatGoto
  <2> QED BY <1>10, <2>1, SeatRefuse DEF ReadOwnToLeave
<1>11. CASE SaveInactive(w)
  <2> DEFINE r == [memb[w] EXCEPT !.status = "inactive"]
  <2>1. /\ g \in Groups /\ u \in Users /\ memb[w] \in MembershipRow
        /\ u # grp[g].leader /\ memb[w].role # "leader"
    BY <1>0, <1>1, <1>11 DEF SaveInactive, Routed, Harmless, TypeInv, Targets
  <2>2. r \in MembershipRow /\ r.role = memb[w].role
    BY <2>1 DEF MembershipRow, Statuses
  <2>3. mem[g][u].role # "leader"
    BY <1>1, <2>1 DEF Seats
  <2> HIDE DEF r
  <2>4. SaveMembership(g, u, r) /\ Finish(w) /\ UNCHANGED <<grp, co>>
    BY <1>11 DEF SaveInactive, r
  <2> QED BY <2>1, <2>2, <2>3, <2>4, SeatSave
<1>12. CASE CheckLeader(w)
  BY <1>12, SeatRefuse, SeatProceed DEF CheckLeader, Loaded
<1>13. CASE ReadPending(w)
  <2>1. CASE /\ PendingFound(w)
             /\ memb' = [memb EXCEPT ![w] = mem[g][t]]
             /\ Goto(w, IF req[w].op = "approve" THEN "countSeats" ELSE "deleteRow")
             /\ UNCHANGED <<req, row, tables>>
    <3>1. /\ g \in Groups /\ t \in Users
          /\ row[w].leader = grp[g].leader /\ req[w].op # "update"
      BY <1>0, <1>1, <1>13 DEF ReadPending, Routed, Harmless, Loaded
    <3>2. mem[g][t].role # "leader"
      BY <1>1, <2>1, <3>1 DEF PendingFound, Seats
    <3>3. /\ pc'[w] \in {"countSeats", "deleteRow"}
          /\ memb'[w] = mem[g][t] /\ UNCHANGED <<req, row, grp, mem>>
      BY <2>1 DEF Goto, tables, TypeInv, LocalsOK
    <3>4. Harmless(w)'
      BY <3>1, <3>2, <3>3 DEF Harmless, Loaded, Deciding
    <3>5. \A v \in Workers \ {w} : memb'[v] = memb[v]
      BY <2>1 DEF TypeInv, LocalsOK
    <3> QED BY <2>1, <3>4, <3>5, SeatGoto
  <2> QED BY <1>13, <2>1, SeatRefuse DEF ReadPending
<1>14. CASE CountSeatsToApprove(w)
  BY <1>14, SeatRefuse, SeatProceed DEF CountSeatsToApprove, Deciding
<1>15. CASE SaveActive(w)
  <2> DEFINE r == [memb[w] EXCEPT !.status = "active"]
  <2>1. /\ g \in Groups /\ t \in Users /\ memb[w] \in MembershipRow
        /\ memb[w].role # "leader" /\ (mem[g][t].id = memb[w].id => mem[g][t].role # "leader")
    BY <1>0, <1>1, <1>15 DEF SaveActive, Routed, Harmless, Deciding, TypeInv, Targets
  <2>2. r \in MembershipRow /\ r.role = memb[w].role /\ r.id = memb[w].id
    BY <2>1 DEF MembershipRow, Statuses
  <2> HIDE DEF r
  <2>3. SaveMembership(g, t, r) /\ Finish(w) /\ UNCHANGED <<grp, co>>
    BY <1>15 DEF SaveActive, r
  <2> QED BY <2>1, <2>2, <2>3, SeatSave
<1>16. CASE DeleteRow(w)
  <2>1. g \in Groups /\ t \in Users /\ (mem[g][t].id = memb[w].id => mem[g][t].role # "leader")
    BY <1>0, <1>1, <1>16 DEF DeleteRow, Routed, Harmless, Deciding
  <2>2. CASE mem[g][t].id = memb[w].id
    <3>1. SafeWrite(g, t, NoMembership)
      BY <1>16, <2>1, <2>2 DEF DeleteRow, SafeWrite, NoMembership
    <3> QED BY <1>16, <2>1, <3>1, SeatFinish DEF DeleteRow, SafeMem
  <2> QED BY <1>16, <2>2, SeatFinish DEF DeleteRow, SafeMem
<1>17. CASE Recheck(w)
  BY <1>17, SeatRefuse, SeatProceed DEF Recheck, Loaded
<1>18. CASE SaveGroup(w)
  <2>1. /\ g \in Groups /\ row[w].leader = grp[g].leader
        /\ SaveRow(g, row[w]) /\ Finish(w) /\ UNCHANGED mem
    BY <1>0, <1>1, <1>18 DEF SaveGroup, Routed, Harmless, Loaded
  <2>2. \A h \in Groups : grp'[h].leader = grp[h].leader
    BY <2>1 DEF SaveRow, TypeInv, TablesOK
  <2> QED BY <2>1, <2>2, SeatFinish DEF SafeMem
<1>19. CASE SetCoLeaders(w)
  BY <1>19, SeatFinish DEF SetCoLeaders, SafeMem
<1>20. CASE Archive(w)
  <2>1. CASE /\ SaveRow(g, [grp[g] EXCEPT !.archived = TRUE, !.active = FALSE, !.open = FALSE])
             /\ Finish(w) /\ UNCHANGED <<co, mem>>
    <3>1. g \in Groups /\ grp[g] \in GroupRow
      BY <1>0, <1>20 DEF Archive, Routed, TypeInv, TablesOK
    <3>2. \A h \in Groups : grp'[h].leader = grp[h].leader
      BY <2>1, <3>1 DEF SaveRow, TypeInv, TablesOK, GroupRow
    <3> QED BY <2>1, <3>2, SeatFinish DEF SafeMem
  <2> QED BY <1>20, <2>1, SeatRefuse DEF Archive
<1>21. CASE Abort(w)
  BY <1>21, SeatRefuse DEF Abort
<1> QED BY <1>2, <1>3, <1>4, <1>5, <1>6, <1>7, <1>8, <1>9, <1>10, <1>11, <1>12, <1>13,
           <1>14, <1>15, <1>16, <1>17, <1>18, <1>19, <1>20, <1>21 DEF Step

SeatAll == TypeInv /\ Owned /\ SeatInv

LEMMA SeatInvariant == NoTransfer => (Spec => []SeatAll)
<1> SUFFICES ASSUME NoTransfer PROVE Spec => []SeatAll
  OBVIOUS
<1>1. Init => SeatAll
  <2> SUFFICES ASSUME Init PROVE SeatAll
    OBVIOUS
  <2>1. TypeInv
    BY InitType
  <2>2. Owned
    BY DEF Init, Owned, NoOrphans, TargetExists, RowLoaded, Routed, Exists, NoRow
  <2>3. SeatInv
    BY DEF Init, SeatInv, Seats, Harmless, Loaded, Deciding, NoMembership
  <2> QED BY <2>1, <2>2, <2>3 DEF SeatAll
<1>2. SeatAll /\ [Next]_vars => SeatAll'
  <2>1. ASSUME SeatAll, Next PROVE SeatAll'
    <3>1. PICK w \in Workers : Step(w)
      BY <2>1 DEF Next
    <3> QED BY <2>1, <3>1, StepType, OwnedStep, SeatStep DEF SeatAll
  <2>2. ASSUME SeatAll, UNCHANGED vars PROVE SeatAll'
    BY <2>2, StutterType DEF vars, SeatAll, Owned, NoOrphans, TargetExists, RowLoaded,
       Routed, Exists, SeatInv, Seats, Harmless, Loaded, Deciding
  <2> QED BY <2>1, <2>2
<1> QED BY <1>1, <1>2, PTL DEF Spec

\* Without edits no join, leave, approval or rejection changes or removes the
\* membership row of a group's leader.
THEOREM SeatIsKept == NoTransfer => (Spec => LeaderSeatKept)
<1> SUFFICES ASSUME NoTransfer PROVE Spec => LeaderSeatKept
  OBVIOUS
<1>1. SeatAll /\ [Next]_vars => [LeadersKept]_vars
  <2> SUFFICES ASSUME SeatAll, Next PROVE LeadersKept
    OBVIOUS
  <2>1. PICK w \in Workers : Step(w)
    BY DEF Next
  <2> QED BY <2>1, SeatStep DEF SeatAll
<1>2. [LeadersKept]_vars <=> [\A g \in Groups, u \in Users :
          mem[g][u].role = "leader" => mem'[g][u] = mem[g][u]]_vars
  BY DEF LeadersKept
<1> QED BY <1>1, <1>2, SeatInvariant, PTL DEF Spec, LeaderSeatKept

-----------------------------------------------------------------------------
(* A single worker                                                         *)

OneWorker == \E w : Workers = {w}

\* A group that is there has room for two; what is not there is blank.
Founded == \A g \in Groups : IF Exists(g) THEN grp[g].limit >= 2 ELSE ~grp[g].archived

\* Only the creator is ever seated with the role leader.
CreatorsSeat == \A g \in Groups, u \in Users : mem[g][u].role = "leader" => grp[g].creator = u

\* The statements at which the request still relies on what it loaded.
Relying == {"readOwn", "countSeats", "insertPending", "saveInactive", "checkLeader",
            "readPending", "saveActive", "deleteRow", "recheck", "saveGroup", "archive"}

\* What the request of worker w checked so far still holds.
Checked(w) ==
    LET g == req[w].group
        u == req[w].user
        t == req[w].target
    IN /\ pc[w] \in {"findActive", "insertGroup"} => u \in CanLead
       /\ pc[w] = "insertGroup" => ActiveGroupsOf(u) = {}
       /\ pc[w] = "seatLeader" => grp[g].creator = u /\ \A x \in Users : mem[g][x] = NoMembership
       /\ pc[w] \in Relying => row[w] = grp[g]
       /\ pc[w] = "insertPending" => CanAcceptMembers(g, grp[g])
       /\ pc[w] = "saveInactive" => grp[g].leader # u /\ memb[w] = mem[g][u]
       /\ pc[w] = "readPending" \/ Deciding(w) => IsGroupLeader(g, grp[g], u)
       /\ Deciding(w) => memb[w] = mem[g][t] /\ memb[w].status = "pending"
       /\ pc[w] = "saveActive" => ~IsFull(g, grp[g])
       /\ pc[w] = "recheck" => req[w].op = "update"
       /\ pc[w] = "saveGroup" /\ req[w].op = "update" => u \in {grp[g].leader} \cup co[g]

SerialInv == TypeInv /\ Owned /\ Founded /\ CreatorsSeat /\ \A w \in Workers : Checked(w)

-----------------------------------------------------------------------------
(* The mapping.                                                            *)

SeatOf == [g \in Groups |-> [u \in Users |-> mem[g][u].status]]

DueNow == IF HalfDone = {} THEN [what |-> "nothing", group |-> NoGroup]
          ELSE DueOf(CHOOSE w \in HalfDone : TRUE)

NothingIsDue == [what |-> "nothing", group |-> NoGroup]

LEMMA DueIs ==
    ASSUME NEW w, Workers = {w}
    PROVE  /\ DueNow = IF pc[w] \in {"seatLeader", "setCoLeaders"} THEN DueOf(w) ELSE NothingIsDue
           /\ DueNow' = IF pc'[w] \in {"seatLeader", "setCoLeaders"} THEN DueOf(w)' ELSE NothingIsDue
<1> DEFINE Half == pc[w] \in {"seatLeader", "setCoLeaders"}
<1>1. (CHOOSE v \in {w} : TRUE) = w
  OBVIOUS
<1>2. HalfDone = (IF Half THEN {w} ELSE {})
  BY DEF HalfDone
<1>3. HalfDone' = (IF Half' THEN {w} ELSE {})
  BY DEF HalfDone
<1>4. DueNow = IF Half THEN DueOf(w) ELSE NothingIsDue
  BY <1>1, <1>2 DEF DueNow, NothingIsDue
<1>5. DueNow' = IF Half' THEN DueOf(w)' ELSE NothingIsDue
  BY <1>1, <1>3 DEF DueNow, DueOf, NothingIsDue
<1> QED BY <1>4, <1>5

LEMMA SeatOfWrite ==
    ASSUME TypeInv, NEW g \in Groups, NEW u \in Users, NEW m, mem' = [mem EXCEPT ![g][u] = m]
    PROVE  SeatOf' = [SeatOf EXCEPT ![g][u] = m.status]
<1>1. \A h \in Groups, x \in Users : mem'[h][x] = IF h = g /\ x = u THEN m ELSE mem[h][x]
  BY DEF TypeInv, TablesOK
<1>2. SeatOf' = [h \in Groups |-> [x \in Users |-> IF h = g /\ x = u THEN m.status ELSE mem[h][x].status]]
  BY <1>1 DEF SeatOf
<1> QED BY <1>2 DEF SeatOf

\* The Cardinality that GroupAbstract takes from FiniteSets.
LEMMA SameCardinality == \A S : Atomic!Cardinality(S) = Cardinality(S)
BY Zenon DEF Atomic!Cardinality, Cardinality

LEMMA SameFull ==
    ASSUME NEW g \in Groups
    PROVE  Atomic!Full(g) <=> IsFull(g, grp[g])
<1>1. Atomic!Seats(g) = Active(g)
  BY DEF Atomic!Seats, Active
<1> QED BY <1>1, SameCardinality DEF Atomic!Full, IsFull

-----------------------------------------------------------------------------
(* What was checked stays true until the request ends.                     *)

LEMMA SerialParts ==
    ASSUME NEW w, Workers = {w}, SerialInv, Step(w), Founded', CreatorsSeat', Checked(w)'
    PROVE  SerialInv'
<1>1. TypeInv' /\ Owned'
  BY StepType, OwnedStep DEF SerialInv
<1> QED BY <1>1 DEF SerialInv

LEMMA SerialQuiet ==
    ASSUME NEW w, Workers = {w}, SerialInv, Step(w), UNCHANGED tables, Checked(w)'
    PROVE  SerialInv'
BY SerialParts DEF SerialInv, tables, Founded, CreatorsSeat, Exists

LEMMA FinishChecked ==
    ASSUME NEW w, Workers = {w}, SerialInv, Finish(w)
    PROVE  Checked(w)' /\ pc'[w] = "idle"
<1>1. pc'[w] = "idle"
  BY DEF Finish, SerialInv, TypeInv, LocalsOK
<1> QED BY <1>1 DEF Checked, Relying, Deciding

LEMMA SerialRefuse ==
    ASSUME NEW w, Workers = {w}, SerialInv, Step(w), Refuse(w)
    PROVE  SerialInv'
BY SerialQuiet, FinishChecked DEF Refuse

\* A request that ends by writing one membership, or none.
LEMMA SerialWrite ==
    ASSUME NEW w, Workers = {w}, SerialInv, Step(w), Finish(w), UNCHANGED <<grp, co>>,
           NEW g \in Groups, NEW u \in Users, NEW m,
           mem' = [mem EXCEPT ![g][u] = m] \/ UNCHANGED mem,
           m.role = "leader" => grp[g].creator = u
    PROVE  SerialInv'
<1>1. Founded'
  BY DEF SerialInv, Founded, Exists
<1>2. CreatorsSeat'
  <2> SUFFICES ASSUME NEW h \in Groups, NEW x \in Users, mem'[h][x].role = "leader"
               PROVE  grp'[h].creator = x
    BY DEF CreatorsSeat
  <2>1. mem'[h][x] = mem[h][x] \/ (h = g /\ x = u /\ mem'[h][x] = m)
    BY DEF SerialInv, TypeInv, TablesOK
  <2> QED BY <2>1 DEF SerialInv, CreatorsSeat
<1> QED BY <1>1, <1>2, SerialParts, FinishChecked

\* A request that ends by writing its group: who created it and whether it
\* is there stay, and it keeps room for two.
LEMMA SerialSave ==
    ASSUME NEW w, Workers = {w}, SerialInv, Step(w), Checked(w)', UNCHANGED mem,
           NEW g \in Groups, NEW r, Exists(g), SaveRow(g, r),
           r.creator = grp[g].creator, r.leader # NoUser, r.limit >= 2
    PROVE  SerialInv'
<1>1. \A h \in Groups : grp'[h] = IF h = g THEN r ELSE grp[h]
  BY DEF SaveRow, SerialInv, TypeInv, TablesOK
<1>2. Founded'
  BY <1>1 DEF SerialInv, Founded, Exists
<1>3. CreatorsSeat'
  BY <1>1 DEF SerialInv, CreatorsSeat
<1> QED BY <1>2, <1>3, SerialParts

LEMMA SerialBegin ==
    ASSUME NEW w, Workers = {w}, SerialInv, Begin(w)
    PROVE  SerialInv'
<1>1. PICK op \in Ops :
         /\ \/ op = "create" /\ BeginCreate(w)
            \/ op \in {"join", "leave", "update", "photo", "destroy"} /\ BeginOnGroup(w, op)
            \/ op \in {"approve", "reject"} /\ BeginOnMembership(w, op)
         /\ Goto(w, FirstLabel(op))
  BY DEF Begin
<1>2. pc'[w] = IF op = "create" THEN "findActive" ELSE "getGroup"
  BY <1>1 DEF Goto, FirstLabel, SerialInv, TypeInv, LocalsOK
<1>3. Step(w) /\ UNCHANGED tables
  BY DEF Step, Begin
<1>4. Checked(w)'
  <2>1. CASE op = "create"
    <3>1. PICK u \in CanLead :
             req' = [req EXCEPT ![w] = [op |-> "create", user |-> u, group |-> NoGroup, target |-> u]]
      BY <1>1, <2>1 DEF BeginCreate
    <3>2. req'[w].user \in CanLead
      BY <3>1 DEF SerialInv, TypeInv, LocalsOK
    <3> QED BY <1>2, <2>1, <3>2 DEF Checked, Relying, Deciding
  <2>2. CASE op # "create"
    BY <1>2, <2>2 DEF Checked, Relying, Deciding
  <2> QED BY <2>1, <2>2
<1> QED BY <1>3, <1>4, SerialQuiet

LEMMA SerialInsertGroup ==
    ASSUME NEW w, Workers = {w}, SerialInv, InsertGroup(w)
    PROVE  SerialInv'
<1>1. PICK g \in Groups : /\ ~Exists(g)
                          /\ \E r : /\ SaveRow(g, r) /\ r.leader = req[w].user
                                    /\ r.creator = req[w].user /\ r.limit \in Limits
                          /\ req' = [req EXCEPT ![w].group = g]
  <2>1. PICK g \in Groups, limit \in Limits, open \in BOOLEAN :
           /\ ~Exists(g)
           /\ grp' = [grp EXCEPT ![g] = [creator |-> req[w].user, leader |-> req[w].user,
                                         active |-> TRUE, open |-> open,
                                         archived |-> FALSE, limit |-> limit]]
           /\ req' = [req EXCEPT ![w].group = g]
    BY DEF InsertGroup
  <2> DEFINE r == [creator |-> req[w].user, leader |-> req[w].user, active |-> TRUE, open |-> open,
                   archived |-> FALSE, limit |-> limit]
  <2>2. r.leader = req[w].user /\ r.creator = req[w].user /\ r.limit \in Limits
    OBVIOUS
  <2>3. SaveRow(g, r)
    BY <2>1 DEF SaveRow
  <2> HIDE DEF r
  <2> QED BY <2>1, <2>2, <2>3
<1>2. PICK r : /\ SaveRow(g, r) /\ r.leader = req[w].user
               /\ r.creator = req[w].user /\ r.limit \in Limits
  BY <1>1
<1>3. \A h \in Groups : grp'[h] = IF h = g THEN r ELSE grp[h]
  BY <1>2 DEF SaveRow, SerialInv, TypeInv, TablesOK
<1>4. /\ pc[w] = "insertGroup" /\ pc'[w] = "seatLeader" /\ mem' = mem
      /\ req[w] \in Request /\ req[w].user \in Users
  BY DEF InsertGroup, Goto, SerialInv, TypeInv, LocalsOK, Targets
<1>5. req'[w].group = g /\ req'[w].user = req[w].user
  BY <1>1, <1>4 DEF SerialInv, TypeInv, LocalsOK, Request
<1>6. Founded'
  <2>1. r.limit >= 2
    BY <1>2, LimitsAssumption
  <2> QED BY <1>2, <1>3, <1>4, <2>1, UsersAssumption DEF SerialInv, Founded, Exists
<1>7. \A x \in Users : mem[g][x] = NoMembership
  BY <1>1 DEF SerialInv, Owned, NoOrphans
<1>8. CreatorsSeat'
  BY <1>3, <1>4, <1>7 DEF SerialInv, CreatorsSeat, NoMembership
<1>9. Checked(w)'
  BY <1>2, <1>3, <1>4, <1>5, <1>7 DEF Checked, Relying, Deciding
<1> QED BY <1>6, <1>8, <1>9, SerialParts DEF Step

LEMMA SerialEdit ==
    ASSUME NEW w, Workers = {w}, SerialInv, SaveGroup(w)
    PROVE  SerialInv'
<1> DEFINE g == req[w].group
<1>1. g \in Groups /\ Exists(g) /\ row[w] = grp[g] /\ row[w] \in GroupRow /\ row[w].limit >= 2
  BY DEF SaveGroup, SerialInv, TypeInv, LocalsOK, Targets, Labels, Owned, TargetExists, Routed,
     Checked, Relying, Founded
<1>2. row[w].leader # NoUser
  BY <1>1 DEF Exists
<1>3. PICK r : SaveRow(g, r) /\ r.creator = grp[g].creator /\ r.leader # NoUser /\ r.limit >= 2
  <2>1. CASE SaveEdited(g, row[w])
    <3>1. PICK l \in CanLead \cup {row[w].leader}, n \in Limits \cup {row[w].limit}, o \in BOOLEAN, a \in BOOLEAN :
             SaveRow(g, [row[w] EXCEPT !.leader = l, !.limit = n, !.open = o, !.active = a])
      BY <2>1 DEF SaveEdited
    <3> DEFINE r == [row[w] EXCEPT !.leader = l, !.limit = n, !.open = o, !.active = a]
    <3>2. r.creator = grp[g].creator /\ r.leader = l /\ r.limit = n
      BY <1>1 DEF GroupRow
    <3>3. l # NoUser /\ n >= 2
      BY <1>1, <1>2, UsersAssumption, LimitsAssumption
    <3>4. SaveRow(g, r)
      BY <3>1
    <3> HIDE DEF r
    <3> QED BY <3>2, <3>3, <3>4
  <2>2. CASE SaveRow(g, row[w])
    BY <1>1, <1>2, <2>2
  <2> QED BY <2>1, <2>2 DEF SaveGroup
<1>4. Checked(w)'
  <2>1. CASE Finish(w)
    BY <2>1, FinishChecked
  <2>2. CASE Goto(w, "setCoLeaders")
    <3>1. pc'[w] = "setCoLeaders"
      BY <2>2 DEF Goto, SerialInv, TypeInv, LocalsOK
    <3> QED BY <3>1 DEF Checked, Relying, Deciding
  <2> QED BY <2>1, <2>2 DEF SaveGroup
<1>5. UNCHANGED mem /\ Step(w)
  BY DEF SaveGroup, Step
<1> HIDE DEF g
<1> QED BY <1>1, <1>3, <1>4, <1>5, SerialSave

\* A step of the handler that writes no table and goes to statement l.
LEMMA SerialGoto ==
    ASSUME NEW w, Workers = {w}, SerialInv, NEW l, Goto(w, l), UNCHANGED <<req, tables>>
    PROVE  /\ pc'[w] = l /\ UNCHANGED <<grp, co, mem, req>>
           /\ \A g : IsGroupLeader(g, grp[g], req[w].user)' <=> IsGroupLeader(g, grp[g], req[w].user)
           /\ \A g : IsFull(g, grp[g])' <=> IsFull(g, grp[g])
           /\ \A u : ActiveGroupsOf(u)' = ActiveGroupsOf(u)
BY DEF Goto, tables, SerialInv, TypeInv, LocalsOK, IsGroupLeader, IsFull, Active, ActiveGroupsOf

LEMMA SerialStep ==
    ASSUME NEW w, Workers = {w}, SerialInv, Step(w)
    PROVE  SerialInv'
<1> DEFINE g == req[w].group
<1> DEFINE u == req[w].user
<1> DEFINE t == req[w].target
<1>0. Routed(w) => g \in Groups /\ u \in Users /\ t \in Users /\ Exists(g)
  BY DEF SerialInv, TypeInv, LocalsOK, Targets, Routed, Request, Owned, TargetExists
<1>1. Checked(w) /\ CreatorsSeat
  BY DEF SerialInv
<1>a. Refuse(w) => SerialInv'
  BY SerialRefuse
<1>2. CASE Begin(w)
  BY <1>2, SerialBegin
<1>3. CASE GetGroup(w)
  <2>1. CASE row' = [row EXCEPT ![w] = grp[g]] /\ Goto(w, AfterGet(req[w].op)) /\ UNCHANGED <<req, memb, tables>>
    <3>1. pc'[w] = AfterGet(req[w].op) /\ row'[w] = grp[g] /\ UNCHANGED <<req, grp>>
      BY <2>1, SerialGoto DEF SerialInv, TypeInv, LocalsOK
    <3>2. /\ AfterGet(req[w].op) \in {"readOwn", "checkLeader", "archive", "recheck"}
          /\ AfterGet(req[w].op) = "recheck" => req[w].op = "update"
      BY DEF AfterGet
    <3>3. Checked(w)'
      BY <3>1, <3>2 DEF Checked, Relying, Deciding
    <3> QED BY <2>1, <3>3, SerialQuiet
  <2> QED BY <1>3, <1>a, <2>1 DEF GetGroup
<1>4. CASE FindActive(w)
  <2>1. CASE ActiveGroupsOf(u) = {} /\ Proceed(w, "insertGroup")
    <3>1. pc[w] = "findActive" /\ pc'[w] = "insertGroup" /\ ActiveGroupsOf(u)' = {}
      BY <1>4, <2>1 DEF FindActive, Proceed, Goto, tables, ActiveGroupsOf, SerialInv, TypeInv, LocalsOK
    <3>2. Checked(w)'
      BY <1>1, <2>1, <3>1 DEF Checked, Relying, Deciding, Proceed
    <3> QED BY <2>1, <3>2, SerialQuiet DEF Proceed
  <2> QED BY <1>4, <1>a, <2>1 DEF FindActive
<1>5. CASE InsertGroup(w)
  BY <1>5, SerialInsertGroup
<1>6. CASE SeatLeader(w)
  <2>1. g \in Groups /\ u \in Users /\ Finish(w) /\ UNCHANGED <<grp, co>> /\ grp[g].creator = u
    BY <1>0, <1>1, <1>6 DEF SeatLeader, Routed, Checked
  <2>2. PICK m : mem' = [mem EXCEPT ![g][u] = m] \/ UNCHANGED mem
    BY <1>6 DEF SeatLeader, InsertMembership
  <2> HIDE DEF g, u
  <2> QED BY <2>1, <2>2, SerialWrite
<1>7. CASE ReadOwnToJoin(w)
  <2>1. CASE Proceed(w, "countSeats")
    <3>1. pc[w] = "readOwn" /\ pc'[w] = "countSeats" /\ UNCHANGED <<req, row, grp>> /\ req[w].op = "join"
      BY <1>7, <2>1, SerialGoto DEF ReadOwnToJoin, Proceed
    <3>2. Checked(w)'
      BY <1>1, <3>1 DEF Checked, Relying, Deciding
    <3> QED BY <2>1, <3>2, SerialQuiet DEF Proceed
  <2> QED BY <1>7, <1>a, <2>1 DEF ReadOwnToJoin
<1>8. CASE CountSeatsToJoin(w)
  <2>1. CASE CanAcceptMembers(g, row[w]) /\ Proceed(w, "insertPending")
    <3>1. pc[w] = "countSeats" /\ pc'[w] = "insertPending" /\ UNCHANGED <<req, row, grp, mem>>
      BY <1>8, <2>1, SerialGoto DEF CountSeatsToJoin, Proceed
    <3>2. CanAcceptMembers(g, grp[g])'
      BY <1>1, <2>1, <3>1 DEF Checked, Relying, CanAcceptMembers, IsFull, Active
    <3>3. Checked(w)'
      BY <1>1, <3>1, <3>2 DEF Checked, Relying, Deciding
    <3> QED BY <2>1, <3>3, SerialQuiet DEF Proceed
  <2> QED BY <1>8, <1>a, <2>1 DEF CountSeatsToJoin
<1>9. CASE InsertPending(w)
  <2>1. g \in Groups /\ u \in Users /\ Finish(w) /\ UNCHANGED <<grp, co>>
    BY <1>0, <1>9 DEF InsertPending, Routed
  <2>2. PICK m : (mem' = [mem EXCEPT ![g][u] = m] \/ UNCHANGED mem) /\ m.role = "member"
    <3>1. CASE InsertMembership(g, u, "member", "pending")
      <4>1. PICK i \in Ids : mem' = [mem EXCEPT ![g][u] = [id |-> i, role |-> "member", status |-> "pending"]]
        BY <3>1 DEF InsertMembership
      <4>2. [id |-> i, role |-> "member", status |-> "pending"].role = "member"
        OBVIOUS
      <4> QED BY <4>1, <4>2
    <3>2. CASE UNCHANGED mem
      <4>1. NoMembership.role = "member"
        BY DEF NoMembership
      <4> QED BY <3>2, <4>1
    <3> QED BY <1>9, <3>1, <3>2 DEF InsertPending
  <2> HIDE DEF g, u
  <2> QED BY <2>1, <2>2, SerialWrite
<1>10. CASE ReadOwnToLeave(w)
  <2>1. CASE /\ MayLeave(w)
             /\ memb' = [memb EXCEPT ![w] = mem[g][u]]
             /\ Goto(w, "saveInactive")
             /\ UNCHANGED <<req, row, tables>>
    <3>1. /\ pc[w] = "readOwn" /\ pc'[w] = "saveInactive" /\ UNCHANGED <<req, row, grp, mem>>
          /\ memb'[w] = mem[g][u]
      BY <1>10, <2>1, SerialGoto DEF ReadOwnToLeave, SerialInv, TypeInv, LocalsOK
    <3>2. row[w] = grp[g] /\ grp[g].leader # u
      BY <1>1, <2>1, <3>1 DEF Checked, Relying, MayLeave
    <3>3. Checked(w)'
      BY <3>1, <3>2 DEF Checked, Relying, Deciding
    <3> QED BY <2>1, <3>3, SerialQuiet
  <2> QED BY <1>10, <1>a, <2>1 DEF ReadOwnToLeave
<1>11. CASE SaveInactive(w)
  <2> DEFINE r == [memb[w] EXCEPT !.status = "inactive"]
  <2>1. /\ g \in Groups /\ u \in Users /\ memb[w] \in MembershipRow /\ memb[w] = mem[g][u]
        /\ Finish(w) /\ UNCHANGED <<grp, co>>
    BY <1>0, <1>1, <1>11 DEF SaveInactive, Routed, Checked, SerialInv, TypeInv, Targets
  <2>2. r.role = mem[g][u].role
    BY <2>1 DEF MembershipRow
  <2>3. r.role = "leader" => grp[g].creator = u
    BY <1>1, <2>1, <2>2 DEF CreatorsSeat
  <2>4. mem' = [mem EXCEPT ![g][u] = r] \/ UNCHANGED mem
    BY <1>11 DEF SaveInactive, SaveMembership
  <2> HIDE DEF r, g, u
  <2> QED BY <2>1, <2>3, <2>4, SerialWrite
<1>12. CASE CheckLeader(w)
  <2> DEFINE l == IF req[w].op = "photo" THEN "saveGroup" ELSE "readPending"
  <2>1. CASE IsGroupLeader(g, row[w], u) /\ Proceed(w, l)
    <3>1. /\ pc[w] = "checkLeader" /\ pc'[w] = l /\ UNCHANGED <<req, row, grp, co, mem>>
      BY <1>12, <2>1, SerialGoto DEF CheckLeader, Proceed
    <3>2. row[w] = grp[g] /\ IsGroupLeader(g, grp[g], u)'
      BY <1>1, <2>1, <3>1 DEF Checked, Relying, IsGroupLeader
    <3>3. Checked(w)'
      BY <3>1, <3>2 DEF Checked, Relying, Deciding
    <3> QED BY <2>1, <3>3, SerialQuiet DEF Proceed
  <2> QED BY <1>12, <1>a, <2>1 DEF CheckLeader
<1>13. CASE ReadPending(w)
  <2> DEFINE l == IF req[w].op = "approve" THEN "countSeats" ELSE "deleteRow"
  <2>1. CASE /\ PendingFound(w)
             /\ memb' = [memb EXCEPT ![w] = mem[g][t]]
             /\ Goto(w, l)
             /\ UNCHANGED <<req, row, tables>>
    <3>1. /\ pc[w] = "readPending" /\ pc'[w] = l /\ UNCHANGED <<req, row, grp, co, mem>>
          /\ memb'[w] = mem[g][t]
      BY <1>13, <2>1, SerialGoto DEF ReadPending, SerialInv, TypeInv, LocalsOK
    <3>2. row[w] = grp[g] /\ IsGroupLeader(g, grp[g], u)' /\ mem[g][t].status = "pending"
      BY <1>1, <2>1, <3>1 DEF Checked, Relying, IsGroupLeader, PendingFound
    <3>3. Checked(w)'
      BY <3>1, <3>2 DEF Checked, Relying, Deciding
    <3> QED BY <2>1, <3>3, SerialQuiet
  <2> QED BY <1>13, <1>a, <2>1 DEF ReadPending
<1>14. CASE CountSeatsToApprove(w)
  <2>1. CASE ~IsFull(g, row[w]) /\ Proceed(w, "saveActive")
    <3>1. /\ pc[w] = "countSeats" /\ req[w].op = "approve" /\ pc'[w] = "saveActive"
          /\ UNCHANGED <<req, row, memb, grp, co, mem>>
      BY <1>14, <2>1, SerialGoto DEF CountSeatsToApprove, Proceed
    <3>2. Deciding(w)
      BY <3>1 DEF Deciding
    <3>3. /\ row[w] = grp[g] /\ IsGroupLeader(g, grp[g], u) /\ ~IsFull(g, grp[g])
          /\ memb[w] = mem[g][t] /\ memb[w].status = "pending"
      BY <1>1, <2>1, <3>1, <3>2 DEF Checked, Relying
    <3>4. IsGroupLeader(g, grp[g], u)' /\ ~IsFull(g, grp[g])'
      BY <3>1, <3>3 DEF IsGroupLeader, IsFull, Active
    <3>5. Checked(w)'
      BY <3>1, <3>3, <3>4 DEF Checked, Relying, Deciding
    <3> QED BY <2>1, <3>5, SerialQuiet DEF Proceed
  <2> QED BY <1>14, <1>a, <2>1 DEF CountSeatsToApprove
<1>15. CASE SaveActive(w)
  <2> DEFINE r == [memb[w] EXCEPT !.status = "active"]
  <2>1. /\ g \in Groups /\ t \in Users /\ memb[w] \in MembershipRow /\ memb[w] = mem[g][t]
        /\ Finish(w) /\ UNCHANGED <<grp, co>>
    BY <1>0, <1>1, <1>15 DEF SaveActive, Routed, Checked, Deciding, SerialInv, TypeInv, Targets
  <2>2. r.role = mem[g][t].role
    BY <2>1 DEF MembershipRow
  <2>3. r.role = "leader" => grp[g].creator = t
    BY <1>1, <2>1, <2>2 DEF CreatorsSeat
  <2>4. mem' = [mem EXCEPT ![g][t] = r] \/ UNCHANGED mem
    BY <1>15 DEF SaveActive, SaveMembership
  <2> HIDE DEF r, g, t
  <2> QED BY <2>1, <2>3, <2>4, SerialWrite
<1>16. CASE DeleteRow(w)
  <2>1. g \in Groups /\ t \in Users /\ Finish(w) /\ UNCHANGED <<grp, co>>
    BY <1>0, <1>16 DEF DeleteRow, Routed
  <2>2. mem' = [mem EXCEPT ![g][t] = NoMembership] \/ UNCHANGED mem
    BY <1>16 DEF DeleteRow
  <2>3. NoMembership.role # "leader"
    BY DEF NoMembership
  <2> HIDE DEF g, t
  <2> QED BY <2>1, <2>2, <2>3, SerialWrite
<1>17. CASE Recheck(w)
  <2>1. CASE req[w].user \in {grp[req[w].group].leader} \cup co[req[w].group] /\ Proceed(w, "saveGroup")
    <3>1. pc[w] = "recheck" /\ pc'[w] = "saveGroup" /\ UNCHANGED <<req, row, grp, co>>
      BY <1>17, <2>1, SerialGoto DEF Recheck, Proceed
    <3>2. Checked(w)'
      BY <1>1, <2>1, <3>1 DEF Checked, Relying, Deciding
    <3> QED BY <2>1, <3>2, SerialQuiet DEF Proceed
  <2> QED BY <1>17, <1>a, <2>1 DEF Recheck
<1>18. CASE SaveGroup(w)
  BY <1>18, SerialEdit
<1>19. CASE SetCoLeaders(w)
  <2>1. /\ Founded' /\ CreatorsSeat'
    BY <1>19 DEF SetCoLeaders, SerialInv, Founded, CreatorsSeat, Exists
  <2> QED BY <1>19, <2>1, FinishChecked, SerialParts DEF SetCoLeaders
<1>20. CASE Archive(w)
  <2> DEFINE r == [grp[g] EXCEPT !.archived = TRUE, !.active = FALSE, !.open = FALSE]
  <2>1. CASE SaveRow(g, r) /\ Finish(w) /\ UNCHANGED <<co, mem>>
    <3>1. g \in Groups /\ Exists(g) /\ grp[g] \in GroupRow
      BY <1>0, <1>20 DEF Archive, Routed, SerialInv, TypeInv, TablesOK
    <3>2. r.creator = grp[g].creator /\ r.leader = grp[g].leader /\ r.limit = grp[g].limit
      BY <3>1 DEF GroupRow
    <3>3. r.leader # NoUser /\ r.limit >= 2
      BY <3>1, <3>2 DEF Exists, SerialInv, Founded
    <3>4. Checked(w)'
      BY <2>1, FinishChecked
    <3> HIDE DEF r, g
    <3> QED BY <2>1, <3>1, <3>2, <3>3, <3>4, SerialSave
  <2> QED BY <1>20, <1>a, <2>1 DEF Archive
<1>21. CASE Abort(w)
  BY <1>21, <1>a DEF Abort
<1> QED BY <1>2, <1>3, <1>4, <1>5, <1>6, <1>7, <1>8, <1>9, <1>10, <1>11, <1>12, <1>13,
           <1>14, <1>15, <1>16, <1>17, <1>18, <1>19, <1>20, <1>21 DEF Step

-----------------------------------------------------------------------------
(* Every step is an operation of the abstract specification, or forgets     *)
(* what was due.                                                           *)

Mapped == [Atomic!Next]_(Atomic!avars)

LEMMA MappedQuiet ==
    ASSUME NEW w, Workers = {w}, UNCHANGED tables, pc'[w] \notin {"seatLeader", "setCoLeaders"}
    PROVE  Mapped
<1>1. DueNow' = NothingIsDue /\ SeatOf' = SeatOf
  BY DueIs DEF SeatOf, tables
<1>2. Atomic!Forget
  BY <1>1 DEF Atomic!Forget, Atomic!NothingDue, DueNow, SeatOf, NothingIsDue, tables
<1> QED BY <1>2 DEF Mapped, Atomic!Next

LEMMA MappedOperation ==
    ASSUME NEW g \in Groups, NEW u \in Users, Atomic!Operation(g, u)
    PROVE  Mapped
BY DEF Mapped, Atomic!Next

LEMMA MappedSecond ==
    ASSUME NEW g \in Groups, Atomic!SeatCreator(g) \/ \E s \in CoLists : Atomic!SetCo(g, s)
    PROVE  Mapped
BY DEF Mapped, Atomic!Next

LEMMA MayDecide ==
    ASSUME SerialInv, NEW g \in Groups, NEW u \in Users, IsGroupLeader(g, grp[g], u)
    PROVE  Atomic!InCharge(g, u)
<1>1. CASE mem[g][u].role = "leader" /\ mem[g][u].status = "active"
  <2>1. grp[g].creator = u
    BY <1>1 DEF SerialInv, CreatorsSeat
  <2>2. u \in Atomic!Seats(g)
    BY <1>1 DEF Atomic!Seats
  <2> QED BY <2>1, <2>2 DEF Atomic!InCharge
<1>2. CASE u \in {grp[g].leader} \cup co[g]
  BY <1>2 DEF Atomic!InCharge
<1> QED BY <1>1, <1>2 DEF IsGroupLeader

\* A request that ends by writing one membership, with nothing due.
LEMMA MappedWrite ==
    ASSUME NEW w, Workers = {w}, SerialInv, Finish(w), UNCHANGED <<grp, co>>,
           NEW g \in Groups, NEW x \in Users, NEW m, mem' = [mem EXCEPT ![g][x] = m],
           pc[w] \notin {"seatLeader", "setCoLeaders"}
    PROVE  /\ Atomic!Sit(g, x, m.status)
           /\ DueNow' = DueNow
<1>1. SeatOf' = [SeatOf EXCEPT ![g][x] = m.status]
  BY SeatOfWrite DEF SerialInv
<1>2. pc'[w] = "idle"
  BY FinishChecked
<1>3. DueNow' = DueNow
  BY <1>2, DueIs
<1> QED BY <1>1, <1>3 DEF Atomic!Sit, SeatOf

LEMMA MappedCreate == ASSUME NEW w, Workers = {w}, SerialInv, InsertGroup(w) PROVE Mapped
<1> DEFINE u == req[w].user
<1>1. PICK g \in Groups, limit \in Limits, open \in BOOLEAN :
         /\ ~Exists(g)
         /\ grp' = [grp EXCEPT ![g] = [creator |-> u, leader |-> u, active |-> TRUE, open |-> open,
                                       archived |-> FALSE, limit |-> limit]]
         /\ req' = [req EXCEPT ![w].group = g]
  BY DEF InsertGroup
<1>2. /\ pc[w] = "insertGroup" /\ pc'[w] = "seatLeader" /\ UNCHANGED <<co, mem>>
      /\ req[w] \in Request
  BY DEF InsertGroup, Goto, SerialInv, TypeInv, LocalsOK, Targets
<1>3. req'[w].group = g
  BY <1>1, <1>2 DEF SerialInv, TypeInv, LocalsOK, Request
<1>4. DueNow' = [what |-> "seat", group |-> g] /\ SeatOf' = SeatOf
  BY <1>2, <1>3, DueIs DEF DueOf, SeatOf
<1>5. u \in CanLead /\ u \in Users /\ ActiveGroupsOf(u) = {}
  BY <1>2, UsersAssumption DEF SerialInv, Checked
<1>6. ~Atomic!Exists(g) /\ ~\E h \in Groups : grp[h].creator = u /\ grp[h].active /\ ~grp[h].archived
  BY <1>1, <1>5 DEF ActiveGroupsOf, Atomic!Exists, Exists
<1>7. Atomic!Create(g, u, limit, open)
  BY <1>1, <1>2, <1>4, <1>6 DEF Atomic!Create, DueNow, SeatOf
<1> QED BY <1>5, <1>7, MappedOperation DEF Atomic!Operation

LEMMA MappedSeatLeader == ASSUME NEW w, Workers = {w}, SerialInv, SeatLeader(w) PROVE Mapped
<1>0. PICK g \in Groups, u \in Users : req[w].group = g /\ req[w].user = u
  BY DEF SeatLeader, SerialInv, TypeInv, LocalsOK, Targets, Labels, Request
<1>1. /\ pc[w] = "seatLeader" /\ Finish(w) /\ UNCHANGED <<grp, co>>
      /\ grp[g].creator = u /\ mem[g][u] = NoMembership
  BY <1>0 DEF SeatLeader, SerialInv, TypeInv, LocalsOK, Targets, Labels, Request, Checked
<1>2. PICK i \in Ids : mem' = [mem EXCEPT ![g][u] = [id |-> i, role |-> "leader", status |-> "active"]]
  BY <1>0, <1>1 DEF SeatLeader, HasRow, InsertMembership
<1> DEFINE m == [id |-> i, role |-> "leader", status |-> "active"]
<1>3. m.status = "active" /\ mem' = [mem EXCEPT ![g][u] = m]
  BY <1>2
<1> HIDE DEF m
<1>4. SeatOf' = [SeatOf EXCEPT ![g][u] = "active"]
  BY <1>1, <1>3, SeatOfWrite DEF SerialInv
<1>5. SeatOf[g][u] = "none"
  BY <1>1 DEF SeatOf, NoMembership
<1>6. DueNow = [what |-> "seat", group |-> g] /\ DueNow' = NothingIsDue
  BY <1>1, FinishChecked, DueIs, <1>0 DEF DueOf
<1>7. Atomic!SeatCreator(g)
  BY <1>1, <1>4, <1>5, <1>6 DEF Atomic!SeatCreator, Atomic!Sit, Atomic!NothingDue, NothingIsDue, SeatOf, DueNow
<1> QED BY <1>1, <1>7, MappedSecond

LEMMA MappedJoin == ASSUME NEW w, Workers = {w}, SerialInv, InsertPending(w) PROVE Mapped
<1>0. PICK g \in Groups, u \in Users : req[w].group = g /\ req[w].user = u
  BY DEF InsertPending, SerialInv, TypeInv, LocalsOK, Targets, Labels, Request
<1>1. /\ pc[w] = "insertPending" /\ Finish(w) /\ UNCHANGED <<grp, co>>
      /\ CanAcceptMembers(g, grp[g])
  BY <1>0 DEF InsertPending, SerialInv, TypeInv, LocalsOK, Targets, Labels, Request, Checked
<1>2. pc'[w] = "idle"
  BY <1>1, FinishChecked
<1>3. CASE UNCHANGED mem
  BY <1>1, <1>2, <1>3, MappedQuiet DEF tables
<1>4. CASE ~HasRow(g, u) /\ InsertMembership(g, u, "member", "pending")
  <2>1. PICK i \in Ids : mem' = [mem EXCEPT ![g][u] = [id |-> i, role |-> "member", status |-> "pending"]]
    BY <1>4 DEF InsertMembership
  <2> DEFINE m == [id |-> i, role |-> "member", status |-> "pending"]
  <2>2. m.status = "pending" /\ mem' = [mem EXCEPT ![g][u] = m]
    BY <2>1
  <2> HIDE DEF m
  <2>3. Atomic!Sit(g, u, "pending") /\ DueNow' = DueNow
    BY <1>1, <2>2, MappedWrite
  <2>4. SeatOf[g][u] = "none"
    BY <1>1, <1>4 DEF SeatOf, HasRow, NoMembership
  <2>5. grp[g].active /\ grp[g].open /\ ~Atomic!Full(g)
    BY <1>1, SameFull DEF CanAcceptMembers
  <2>6. Atomic!Join(g, u)
    BY <1>1, <2>3, <2>4, <2>5 DEF Atomic!Join, SeatOf, DueNow
  <2>7. Atomic!Operation(g, u)
    BY <2>6 DEF Atomic!Operation
    <2> QED BY <1>1, <2>7, MappedOperation
<1> QED BY <1>0, <1>3, <1>4 DEF InsertPending

LEMMA MappedLeave == ASSUME NEW w, Workers = {w}, SerialInv, SaveInactive(w) PROVE Mapped
<1>0. PICK g \in Groups, u \in Users : req[w].group = g /\ req[w].user = u
  BY DEF SaveInactive, SerialInv, TypeInv, LocalsOK, Targets, Labels, Request
<1> DEFINE r == [memb[w] EXCEPT !.status = "inactive"]
<1>1. /\ pc[w] = "saveInactive" /\ Finish(w) /\ UNCHANGED <<grp, co>>
      /\ Exists(g) /\ grp[g].leader # u /\ memb[w] = mem[g][u] /\ memb[w] \in MembershipRow
  BY <1>0 DEF SaveInactive, SerialInv, TypeInv, LocalsOK, Targets, Labels, Request, Checked, Owned, TargetExists, Routed
<1>2. r.status = "inactive" /\ r.id = mem[g][u].id
  BY <1>1 DEF MembershipRow
<1>3. mem' = [mem EXCEPT ![g][u] = r]
  BY <1>0, <1>2 DEF SaveInactive, SaveMembership
<1> HIDE DEF r
<1>4. Atomic!Sit(g, u, "inactive") /\ DueNow' = DueNow
  BY <1>1, <1>2, <1>3, MappedWrite
<1>5. SeatOf[g][u] # "none"
  BY <1>1 DEF SeatOf, MembershipRow, Statuses
<1>6. Atomic!Leave(g, u)
  BY <1>1, <1>4, <1>5 DEF Atomic!Leave, Atomic!Exists, Exists, SeatOf, DueNow
<1>7. Atomic!Operation(g, u)
  BY <1>6 DEF Atomic!Operation
<1> QED BY <1>1, <1>7, MappedOperation

LEMMA MappedApprove == ASSUME NEW w, Workers = {w}, SerialInv, SaveActive(w) PROVE Mapped
<1>0. PICK g \in Groups, u \in Users, t \in Users : req[w].group = g /\ req[w].user = u /\ req[w].target = t
  BY DEF SaveActive, SerialInv, TypeInv, LocalsOK, Targets, Labels, Request
<1> DEFINE r == [memb[w] EXCEPT !.status = "active"]
<1>1. /\ pc[w] = "saveActive" /\ Exists(g)
      /\ Finish(w) /\ UNCHANGED <<grp, co>> /\ memb[w] \in MembershipRow
  BY <1>0 DEF SaveActive, SerialInv, TypeInv, LocalsOK, Targets, Labels, Request, Owned, TargetExists, Routed
<1>2. /\ memb[w] = mem[g][t] /\ mem[g][t].status = "pending"
      /\ IsGroupLeader(g, grp[g], u) /\ ~IsFull(g, grp[g])
  BY <1>0, <1>1 DEF SerialInv, Checked, Deciding
<1>3. r.status = "active" /\ r.id = mem[g][t].id
  BY <1>1, <1>2 DEF MembershipRow
<1>4. mem' = [mem EXCEPT ![g][t] = r]
  BY <1>0, <1>3 DEF SaveActive, SaveMembership
<1> HIDE DEF r
<1>5. Atomic!Sit(g, t, "active") /\ DueNow' = DueNow
  BY <1>1, <1>3, <1>4, MappedWrite
<1>6. Atomic!InCharge(g, u) /\ ~Atomic!Full(g) /\ SeatOf[g][t] = "pending"
  BY <1>1, <1>2, MayDecide, SameFull DEF SeatOf
<1>7. Atomic!Approve(g, u, t)
  BY <1>1, <1>5, <1>6 DEF Atomic!Approve, Atomic!Exists, Exists, SeatOf, DueNow
<1>8. Atomic!Operation(g, u)
  BY <1>1, <1>7 DEF Atomic!Operation
<1> QED BY <1>1, <1>8, MappedOperation

LEMMA MappedReject == ASSUME NEW w, Workers = {w}, SerialInv, DeleteRow(w) PROVE Mapped
<1>0. PICK g \in Groups, u \in Users, t \in Users : req[w].group = g /\ req[w].user = u /\ req[w].target = t
  BY DEF DeleteRow, SerialInv, TypeInv, LocalsOK, Targets, Labels, Request
<1>1. /\ pc[w] = "deleteRow" /\ Exists(g)
      /\ Finish(w) /\ UNCHANGED <<grp, co>>
  BY <1>0 DEF DeleteRow, SerialInv, TypeInv, LocalsOK, Targets, Labels, Request, Owned, TargetExists, Routed
<1>2. memb[w] = mem[g][t] /\ mem[g][t].status = "pending" /\ IsGroupLeader(g, grp[g], u)
  BY <1>0, <1>1 DEF SerialInv, Checked, Deciding
<1>3. mem' = [mem EXCEPT ![g][t] = NoMembership]
  BY <1>0, <1>2 DEF DeleteRow
<1>4. NoMembership.status = "none"
  BY DEF NoMembership
<1>5. Atomic!Sit(g, t, "none") /\ DueNow' = DueNow
  BY <1>1, <1>3, <1>4, MappedWrite
<1>6. Atomic!InCharge(g, u) /\ SeatOf[g][t] = "pending"
  BY <1>1, <1>2, MayDecide DEF SeatOf
<1>7. Atomic!Reject(g, u, t)
  BY <1>1, <1>5, <1>6 DEF Atomic!Reject, Atomic!Exists, Exists, SeatOf, DueNow
<1>8. Atomic!Operation(g, u)
  BY <1>1, <1>7 DEF Atomic!Operation
<1> QED BY <1>1, <1>8, MappedOperation

\* An edit: what is written over the loaded instance is written over the
\* group as it is.
LEMMA MappedEdit == ASSUME NEW w, Workers = {w}, SerialInv, SaveGroup(w) PROVE Mapped
<1>0. PICK g \in Groups, u \in Users : req[w].group = g /\ req[w].user = u
  BY DEF SaveGroup, SerialInv, TypeInv, LocalsOK, Targets, Labels, Request
<1>1. /\ pc[w] = "saveGroup" /\ UNCHANGED <<co, mem>> /\ Exists(g)
      /\ row[w] = grp[g] /\ grp[g] \in GroupRow
  BY <1>0 DEF SaveGroup, SerialInv, TypeInv, TablesOK, Checked, Relying, Owned, TargetExists, Routed
<1>2. SeatOf' = SeatOf
  BY <1>1 DEF SeatOf
<1>3. CASE req[w].op = "update" /\ SaveEdited(g, row[w])
  <2>1. PICK l \in CanLead \cup {grp[g].leader}, n \in Limits \cup {grp[g].limit}, o \in BOOLEAN, a \in BOOLEAN :
           SaveRow(g, [grp[g] EXCEPT !.leader = l, !.limit = n, !.open = o, !.active = a])
    BY <1>1, <1>3 DEF SaveEdited
  <2>2. grp' = [grp EXCEPT ![g].leader = l, ![g].limit = n, ![g].open = o, ![g].active = a]
    BY <1>1, <2>1 DEF SaveRow, SerialInv, TypeInv, TablesOK, GroupRow
  <2>3. u \in {grp[g].leader} \cup co[g]
    BY <1>0, <1>1, <1>3 DEF SerialInv, Checked
  <2>4. DueNow' \in {NothingIsDue, [what |-> "coLeaders", group |-> g]}
    <3>1. CASE Finish(w)
      BY <3>1, FinishChecked, DueIs
    <3>2. CASE Goto(w, "setCoLeaders") /\ UNCHANGED <<req, row, memb>>
      <4>1. pc'[w] = "setCoLeaders" /\ req'[w].group = g
        BY <1>0, <3>2 DEF Goto, SerialInv, TypeInv, LocalsOK
      <4> QED BY <4>1, DueIs DEF DueOf
    <3> QED BY <3>1, <3>2 DEF SaveGroup
  <2>5. Atomic!Edit(g, u)
    BY <1>1, <1>2, <2>2, <2>3, <2>4
       DEF Atomic!Edit, Atomic!Exists, Atomic!NothingDue, NothingIsDue, Exists, SeatOf, DueNow
  <2> QED BY <2>5, MappedOperation DEF Atomic!Operation
<1>4. CASE req[w].op = "photo" /\ SaveRow(g, row[w])
  <2>1. UNCHANGED tables
    BY <1>1, <1>4 DEF SaveRow, tables, SerialInv, TypeInv, TablesOK
  <2>2. Finish(w)
    BY <1>4 DEF SaveGroup
  <2> QED BY <2>1, <2>2, FinishChecked, MappedQuiet
<1> QED BY <1>0, <1>3, <1>4 DEF SaveGroup

LEMMA MappedSetCoLeaders == ASSUME NEW w, Workers = {w}, SerialInv, SetCoLeaders(w) PROVE Mapped
<1>1. PICK g \in Groups : req[w].group = g
  BY DEF SetCoLeaders, SerialInv, TypeInv, LocalsOK, Targets, Labels
<1>2. pc[w] = "setCoLeaders" /\ Finish(w) /\ UNCHANGED <<grp, mem>>
  BY DEF SetCoLeaders
<1>3. PICK s \in CoLists : co' = [co EXCEPT ![g] = s]
  BY <1>1 DEF SetCoLeaders
<1>4. DueNow = [what |-> "coLeaders", group |-> g] /\ DueNow' = NothingIsDue
  BY <1>1, <1>2, FinishChecked, DueIs DEF DueOf
<1>5. Atomic!SetCo(g, s)
  BY <1>2, <1>3, <1>4 DEF Atomic!SetCo, Atomic!NothingDue, NothingIsDue, SeatOf, DueNow
<1> QED BY <1>5, MappedSecond

LEMMA MappedArchive == ASSUME NEW w, Workers = {w}, SerialInv, Archive(w) PROVE Mapped
<1>0. PICK g \in Groups, u \in Users : req[w].group = g /\ req[w].user = u
  BY DEF Archive, SerialInv, TypeInv, LocalsOK, Targets, Labels, Request
<1>1. /\ pc[w] = "archive" /\ Exists(g) /\ row[w] = grp[g] /\ grp[g] \in GroupRow
  BY <1>0 DEF Archive, SerialInv, TypeInv, TablesOK, Checked, Relying, Owned, TargetExists, Routed
<1>2. CASE row[w].leader # u
  BY <1>0, <1>2, FinishChecked, MappedQuiet DEF Archive, Refuse
<1>3. CASE row[w].leader = u
  <2>1. SaveRow(g, [grp[g] EXCEPT !.archived = TRUE, !.active = FALSE, !.open = FALSE])
    BY <1>0, <1>3 DEF Archive
  <2>2. Finish(w) /\ UNCHANGED <<co, mem>>
    BY <1>0, <1>3 DEF Archive
  <2>3. grp' = [grp EXCEPT ![g].archived = TRUE, ![g].active = FALSE, ![g].open = FALSE]
    BY <1>1, <2>1 DEF SaveRow, SerialInv, TypeInv, TablesOK, GroupRow
  <2>4. DueNow' = DueNow /\ SeatOf' = SeatOf
    BY <1>1, <2>2, FinishChecked, DueIs DEF SeatOf
  <2>5. Atomic!Archive(g, u)
    BY <1>1, <1>3, <2>2, <2>3, <2>4 DEF Atomic!Archive, Atomic!Exists, Exists, SeatOf, DueNow
  <2> QED BY <2>5, MappedOperation DEF Atomic!Operation
<1> QED BY <1>2, <1>3

LEMMA MappedStep == ASSUME NEW w, Workers = {w}, SerialInv, Step(w) PROVE Mapped
<1>a. Refuse(w) => Mapped
  BY FinishChecked, MappedQuiet DEF Refuse
<1>b. ASSUME NEW l, l \notin {"seatLeader", "setCoLeaders"}, Goto(w, l), UNCHANGED tables
      PROVE  Mapped
  <2>1. pc'[w] = l
    BY <1>b DEF Goto, SerialInv, TypeInv, LocalsOK
  <2> QED BY <1>b, <2>1, MappedQuiet
<1>1. CASE Begin(w)
  <2>1. PICK op \in Ops : Goto(w, FirstLabel(op))
    BY <1>1 DEF Begin
  <2>2. FirstLabel(op) \notin {"seatLeader", "setCoLeaders"}
    BY DEF FirstLabel
  <2> QED BY <1>1, <1>b, <2>1, <2>2 DEF Begin
<1>2. CASE GetGroup(w)
  <2>1. AfterGet(req[w].op) \notin {"seatLeader", "setCoLeaders"}
    BY DEF AfterGet
  <2> QED BY <1>2, <1>a, <1>b, <2>1 DEF GetGroup
<1>3. CASE FindActive(w) \/ ReadOwnToJoin(w) \/ CountSeatsToJoin(w) \/ CheckLeader(w)
           \/ CountSeatsToApprove(w) \/ Recheck(w)
  BY <1>3, <1>a, <1>b DEF FindActive, ReadOwnToJoin, CountSeatsToJoin, CheckLeader,
     CountSeatsToApprove, Recheck, Proceed
<1>4. CASE ReadOwnToLeave(w) \/ ReadPending(w)
  BY <1>4, <1>a, <1>b DEF ReadOwnToLeave, ReadPending
<1>5. CASE Abort(w)
  BY <1>5, <1>a DEF Abort
<1> QED BY <1>1, <1>2, <1>3, <1>4, <1>5, MappedCreate, MappedSeatLeader, MappedJoin, MappedLeave,
           MappedApprove, MappedReject, MappedEdit, MappedSetCoLeaders, MappedArchive DEF Step

-----------------------------------------------------------------------------
LEMMA SerialInit == Init => SerialInv /\ Atomic!Init
<1> SUFFICES ASSUME Init PROVE SerialInv /\ Atomic!Init
  OBVIOUS
<1>1. TypeInv
  BY InitType
<1>2. Owned
  BY DEF Init, Owned, NoOrphans, TargetExists, RowLoaded, Routed, Exists, NoRow
<1>3. Founded /\ CreatorsSeat
  BY DEF Init, Founded, CreatorsSeat, Exists, NoRow, NoMembership
<1>4. \A w \in Workers : Checked(w)
  BY DEF Init, Checked, Relying, Deciding
<1>5. HalfDone = {}
  BY DEF Init, HalfDone
<1>6. Atomic!Init
  BY <1>5 DEF Init, NoRow, NoMembership, Atomic!Init, Atomic!NothingDue
<1> QED BY <1>1, <1>2, <1>3, <1>4, <1>6 DEF SerialInv

LEMMA SerialInvariant == OneWorker => (Spec => []SerialInv)
<1> SUFFICES ASSUME OneWorker PROVE Spec => []SerialInv
  OBVIOUS
<1>1. SerialInv /\ [Next]_vars => SerialInv'
  <2>1. ASSUME SerialInv, Next PROVE SerialInv'
    <3>1. PICK w : Workers = {w} /\ Step(w)
      BY <2>1 DEF Next, OneWorker
    <3> QED BY <2>1, <3>1, SerialStep
  <2>2. ASSUME SerialInv, UNCHANGED vars PROVE SerialInv'
    <3>1. UNCHANGED <<grp, co, mem, pc, req, row, memb>>
      BY <2>2 DEF vars
    <3>2. TypeInv'
      BY <2>2, StutterType DEF SerialInv
    <3>3. Owned'
      BY <2>2, <3>1 DEF SerialInv, Owned, NoOrphans, TargetExists, RowLoaded, Routed, Exists
    <3>4. Founded' /\ CreatorsSeat'
      BY <2>2, <3>1 DEF SerialInv, Founded, CreatorsSeat, Exists
    <3>5. ASSUME NEW w \in Workers PROVE Checked(w)'
      <4>1. Checked(w)
        BY <2>2 DEF SerialInv
      <4>2. PICK g, u, t : req[w].group = g /\ req[w].user = u /\ req[w].target = t
        OBVIOUS
      <4>3. req'[w].group = g /\ req'[w].user = u /\ req'[w].target = t
        BY <3>1, <4>2
      <4>4. IsGroupLeader(g, grp[g], u)' <=> IsGroupLeader(g, grp[g], u)
        BY <3>1 DEF IsGroupLeader
      <4>5. /\ IsFull(g, grp[g])' <=> IsFull(g, grp[g])
            /\ CanAcceptMembers(g, grp[g])' <=> CanAcceptMembers(g, grp[g])
        BY <3>1 DEF IsFull, Active, CanAcceptMembers
      <4>6. ActiveGroupsOf(u)' = ActiveGroupsOf(u) /\ (Deciding(w)' <=> Deciding(w))
        BY <3>1 DEF ActiveGroupsOf, Deciding
      <4> QED BY <3>1, <4>1, <4>2, <4>3, <4>4, <4>5, <4>6 DEF Checked, Relying
    <3> QED BY <3>2, <3>3, <3>4, <3>5 DEF SerialInv
  <2> QED BY <2>1, <2>2
<1> QED BY <1>1, SerialInit, PTL DEF Spec

\* Requests served one after the other take effect atomically: the group
\* service with one worker implements GroupAbstract.
THEOREM SerialImplementsAbstract == OneWorker => (Spec => SerialIsAtomic)
<1> SUFFICES ASSUME OneWorker PROVE Spec => SerialIsAtomic
  OBVIOUS
<1>1. SerialInv /\ [Next]_vars => [Atomic!Next]_(Atomic!avars)
  <2>1. ASSUME SerialInv, Next PROVE Mapped
    <3>1. PICK w : Workers = {w} /\ Step(w)
      BY <2>1 DEF Next, OneWorker
    <3> QED BY <2>1, <3>1, MappedStep
  <2>2. ASSUME UNCHANGED vars PROVE UNCHANGED Atomic!avars
    BY <2>2 DEF vars, Atomic!avars, HalfDone, DueOf
  <2> QED BY <2>1, <2>2 DEF Mapped
<1> QED BY <1>1, SerialInit, SerialInvariant, PTL DEF Spec, SerialIsAtomic, Atomic!Spec

-----------------------------------------------------------------------------
(* What the abstract specification guarantees at a glance.                 *)

LEMMA ActiveSeats ==
    ASSUME NEW g \in Groups
    PROVE  /\ Active(g) = {u \in Users : SeatOf[g][u] = "active"}
           /\ Active(g)' = {u \in Users : SeatOf'[g][u] = "active"}
BY DEF Active, SeatOf

LEMMA SitActive ==
    ASSUME NEW g \in Groups, NEW x \in Users, NEW s, Atomic!Sit(g, x, s), NEW h \in Groups
    PROVE  IF h = g THEN Active(h)' = (IF s = "active" THEN Active(h) \cup {x} ELSE Active(h) \ {x})
           ELSE Active(h)' = Active(h)
<1>1. SeatOf' = [SeatOf EXCEPT ![g][x] = s]
  BY DEF Atomic!Sit, SeatOf
<1>2. \A y \in Users : SeatOf'[h][y] = IF h = g /\ y = x THEN s ELSE SeatOf[h][y]
  <2>1. [SeatOf EXCEPT ![g][x] = s]
           = [k \in Groups |-> [y \in Users |-> IF k = g /\ y = x THEN s ELSE SeatOf[k][y]]]
    BY DEF SeatOf
  <2> QED BY <1>1, <2>1
<1> QED BY <1>2, ActiveSeats

LEMMA SameSeatsActive ==
    ASSUME UNCHANGED SeatOf, NEW h \in Groups
    PROVE  Active(h)' = Active(h)
BY ActiveSeats

\* A group that an operation adds an active member to has room for it.
HasRoom(g) == Cardinality(Active(g)') > Cardinality(Active(g)) => Cardinality(Active(g)') <= grp'[g].limit

LEMMA NoNewMember ==
    ASSUME NEW g \in Groups, Active(g)' \subseteq Active(g)
    PROVE  HasRoom(g)
<1>1. IsFiniteSet(Active(g))
  BY FiniteUsers DEF Active
<1>2. Cardinality(Active(g)') <= Cardinality(Active(g)) /\ Cardinality(Active(g)) \in Nat /\ Cardinality(Active(g)') \in Nat
  BY <1>1, FS_Subset, FS_CardinalityType
<1> QED BY <1>2 DEF HasRoom

LEMMA NewMember ==
    ASSUME SerialInv, NEW g \in Groups, NEW x \in Users, Active(g)' = Active(g) \cup {x},
           ~IsFull(g, grp[g]), grp'[g].limit = grp[g].limit
    PROVE  HasRoom(g)
<1>1. IsFiniteSet(Active(g))
  BY FiniteUsers DEF Active
<1>2. Cardinality(Active(g)) \in Nat /\ Cardinality(Active(g)') \in {Cardinality(Active(g)), Cardinality(Active(g)) + 1}
  BY <1>1, FS_AddElement, FS_CardinalityType
<1>3. grp[g].limit \in Nat
  BY LimitsAssumption DEF SerialInv, TypeInv, TablesOK, GroupRow
<1> QED BY <1>2, <1>3 DEF HasRoom, IsFull

LEMMA StepHasRoom ==
    ASSUME NEW w, Workers = {w}, SerialInv, Mapped, NEW h \in Groups
    PROVE  HasRoom(h)
<1>1. CASE UNCHANGED SeatOf
  BY <1>1, SameSeatsActive, NoNewMember
<1>2. ASSUME NEW g \in Groups, NEW x \in Users, NEW s, s # "active", Atomic!Sit(g, x, s)
      PROVE  HasRoom(h)
  <2>1. Active(h)' \subseteq Active(h)
    BY <1>2, SitActive
  <2> QED BY <2>1, NoNewMember
<1>3. ASSUME NEW g \in Groups, NEW x \in Users, Atomic!Sit(g, x, "active"), UNCHANGED grp, ~IsFull(g, grp[g])
      PROVE  HasRoom(h)
  <2>1. CASE h = g
    <3>1. Active(h)' = Active(h) \cup {x}
      BY <1>3, <2>1, SitActive
    <3> QED BY <1>3, <2>1, <3>1, NewMember
  <2>2. CASE h # g
    <3>1. Active(h)' = Active(h)
      BY <1>3, <2>2, SitActive
    <3> QED BY <3>1, NoNewMember
  <2> QED BY <2>1, <2>2
<1>4. ASSUME NEW g \in Groups, Atomic!SeatCreator(g) PROVE HasRoom(h)
  <2>1. DueNow = [what |-> "seat", group |-> g]
    BY <1>4 DEF Atomic!SeatCreator, DueNow
  <2>2. pc[w] = "seatLeader" /\ req[w].group = g
    BY <2>1, DueIs DEF DueOf, NothingIsDue
  <2>3. \A x \in Users : mem[g][x] = NoMembership
    BY <2>2 DEF SerialInv, Checked
  <2>4. Exists(g) /\ grp[g].creator \in Users
    <3>1. Exists(g)
      BY <2>2 DEF SerialInv, Owned, TargetExists, Routed
    <3>2. req[w].user \in Users /\ grp[g].creator = req[w].user
      BY <2>2 DEF SerialInv, TypeInv, LocalsOK, Targets, Labels, Request, Checked
    <3> QED BY <3>1, <3>2
  <2>5. Active(g) = {}
    BY <2>3 DEF Active, NoMembership
  <2>6. ~IsFull(g, grp[g])
    <3>1. Cardinality(Active(g)) = 0
      BY <2>5, FS_EmptySet
    <3>2. grp[g].limit >= 2 /\ grp[g].limit \in Nat
      BY <2>4, LimitsAssumption DEF SerialInv, Founded, TypeInv, TablesOK, GroupRow
    <3> QED BY <3>1, <3>2 DEF IsFull
  <2>7. PICK x \in Users : x = grp[g].creator
    BY <2>4
  <2>8. Atomic!Sit(g, x, "active") /\ UNCHANGED grp
    BY <1>4, <2>7 DEF Atomic!SeatCreator, Atomic!Sit
  <2> QED BY <1>3, <2>6, <2>8
<1>5. ASSUME NEW g \in Groups, NEW u \in Users, Atomic!Operation(g, u) PROVE HasRoom(h)
  <2>1. CASE Atomic!Edit(g, u) \/ Atomic!Archive(g, u) \/ \E n \in Limits, o \in BOOLEAN : Atomic!Create(g, u, n, o)
    BY <1>1, <2>1 DEF Atomic!Edit, Atomic!Archive, Atomic!Create, SeatOf
  <2>2. CASE Atomic!Join(g, u) \/ Atomic!Leave(g, u)
    BY <1>2, <2>2 DEF Atomic!Join, Atomic!Leave
  <2>3. ASSUME NEW t \in Users, Atomic!Approve(g, u, t) PROVE HasRoom(h)
    BY <1>3, <2>3, SameFull DEF Atomic!Approve
  <2>4. ASSUME NEW t \in Users, Atomic!Reject(g, u, t) PROVE HasRoom(h)
    BY <1>2, <2>4 DEF Atomic!Reject
  <2> QED BY <1>5, <2>1, <2>2, <2>3, <2>4 DEF Atomic!Operation
<1>6. CASE Atomic!Forget \/ (\E g \in Groups, s \in CoLists : Atomic!SetCo(g, s)) \/ UNCHANGED Atomic!avars
  BY <1>1, <1>6 DEF Atomic!Forget, Atomic!SetCo, Atomic!avars, SeatOf
<1> QED BY <1>4, <1>5, <1>6 DEF Mapped, Atomic!Next

\* Requests served one after the other never add a member beyond the limit
\* the group has at that moment.
THEOREM ApprovalsFit == OneWorker => (Spec => ApprovalFits)
<1> SUFFICES ASSUME OneWorker PROVE Spec => ApprovalFits
  OBVIOUS
<1>1. SerialInv /\ [Next]_vars => [\A g \in Groups : HasRoom(g)]_vars
  <2> SUFFICES ASSUME SerialInv, Next, NEW g \in Groups PROVE HasRoom(g)
    OBVIOUS
  <2>1. PICK w : Workers = {w} /\ Step(w)
    BY DEF Next, OneWorker
  <2> QED BY <2>1, MappedStep, StepHasRoom
<1>2. [\A g \in Groups : HasRoom(g)]_vars
         <=> [\A g \in Groups : Cardinality(Active(g)') > Cardinality(Active(g))
                 => Cardinality(Active(g)') <= grp'[g].limit]_vars
  BY DEF HasRoom
<1> QED BY <1>1, <1>2, SerialInvariant, PTL DEF Spec, ApprovalFits

-----------------------------------------------------------------------------
(* Leaves, for any number of workers                                       *)

\* A decision acts on a membership it read while it was pending.
DecidesPending == \A w \in Workers : Deciding(w) => memb[w].status = "pending"

LeftStays(g, u) ==
    mem[g][u].status = "inactive" /\ mem'[g][u].status # "inactive"
       => \E w \in Workers : /\ Decides(w, g, u)
                            /\ memb[w].id = mem[g][u].id /\ memb[w].status = "pending"

LEMMA DecidesPendingStep ==
    ASSUME TypeInv, DecidesPending, NEW w \in Workers, Step(w)
    PROVE  DecidesPending'
<1>0. \A v \in Workers \ {w} : pc'[v] = pc[v] /\ req'[v] = req[v] /\ memb'[v] = memb[v]
  BY DEF Step, Begin, BeginCreate, BeginOnGroup, BeginOnMembership, GetGroup, FindActive, InsertGroup,
     SeatLeader, ReadOwnToJoin, CountSeatsToJoin, InsertPending, ReadOwnToLeave, SaveInactive,
     CheckLeader, ReadPending, CountSeatsToApprove, SaveActive, DeleteRow, Recheck, SaveGroup,
     SetCoLeaders, Archive, Abort, Refuse, Proceed, Goto, Finish, TypeInv, LocalsOK
<1>1. SUFFICES Deciding(w)' => memb'[w].status = "pending"
  BY <1>0 DEF DecidesPending, Deciding
<1>2. CASE ReadPending(w)
  BY <1>2 DEF ReadPending, PendingFound, Refuse, Finish, Goto, Deciding, TypeInv, LocalsOK
<1>3. CASE CountSeatsToApprove(w)
  BY <1>3 DEF CountSeatsToApprove, Refuse, Proceed, Finish, Goto, DecidesPending, Deciding, TypeInv, LocalsOK
<1>4. CASE Begin(w)
  <2>1. pc'[w] \in {"findActive", "getGroup"}
    BY <1>4 DEF Begin, Goto, FirstLabel, TypeInv, LocalsOK
  <2> QED BY <2>1 DEF Deciding
<1>5. CASE GetGroup(w)
  <2>1. pc'[w] \in {"readOwn", "checkLeader", "recheck", "archive", "idle"}
    BY <1>5 DEF GetGroup, AfterGet, Goto, Refuse, Finish, TypeInv, LocalsOK
  <2> QED BY <2>1 DEF Deciding
<1>6. CASE ReadOwnToJoin(w) \/ FindActive(w) \/ ReadOwnToLeave(w) \/ InsertGroup(w)
  BY <1>6 DEF ReadOwnToJoin, FindActive, ReadOwnToLeave, InsertGroup, Refuse, Proceed, Goto, Finish,
     Deciding, TypeInv, LocalsOK
<1>7. CASE CountSeatsToJoin(w) \/ CheckLeader(w) \/ Recheck(w)
  BY <1>7 DEF CountSeatsToJoin, CheckLeader, Recheck, Refuse, Proceed, Goto, Finish, Deciding, TypeInv, LocalsOK
<1>8. CASE SeatLeader(w) \/ InsertPending(w) \/ SaveInactive(w) \/ SaveActive(w) \/ DeleteRow(w) \/ SetCoLeaders(w)
  BY <1>8 DEF SeatLeader, InsertPending, SaveInactive, SaveActive, DeleteRow, SetCoLeaders, Finish,
     Deciding, TypeInv, LocalsOK
<1>9. CASE SaveGroup(w) \/ Archive(w) \/ Abort(w)
  BY <1>9 DEF SaveGroup, Archive, Abort, Refuse, Goto, Finish, Deciding, TypeInv, LocalsOK
<1> QED BY <1>2, <1>3, <1>4, <1>5, <1>6, <1>7, <1>8, <1>9 DEF Step

LEMMA OtherRowKept ==
    ASSUME TypeInv, NEW g \in Groups, NEW u \in Users, NEW h \in Groups, NEW t \in Users, NEW m,
           mem' = [mem EXCEPT ![h][t] = m], mem'[g][u] # mem[g][u]
    PROVE  h = g /\ t = u /\ mem'[g][u] = m
BY DEF TypeInv, TablesOK

LEMMA LeftStaysStep ==
    ASSUME TypeInv, DecidesPending, NEW w \in Workers, Step(w), NEW g \in Groups, NEW u \in Users
    PROVE  LeftStays(g, u)
<1> SUFFICES ASSUME mem[g][u].status = "inactive", mem'[g][u].status # "inactive"
             PROVE  /\ Decides(w, g, u)
                    /\ memb[w].id = mem[g][u].id /\ memb[w].status = "pending"
  BY DEF LeftStays
<1>1. mem[g][u] \in MembershipRow /\ HasRow(g, u) /\ mem[g][u].id # NoId
  BY IdsAssumption DEF TypeInv, TablesOK, MembershipRow, NoMembership, HasRow
<1>2. mem'[g][u] # mem[g][u]
  OBVIOUS
<1>3. CASE SeatLeader(w) \/ InsertPending(w)
  <2>1. PICK h \in Groups, t \in Users : h = req[w].group /\ t = req[w].user
    BY <1>3 DEF SeatLeader, InsertPending, TypeInv, Targets, Labels, Request
  <2>2. PICK m : mem' = [mem EXCEPT ![h][t] = m] /\ ~HasRow(h, t)
    BY <1>2, <1>3, <2>1 DEF SeatLeader, InsertPending, InsertMembership
  <2>3. h = g /\ t = u
    BY <1>2, <2>2, OtherRowKept
  <2> QED BY <1>1, <2>2, <2>3
<1>4. CASE SaveInactive(w)
  <2>1. PICK h \in Groups, t \in Users : h = req[w].group /\ t = req[w].user
    BY <1>4 DEF SaveInactive, TypeInv, Targets, Labels, Request
  <2>2. PICK m : m = [memb[w] EXCEPT !.status = "inactive"]
    OBVIOUS
  <2>3. mem' = [mem EXCEPT ![h][t] = m]
    BY <1>2, <1>4, <2>1, <2>2 DEF SaveInactive, SaveMembership
  <2>4. mem'[g][u] = m
    BY <1>2, <2>3, OtherRowKept
  <2>5. memb[w] \in MembershipRow
    BY <1>4 DEF SaveInactive, TypeInv, Targets
  <2> QED BY <2>2, <2>4, <2>5 DEF MembershipRow
<1>5. CASE SaveActive(w)
  <2>1. memb[w] \in MembershipRow /\ Deciding(w)
    BY <1>5 DEF SaveActive, TypeInv, Targets, Deciding
  <2>2. PICK m : m = [memb[w] EXCEPT !.status = "active"]
    OBVIOUS
  <2>3. m.id = memb[w].id
    BY <2>1, <2>2 DEF MembershipRow
  <2>4. PICK h \in Groups, t \in Users : h = req[w].group /\ t = req[w].target
    BY <1>5 DEF SaveActive, TypeInv, Targets, Labels, Request
  <2>5. mem' = [mem EXCEPT ![h][t] = m] /\ mem[h][t].id \in {m.id, NoId}
    BY <1>2, <1>5, <2>2, <2>4 DEF SaveActive, SaveMembership
  <2>6. h = g /\ t = u
    BY <1>2, <2>5, OtherRowKept
  <2> QED BY <1>1, <1>5, <2>1, <2>3, <2>4, <2>5, <2>6 DEF SaveActive, Decides, DecidesPending
<1>6. CASE DeleteRow(w)
  <2>1. PICK h \in Groups, t \in Users : h = req[w].group /\ t = req[w].target
    BY <1>6 DEF DeleteRow, TypeInv, Targets, Labels, Request
  <2>2. mem' = [mem EXCEPT ![h][t] = NoMembership] /\ mem[h][t].id = memb[w].id
    BY <1>2, <1>6, <2>1 DEF DeleteRow
  <2>3. h = g /\ t = u
    BY <1>2, <2>2, OtherRowKept
  <2> QED BY <1>6, <2>1, <2>2, <2>3 DEF DeleteRow, Decides, DecidesPending, Deciding
<1>7. CASE UNCHANGED mem
  BY <1>7
<1>8. UNCHANGED mem \/ SeatLeader(w) \/ InsertPending(w) \/ SaveInactive(w) \/ SaveActive(w) \/ DeleteRow(w)
  BY DEF Step, Begin, GetGroup, FindActive, InsertGroup, ReadOwnToJoin, CountSeatsToJoin, ReadOwnToLeave,
     CheckLeader, ReadPending, CountSeatsToApprove, Recheck, SaveGroup, SetCoLeaders, Archive, Abort,
     Refuse, Proceed, tables
<1> QED BY <1>3, <1>4, <1>5, <1>6, <1>7, <1>8

\* However requests interleave, a member who left is brought back, or the row
\* deleted, only by a decision that had read the row while it was pending
\* (leave, approve_request, reject_request).
THEOREM LeavesStand == Spec => LeaveStands
<1>1. Init => TypeInv /\ DecidesPending
  BY InitType DEF Init, DecidesPending, Deciding
<1>2. TypeInv /\ DecidesPending /\ [Next]_vars => (TypeInv /\ DecidesPending)'
  <2>1. ASSUME TypeInv, DecidesPending, Next PROVE (TypeInv /\ DecidesPending)'
    <3>1. PICK w \in Workers : Step(w)
      BY <2>1 DEF Next
    <3> QED BY <2>1, <3>1, StepType, DecidesPendingStep
  <2>2. ASSUME TypeInv, DecidesPending, UNCHANGED vars PROVE (TypeInv /\ DecidesPending)'
    BY <2>2, StutterType DEF vars, DecidesPending, Deciding
  <2> QED BY <2>1, <2>2
<1>3. TypeInv /\ DecidesPending /\ [Next]_vars => [\A g \in Groups, u \in Users : LeftStays(g, u)]_vars
  BY LeftStaysStep DEF Next
<1>4. [\A g \in Groups, u \in Users : LeftStays(g, u)]_vars
        <=> [\A g \in Groups, u \in Users :
                mem[g][u].status = "inactive" /\ mem'[g][u].status # "inactive"
                   => \E w \in Workers : /\ Decides(w, g, u)
                                        /\ memb[w].id = mem[g][u].id /\ memb[w].status = "pending"]_vars
  BY DEF LeftStays
<1> QED BY <1>1, <1>2, <1>3, <1>4, PTL DEF Spec, LeaveStands

-----------------------------------------------------------------------------
(* Archiving, for any number of workers                                    *)

NoGhosts == \A g \in Groups : ~Exists(g) => ~grp[g].archived

Restores(w, g) == pc[w] = "saveGroup" /\ req[w].group = g /\ ~row[w].archived

LEMMA ArchivedStep ==
    ASSUME TypeInv, Owned, NoGhosts, NEW w \in Workers, Step(w), NEW g \in Groups
    PROVE  /\ Exists(g)' \/ ~grp'[g].archived
           /\ grp[g].archived /\ ~grp'[g].archived => Restores(w, g)
<1>1. grp \in [Groups -> GroupRow] /\ row[w] \in GroupRow
  BY DEF TypeInv, TablesOK, LocalsOK
<1>2. CASE UNCHANGED grp
  BY <1>2 DEF NoGhosts, Exists
<1>3. CASE InsertGroup(w)
  <2>1. PICK h \in Groups, limit \in Limits, open \in BOOLEAN :
          /\ ~Exists(h)
          /\ grp' = [grp EXCEPT ![h] = [creator |-> req[w].user, leader |-> req[w].user,
                                        active |-> TRUE, open |-> open,
                                        archived |-> FALSE, limit |-> limit]]
    BY <1>3 DEF InsertGroup
  <2>2. CASE h = g
    BY <1>1, <2>1, <2>2 DEF NoGhosts
  <2>3. CASE h # g
    BY <1>1, <2>1, <2>3 DEF NoGhosts, Exists
  <2> QED BY <2>2, <2>3
<1>4. CASE SaveGroup(w)
  <2>1. PICK h \in Groups : h = req[w].group
    BY <1>4 DEF SaveGroup, TypeInv, Targets, Labels
  <2>2. row[w].leader # NoUser
    BY <1>4 DEF SaveGroup, Owned, RowLoaded
  <2>3. PICK r : /\ grp' = [grp EXCEPT ![h] = r] /\ r.archived = row[w].archived /\ r.leader # NoUser
    <3>1. CASE SaveRow(h, row[w])
      BY <2>2, <3>1 DEF SaveRow
    <3>2. CASE SaveEdited(h, row[w])
      <4>1. PICK l \in CanLead \cup {row[w].leader}, n \in Limits \cup {row[w].limit}, o \in BOOLEAN, a \in BOOLEAN :
              SaveRow(h, [row[w] EXCEPT !.leader = l, !.limit = n, !.open = o, !.active = a])
        BY <3>2 DEF SaveEdited
      <4>2. l # NoUser
        BY <2>2, <4>1, UsersAssumption
      <4>3. PICK r : r = [row[w] EXCEPT !.leader = l, !.limit = n, !.open = o, !.active = a]
        OBVIOUS
      <4>4. r.archived = row[w].archived /\ r.leader = l
        BY <1>1, <4>3 DEF GroupRow
      <4> QED BY <4>1, <4>2, <4>3, <4>4 DEF SaveRow
    <3> QED BY <1>4, <2>1, <3>1, <3>2 DEF SaveGroup
  <2>4. CASE h = g
    BY <1>1, <1>4, <2>1, <2>3, <2>4 DEF SaveGroup, Restores, Exists
  <2>5. CASE h # g
    BY <1>1, <2>3, <2>5 DEF NoGhosts, Exists
  <2> QED BY <2>4, <2>5
<1>5. CASE Archive(w) /\ ~UNCHANGED grp
  <2>1. PICK h \in Groups : h = req[w].group /\ Exists(h)
    BY <1>5 DEF Archive, TypeInv, Targets, Labels, Owned, TargetExists, Routed
  <2>2. grp' = [grp EXCEPT ![h] = [grp[h] EXCEPT !.archived = TRUE, !.active = FALSE, !.open = FALSE]]
    BY <1>5, <2>1 DEF Archive, SaveRow, Refuse, tables
  <2>3. CASE h = g
    BY <1>1, <2>1, <2>2, <2>3 DEF Exists, GroupRow
  <2>4. CASE h # g
    BY <1>1, <2>2, <2>4 DEF NoGhosts, Exists
  <2> QED BY <2>3, <2>4
<1>6. UNCHANGED grp \/ InsertGroup(w) \/ SaveGroup(w) \/ Archive(w)
  BY DEF Step, Begin, GetGroup, FindActive, SeatLeader, ReadOwnToJoin, CountSeatsToJoin, InsertPending,
     ReadOwnToLeave, SaveInactive, CheckLeader, ReadPending, CountSeatsToApprove, SaveActive, DeleteRow,
     Recheck, SetCoLeaders, Abort, Refuse, Proceed, tables
<1> QED BY <1>2, <1>3, <1>4, <1>5, <1>6

\* However requests interleave, a group comes out of the archive only by the save
\* of an edit or of an upload that had loaded it before it was archived
\* (perform_destroy, perform_update, upload_photo).
THEOREM ArchivingStands == Spec => ArchivedStands
<1> DEFINE Inv == TypeInv /\ Owned /\ NoGhosts
<1>1. Init => Inv
  BY InitType DEF Init, Owned, NoOrphans, TargetExists, RowLoaded, Routed, NoGhosts, NoRow
<1>2. Inv /\ [Next]_vars => Inv'
  <2>1. ASSUME Inv, Next PROVE Inv'
    <3>1. PICK w \in Workers : Step(w)
      BY <2>1 DEF Next
    <3> QED BY <2>1, <3>1, StepType, OwnedStep, ArchivedStep DEF NoGhosts
  <2>2. ASSUME Inv, UNCHANGED vars PROVE Inv'
    BY <2>2, StutterType DEF vars, Owned, NoOrphans, TargetExists, RowLoaded, Routed, Exists, NoGhosts
  <2> QED BY <2>1, <2>2
<1>3. Inv /\ [Next]_vars => [\A g \in Groups : grp[g].archived /\ ~grp'[g].archived
                                 => \E w \in Workers : Restores(w, g)]_vars
  BY ArchivedStep DEF Next
<1>4. [\A g \in Groups : grp[g].archived /\ ~grp'[g].archived => \E w \in Workers : Restores(w, g)]_vars
        <=> [\A g \in Groups : grp[g].archived /\ ~grp'[g].archived
                => \E w \in Workers : pc[w] = "saveGroup" /\ req[w].group = g /\ ~row[w].archived]_vars
  BY DEF Restores
<1> QED BY <1>1, <1>2, <1>3, <1>4, PTL DEF Spec, ArchivedStands

=============================================================================

---------------------------- MODULE GroupService ----------------------------
(***************************************************************************)
(* The group application: the Group, co-leader and GroupMembership tables  *)
(* and the request handlers of GroupViewSet that change them.              *)
(*                                                                         *)
(* The database runs in autocommit (no ATOMIC_REQUESTS), so every SQL      *)
(* statement of a handler is a transaction of its own, and the workers of  *)
(* gunicorn interleave between two statements.  A request is a sequence of *)
(* steps, one per statement; pc[w] names the statement worker w sends      *)
(* next.  What a handler keeps in local variables between statements, the  *)
(* Group instance and the GroupMembership instance it loaded, is row[w]    *)
(* and memb[w]: later checks read those, not the tables.                   *)
(***************************************************************************)
EXTENDS Integers, FiniteSets

CONSTANTS
    Groups,      \* primary keys of groups (a bound on how many are created)
    Users,       \* authenticated users
    Workers,     \* request-handling threads
    CanLead,     \* users whose profile has leadership_info.can_lead_group
    Limits,      \* member limits that clients send
    CoLists,     \* co-leader lists that clients send
    MaxLimit,    \* the validator's upper bound on member_limit
    Ids,         \* primary keys of membership rows (see InsertMembership)
    Ops,         \* the endpoints clients call in this instance
    NoUser, NoGroup, NoId

AllOps == {"create", "join", "leave", "approve", "reject",
           "update", "photo", "destroy"}

ASSUME UsersAssumption   == IsFiniteSet(Users) /\ NoUser \notin Users /\ CanLead \subseteq Users
ASSUME GroupsAssumption  == NoGroup \notin Groups
ASSUME WorkersAssumption == IsFiniteSet(Workers) /\ Workers # {}
ASSUME LimitsAssumption  == MaxLimit \in Nat /\ Limits \subseteq 2..MaxLimit /\ Limits # {}
ASSUME CoListsAssumption == CoLists \subseteq SUBSET Users
ASSUME IdsAssumption     == IsFiniteSet(Ids) /\ NoId \notin Ids /\ Cardinality(Ids) >= Cardinality(Workers)
ASSUME OpsAssumption     == Ops \subseteq AllOps

VARIABLES
    grp,    \* the Group table; a group that does not exist has leader NoUser
    co,     \* the co_leaders many-to-many table
    mem,    \* the GroupMembership table, unique on (group, user)
    pc,     \* the statement each worker executes next
    req,    \* the request each worker serves
    row,    \* the Group instance each worker holds
    memb    \* the GroupMembership instance (or the row named in the URL)

tables == <<grp, co, mem>>
locals == <<pc, req, row, memb>>
vars   == <<grp, co, mem, pc, req, row, memb>>

Roles    == {"leader", "member"}
Statuses == {"pending", "active", "inactive"}
GroupRow == [creator : Users \cup {NoUser}, leader : Users \cup {NoUser},
             active : BOOLEAN, open : BOOLEAN, archived : BOOLEAN, limit : 0..MaxLimit]
NoRow    == [creator |-> NoUser, leader |-> NoUser,
             active |-> FALSE, open |-> FALSE, archived |-> FALSE, limit |-> 0]
MembershipRow == [id : Ids, role : Roles, status : Statuses]
NoMembership  == [id |-> NoId, role |-> "member", status |-> "none"]

Request == [op : AllOps, user : Users, group : Groups \cup {NoGroup}, target : Users]
NoReq   == [op |-> "none", user |-> NoUser, group |-> NoGroup, target |-> NoUser]
Labels  == {"idle", "findActive", "insertGroup", "seatLeader", "getGroup",
            "readOwn", "countSeats", "insertPending", "saveInactive",
            "checkLeader", "readPending", "saveActive", "deleteRow",
            "recheck", "saveGroup", "setCoLeaders", "archive"}

TypeOK ==
    /\ grp \in [Groups -> GroupRow]
    /\ co \in [Groups -> SUBSET Users]
    /\ mem \in [Groups -> [Users -> MembershipRow \cup {NoMembership}]]
    /\ pc \in [Workers -> Labels]
    /\ req \in [Workers -> Request \cup {NoReq}]
    /\ row \in [Workers -> GroupRow]
    /\ memb \in [Workers -> MembershipRow \cup {NoMembership}]

-----------------------------------------------------------------------------
(* What the handlers compute from the tables and from their instances.     *)

Exists(g) == grp[g].leader # NoUser
HasRow(g, u) == mem[g][u] # NoMembership
Active(g) == {u \in Users : mem[g][u].status = "active"}

\* Fault: one seat too many.
IsFullPastLimit(g, r) == Cardinality(Active(g)) > r.limit

\* Group.is_full: a fresh count against the limit of the loaded instance.
IsFull(g, r) == Cardinality(Active(g)) >= r.limit

\* Group.can_accept_members, the flags again those of the loaded instance.
CanAcceptMembers(g, r) == r.active /\ r.open /\ ~IsFull(g, r)

\* GroupViewSet._is_group_leader.
IsGroupLeader(g, r, u) ==
    \/ r.leader = u
    \/ u \in co[g]
    \/ mem[g][u].role = "leader" /\ mem[g][u].status = "active"

\* The groups perform_create's query finds.
ActiveGroupsOf(u) == {g \in Groups : grp[g].creator = u /\ grp[g].active /\ ~grp[g].archived}

Goto(w, label) == pc' = [pc EXCEPT ![w] = label]

\* The response is sent; the worker's local variables are gone.
Finish(w) ==
    /\ pc' = [pc EXCEPT ![w] = "idle"]
    /\ req' = [req EXCEPT ![w] = NoReq]
    /\ row' = [row EXCEPT ![w] = NoRow]
    /\ memb' = [memb EXCEPT ![w] = NoMembership]

\* An early return: an error response, and nothing is written.
Refuse(w) == Finish(w) /\ UNCHANGED tables

\* A check passed: go on to the next statement, nothing loaded.
Proceed(w, label) == Goto(w, label) /\ UNCHANGED <<req, row, memb, tables>>

\* The row a membership INSERT writes: a key no row and no instance holds.
InsertMembership(g, u, role, status) ==
    \E i \in Ids :
        /\ \A w \in Workers : memb[w].id # i
        /\ mem' = [mem EXCEPT ![g][u] = [id |-> i, role |-> role, status |-> status]]

\* Model.save() on a loaded membership: an UPDATE by primary key of every
\* column; when no row has the key any more an INSERT, which unique_together
\* refuses if the user has a new row by then.
SaveMembership(g, u, r) ==
    IF mem[g][u].id \in {r.id, NoId}
    THEN mem' = [mem EXCEPT ![g][u] = r]
    ELSE UNCHANGED mem

-----------------------------------------------------------------------------
(* A request arrives: routing, authentication, and the serializer's own    *)
(* validation, which reads no table of this module.                        *)

FirstLabel(op) == IF op = "create" THEN "findActive" ELSE "getGroup"

\* create(): the serializer admits only users that may lead groups.
BeginCreate(w) ==
    /\ \E u \in CanLead :
          req' = [req EXCEPT ![w] = [op |-> "create", user |-> u, group |-> NoGroup, target |-> u]]
    /\ UNCHANGED memb

\* join, leave, update, upload_photo and destroy name a group ...
BeginOnGroup(w, op) ==
    /\ \E g \in Groups, u \in Users :
          /\ Exists(g)
          /\ req' = [req EXCEPT ![w] = [op |-> op, user |-> u, group |-> g, target |-> u]]
    /\ UNCHANGED memb

\* ... and approve-request and reject-request also the key of a membership.
BeginOnMembership(w, op) ==
    \E g \in Groups, u, t \in Users :
        /\ HasRow(g, t)
        /\ req' = [req EXCEPT ![w] = [op |-> op, user |-> u, group |-> g, target |-> t]]
        /\ memb' = [memb EXCEPT ![w] = mem[g][t]]

Begin(w) ==
    /\ pc[w] = "idle"
    /\ \E op \in Ops :
          /\ \/ op = "create" /\ BeginCreate(w)
             \/ op \in {"join", "leave", "update", "photo", "destroy"} /\ BeginOnGroup(w, op)
             \/ op \in {"approve", "reject"} /\ BeginOnMembership(w, op)
          /\ Goto(w, FirstLabel(op))
    /\ UNCHANGED <<row, tables>>

-----------------------------------------------------------------------------
(* perform_create                                                          *)

FindActive(w) ==
    /\ pc[w] = "findActive"
    /\ IF ActiveGroupsOf(req[w].user) = {}
       THEN Proceed(w, "insertGroup")
       ELSE Refuse(w)

\* The leader is the requesting user; no membership exists yet.
InsertGroup(w) ==
    /\ pc[w] = "insertGroup"
    /\ \E g \in Groups, limit \in Limits, open \in BOOLEAN :
          /\ ~Exists(g)
          /\ grp' = [grp EXCEPT ![g] = [creator |-> req[w].user, leader |-> req[w].user,
                                        active |-> TRUE, open |-> open,
                                        archived |-> FALSE, limit |-> limit]]
          /\ req' = [req EXCEPT ![w].group = g]
    /\ Goto(w, "seatLeader")
    /\ UNCHANGED <<co, mem, row, memb>>

\* A creator who already has a row (a request to join the group that was
\* just inserted) makes the INSERT fail and leaves the group without a seat.
SeatLeader(w) ==
    /\ pc[w] = "seatLeader"
    /\ \/ /\ ~HasRow(req[w].group, req[w].user)
          /\ InsertMembership(req[w].group, req[w].user, "leader", "active")
       \/ /\ HasRow(req[w].group, req[w].user)
          /\ UNCHANGED mem
    /\ Finish(w)
    /\ UNCHANGED <<grp, co>>

-----------------------------------------------------------------------------
(* get_object: the group of the URL, archived ones only when the client    *)
(* sends include_archived=true, which is a choice of its own here.         *)

AfterGet(op) ==
    CASE op \in {"join", "leave"}             -> "readOwn"
      [] op \in {"approve", "reject", "photo"} -> "checkLeader"
      [] op = "update"                        -> "recheck"
      [] OTHER                                -> "archive"

GetGroup(w) ==
    /\ pc[w] = "getGroup"
    /\ \/ /\ row' = [row EXCEPT ![w] = grp[req[w].group]]
          /\ Goto(w, AfterGet(req[w].op))
          /\ UNCHANGED <<req, memb, tables>>
       \/ grp[req[w].group].archived /\ Refuse(w)

-----------------------------------------------------------------------------
(* join                                                                    *)

\* Only a pending or an active row ends the request here.
ReadOwnToJoin(w) ==
    /\ pc[w] = "readOwn" /\ req[w].op = "join"
    /\ IF mem[req[w].group][req[w].user].status \in {"pending", "active"}
       THEN Refuse(w)
       ELSE Proceed(w, "countSeats")

CountSeatsToJoin(w) ==
    /\ pc[w] = "countSeats" /\ req[w].op = "join"
    /\ IF CanAcceptMembers(req[w].group, row[w])
       THEN Proceed(w, "insertPending")
       ELSE Refuse(w)

\* An existing row, a former member's included, violates unique_together and
\* the request ends in an IntegrityError.
InsertPending(w) ==
    /\ pc[w] = "insertPending"
    /\ \/ /\ ~HasRow(req[w].group, req[w].user)
          /\ InsertMembership(req[w].group, req[w].user, "member", "pending")
       \/ /\ HasRow(req[w].group, req[w].user)
          /\ UNCHANGED mem
    /\ Finish(w)
    /\ UNCHANGED <<grp, co>>

-----------------------------------------------------------------------------
(* leave                                                                   *)

\* Faults: a missing row is not refused; the leader is not refused.
MayLeaveWithoutRow(w) == row[w].leader # req[w].user
MayLeaveAsLeader(w) == HasRow(req[w].group, req[w].user)

MayLeave(w) == row[w].leader # req[w].user /\ HasRow(req[w].group, req[w].user)

ReadOwnToLeave(w) ==
    /\ pc[w] = "readOwn" /\ req[w].op = "leave"
    /\ IF MayLeave(w)
       THEN /\ memb' = [memb EXCEPT ![w] = mem[req[w].group][req[w].user]]
            /\ Goto(w, "saveInactive")
            /\ UNCHANGED <<req, row, tables>>
       ELSE Refuse(w)

SaveInactive(w) ==
    /\ pc[w] = "saveInactive"
    /\ SaveMembership(req[w].group, req[w].user, [memb[w] EXCEPT !.status = "inactive"])
    /\ Finish(w)
    /\ UNCHANGED <<grp, co>>

-----------------------------------------------------------------------------
(* approve_request and reject_request, and upload_photo's leader check     *)

CheckLeader(w) ==
    /\ pc[w] = "checkLeader"
    /\ IF IsGroupLeader(req[w].group, row[w], req[w].user)
       THEN Proceed(w, IF req[w].op = "photo" THEN "saveGroup" ELSE "readPending")
       ELSE Refuse(w)

\* Fault: status is left out of the lookup.
PendingFoundAnyStatus(w) == mem[req[w].group][req[w].target].id = memb[w].id

\* The lookup is by the membership's key and status = 'pending'.
PendingFound(w) ==
    /\ mem[req[w].group][req[w].target].id = memb[w].id
    /\ mem[req[w].group][req[w].target].status = "pending"

ReadPending(w) ==
    /\ pc[w] = "readPending"
    /\ IF PendingFound(w)
       THEN /\ memb' = [memb EXCEPT ![w] = mem[req[w].group][req[w].target]]
            /\ Goto(w, IF req[w].op = "approve" THEN "countSeats" ELSE "deleteRow")
            /\ UNCHANGED <<req, row, tables>>
       ELSE Refuse(w)

CountSeatsToApprove(w) ==
    /\ pc[w] = "countSeats" /\ req[w].op = "approve"
    /\ IF IsFull(req[w].group, row[w])
       THEN Refuse(w)
       ELSE Proceed(w, "saveActive")

SaveActive(w) ==
    /\ pc[w] = "saveActive"
    /\ SaveMembership(req[w].group, req[w].target, [memb[w] EXCEPT !.status = "active"])
    /\ Finish(w)
    /\ UNCHANGED <<grp, co>>

\* DELETE by primary key, whatever the row's status is by now.
DeleteRow(w) ==
    /\ pc[w] = "deleteRow"
    /\ mem' = IF mem[req[w].group][req[w].target].id = memb[w].id
              THEN [mem EXCEPT ![req[w].group][req[w].target] = NoMembership]
              ELSE mem
    /\ Finish(w)
    /\ UNCHANGED <<grp, co>>

-----------------------------------------------------------------------------
(* update (PUT, PATCH), upload_photo and destroy                           *)

\* perform_update loads the group a second time, for the permission only:
\* the serializer still holds the first instance.
Recheck(w) ==
    /\ pc[w] = "recheck"
    /\ \/ /\ req[w].user \in {grp[req[w].group].leader} \cup co[req[w].group]
          /\ Proceed(w, "saveGroup")
       \/ /\ \/ req[w].user \notin {grp[req[w].group].leader} \cup co[req[w].group]
             \/ grp[req[w].group].archived
          /\ Refuse(w)

SaveRow(g, r) == grp' = [grp EXCEPT ![g] = r]

\* What the serializer writes: the fields the client names, validated, over
\* the columns of the loaded instance.
SaveEdited(g, r) ==
    \E l \in CanLead \cup {r.leader}, n \in Limits \cup {r.limit}, o, a \in BOOLEAN :
        SaveRow(g, [r EXCEPT !.leader = l, !.limit = n, !.open = o, !.active = a])

\* Model.save() without update_fields: every column of the loaded instance
\* is written back, archived_at and the ones nobody named included.
SaveGroup(w) ==
    /\ pc[w] = "saveGroup"
    /\ \/ req[w].op = "update" /\ SaveEdited(req[w].group, row[w])
       \/ req[w].op = "photo" /\ SaveRow(req[w].group, row[w])
    /\ \/ Finish(w)
       \/ req[w].op = "update" /\ Goto(w, "setCoLeaders") /\ UNCHANGED <<req, row, memb>>
    /\ UNCHANGED <<co, mem>>

\* serializer.update(): the many-to-many field follows, if the client sent it.
SetCoLeaders(w) ==
    /\ pc[w] = "setCoLeaders"
    /\ \E s \in CoLists : co' = [co EXCEPT ![req[w].group] = s]
    /\ Finish(w)
    /\ UNCHANGED <<grp, mem>>

\* Fault: a second DELETE restores the group.
ArchiveOrRestore(w) ==
    /\ pc[w] = "archive"
    /\ IF row[w].leader = req[w].user
       THEN /\ SaveRow(req[w].group, [grp[req[w].group] EXCEPT
                       !.archived = ~@, !.active = FALSE, !.open = FALSE])
            /\ Finish(w)
            /\ UNCHANGED <<co, mem>>
       ELSE Refuse(w)

\* perform_destroy and Group.archive(), which names its columns.
Archive(w) ==
    /\ pc[w] = "archive"
    /\ IF row[w].leader = req[w].user
       THEN /\ SaveRow(req[w].group, [grp[req[w].group] EXCEPT
                       !.archived = TRUE, !.active = FALSE, !.open = FALSE])
            /\ Finish(w)
            /\ UNCHANGED <<co, mem>>
       ELSE Refuse(w)

\* The worker is killed or loses its connection; what it committed stays.
Abort(w) == pc[w] # "idle" /\ Refuse(w)

-----------------------------------------------------------------------------
Init ==
    /\ grp = [g \in Groups |-> NoRow]
    /\ co = [g \in Groups |-> {}]
    /\ mem = [g \in Groups |-> [u \in Users |-> NoMembership]]
    /\ pc = [w \in Workers |-> "idle"]
    /\ req = [w \in Workers |-> NoReq]
    /\ row = [w \in Workers |-> NoRow]
    /\ memb = [w \in Workers |-> NoMembership]

Step(w) ==
    \/ Begin(w) \/ GetGroup(w)
    \/ FindActive(w) \/ InsertGroup(w) \/ SeatLeader(w)
    \/ ReadOwnToJoin(w) \/ CountSeatsToJoin(w) \/ InsertPending(w)
    \/ ReadOwnToLeave(w) \/ SaveInactive(w)
    \/ CheckLeader(w) \/ ReadPending(w) \/ CountSeatsToApprove(w) \/ SaveActive(w) \/ DeleteRow(w)
    \/ Recheck(w) \/ SaveGroup(w) \/ SetCoLeaders(w) \/ Archive(w)
    \/ Abort(w)

Next == \E w \in Workers : Step(w)

Spec == Init /\ [][Next]_vars

-----------------------------------------------------------------------------
(* Properties.                                                             *)

\* Workers that passed the last check and are about to add an active member.
Seating(g) == {w \in Workers : pc[w] \in {"saveActive", "seatLeader"} /\ req[w].group = g}

\* The seats of a group are counted and taken in two statements, so approvals
\* can overshoot the limit; but each worker by one at most, and one of them
\* saw a free seat: the members a group has and those about to be added are
\* never more than the largest limit plus the number of other workers.
OvershootBounded ==
    \A g \in Groups :
        Cardinality(Active(g)) + Cardinality(Seating(g)) <= MaxLimit + Cardinality(Workers) - 1

\* Requests one after the other never fill a group beyond its limit at that
\* time (an edit may lower the limit below the members there already are).
ApprovalFits ==
    [][\A g \in Groups : Cardinality(Active(g)') > Cardinality(Active(g))
                            => Cardinality(Active(g)') <= grp'[g].limit]_vars

\* No race between leave, approve, reject and join takes the seat of the
\* leader or changes the row it is recorded in, as long as leadership is not
\* transferred by an edit.
LeaderSeatKept ==
    [][\A g \in Groups, u \in Users :
          mem[g][u].role = "leader" => mem'[g][u] = mem[g][u]]_vars

Decides(w, g, u) == pc[w] \in {"saveActive", "deleteRow"} /\ req[w].group = g /\ req[w].target = u

\* Who left stays out: join finds the old row in its way, and an approval looks
\* for a pending row.  Only a decision that read that row while it was pending,
\* and saves or deletes it after the leave, undoes the leave.
LeaveStands ==
    [][\A g \in Groups, u \in Users :
          mem[g][u].status = "inactive" /\ mem'[g][u].status # "inactive"
             => \E w \in Workers : /\ Decides(w, g, u)
                                  /\ memb[w].id = mem[g][u].id /\ memb[w].status = "pending"]_vars

\* No endpoint calls unarchive(): a group is archived for good, but for an edit
\* or an upload that loaded it before and writes every column back after.
ArchivedStands ==
    [][\A g \in Groups : grp[g].archived /\ ~grp'[g].archived
          => \E w \in Workers : pc[w] = "saveGroup" /\ req[w].group = g /\ ~row[w].archived]_vars

=============================================================================

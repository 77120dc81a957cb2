---------------------------- MODULE GroupAbstract ----------------------------
(***************************************************************************)
(* What the group application promises: requests as atomic operations on   *)
(* the tables, each with the condition it needs at the moment it takes     *)
(* effect.  Creating a group and editing one have two effects, which the   *)
(* code does not make atomic: the second is due until the worker does it   *)
(* or dies.                                                                *)
(***************************************************************************)
EXTENDS Integers, FiniteSets

CONSTANTS Groups, Users, CanLead, Limits, CoLists, NoUser, NoGroup

VARIABLES
    grp,    \* as in GroupService
    co,
    seat,   \* the status of each membership, "none" without a row
    due     \* the group whose creation or edit is half done, and what is missing

avars == <<grp, co, seat, due>>

NothingDue == [what |-> "nothing", group |-> NoGroup]
Exists(g)  == grp[g].leader # NoUser
Seats(g)   == {u \in Users : seat[g][u] = "active"}
Full(g)    == Cardinality(Seats(g)) >= grp[g].limit

\* The leader, the co-leaders, and the creator while seated.
InCharge(g, u) == u \in {grp[g].leader} \cup co[g] \/ (u = grp[g].creator /\ u \in Seats(g))

Sit(g, u, status) == seat' = [seat EXCEPT ![g][u] = status]

Create(g, u, limit, open) ==
    /\ ~Exists(g)
    /\ ~\E h \in Groups : grp[h].creator = u /\ grp[h].active /\ ~grp[h].archived
    /\ grp' = [grp EXCEPT ![g] = [creator |-> u, leader |-> u, active |-> TRUE,
                                  open |-> open, archived |-> FALSE, limit |-> limit]]
    /\ due' = [what |-> "seat", group |-> g]
    /\ UNCHANGED <<co, seat>>

SeatCreator(g) ==
    /\ due = [what |-> "seat", group |-> g]
    /\ seat[g][grp[g].creator] = "none"
    /\ Sit(g, grp[g].creator, "active")
    /\ due' = NothingDue
    /\ UNCHANGED <<grp, co>>

Join(g, u) ==
    /\ grp[g].active /\ grp[g].open /\ ~Full(g)
    /\ seat[g][u] = "none"
    /\ Sit(g, u, "pending")
    /\ UNCHANGED <<grp, co, due>>

Leave(g, u) ==
    /\ Exists(g) /\ u # grp[g].leader
    /\ seat[g][u] # "none"
    /\ Sit(g, u, "inactive")
    /\ UNCHANGED <<grp, co, due>>

Approve(g, u, t) ==
    /\ Exists(g) /\ InCharge(g, u)
    /\ seat[g][t] = "pending" /\ ~Full(g)
    /\ Sit(g, t, "active")
    /\ UNCHANGED <<grp, co, due>>

Reject(g, u, t) ==
    /\ Exists(g) /\ InCharge(g, u)
    /\ seat[g][t] = "pending"
    /\ Sit(g, t, "none")
    /\ UNCHANGED <<grp, co, due>>

\* The leader and the co-leaders edit the group, never who created it nor
\* whether it is archived; the co-leader list may follow.
Edit(g, u) ==
    /\ Exists(g) /\ u \in {grp[g].leader} \cup co[g]
    /\ \E l \in CanLead \cup {grp[g].leader}, n \in Limits \cup {grp[g].limit}, o, a \in BOOLEAN :
          grp' = [grp EXCEPT ![g].leader = l, ![g].limit = n, ![g].open = o, ![g].active = a]
    /\ due' \in {NothingDue, [what |-> "coLeaders", group |-> g]}
    /\ UNCHANGED <<co, seat>>

SetCo(g, s) ==
    /\ due = [what |-> "coLeaders", group |-> g]
    /\ co' = [co EXCEPT ![g] = s]
    /\ due' = NothingDue
    /\ UNCHANGED <<grp, seat>>

\* Only the leader, and for good.
Archive(g, u) ==
    /\ Exists(g) /\ u = grp[g].leader
    /\ grp' = [grp EXCEPT ![g].archived = TRUE, ![g].active = FALSE, ![g].open = FALSE]
    /\ UNCHANGED <<co, seat, due>>

\* The second effect of a request that ended early never happens.
Forget == due' = NothingDue /\ UNCHANGED <<grp, co, seat>>

Init ==
    /\ grp = [g \in Groups |-> [creator |-> NoUser, leader |-> NoUser, active |-> FALSE,
                                open |-> FALSE, archived |-> FALSE, limit |-> 0]]
    /\ co = [g \in Groups |-> {}]
    /\ seat = [g \in Groups |-> [u \in Users |-> "none"]]
    /\ due = NothingDue

Operation(g, u) ==
    \/ \E limit \in Limits, open \in BOOLEAN : u \in CanLead /\ Create(g, u, limit, open)
    \/ Join(g, u) \/ Leave(g, u) \/ Edit(g, u) \/ Archive(g, u)
    \/ \E t \in Users : Approve(g, u, t) \/ Reject(g, u, t)

Next ==
    \/ \E g \in Groups, u \in Users : Operation(g, u)
    \/ \E g \in Groups : SeatCreator(g) \/ (\E s \in CoLists : SetCo(g, s))
    \/ Forget

Spec == Init /\ [][Next]_avars

=============================================================================

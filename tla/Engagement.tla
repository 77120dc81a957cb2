----------------------------- MODULE Engagement -----------------------------
(***************************************************************************)
(* What members and moderators attach to a piece of content: reactions and *)
(* reports, with the counters and the flag kept in the content's row and   *)
(* the reaction count copied to its feed item.                             *)
(*                                                                         *)
(* A request looks for an earlier reaction or report and then inserts,     *)
(* deletes or changes one; receivers update the counters afterwards.  Each *)
(* statement commits alone, except a deletion, which runs its receivers in *)
(* its transaction.  row[w] is the content instance worker w loaded.       *)
(***************************************************************************)
EXTENDS Integers, FiniteSets

CONSTANTS
    Users,      \* members of the group
    Items,      \* pieces of content
    Reactions,  \* primary keys of reactions
    Types,      \* kinds of reaction
    Workers,    \* request-handling threads
    KindOf,     \* what each item is
    Ops,        \* what happens in this instance
    MayAbort,   \* whether a statement may fail and end its request
    NoUser, NoItem, NoType, NoReaction

Kinds  == {"discussion", "comment", "prayer", "faith"}  \* faith: testimony, scripture
AllOps == {"react", "report", "moderate", "edit", "admin"}

ASSUME ItemsAssumption     == NoItem \notin Items /\ KindOf \in [Items -> Kinds]
ASSUME ReactionsAssumption == IsFiniteSet(Reactions) /\ NoReaction \notin Reactions
ASSUME UsersAssumption     == IsFiniteSet(Users) /\ NoUser \notin Users /\ NoType \notin Types
ASSUME WorkersAssumption   == IsFiniteSet(Workers)
ASSUME OpsAssumption       == Ops \subseteq AllOps /\ MayAbort \in BOOLEAN

VARIABLES
    item,    \* counters and flag in each item's row
    feed,    \* the reaction count each item's feed item shows
    rea,     \* the Reaction table
    rep,     \* the ContentReport table, by reporter and item
    spoilt,  \* history: items whose count an edit wrote back stale
    calm,    \* history: so far requests ran one at a time and to their end
    alone,   \* history: the workers whose request nothing has overlapped
    fresh,   \* history: items whose flag was last written by such a request
             \* and none of whose reports changed since
    pc,      \* the statement each worker executes next
    req,     \* the request each worker serves
    row      \* the content instance each worker holds

tables  == <<item, feed, rea, rep>>
history == <<spoilt, calm, alone, fresh>>
vars    == <<item, feed, rea, rep, spoilt, calm, alone, fresh, pc, req, row>>

ContentRow  == [reactions : Nat, flagged : BOOLEAN, reports : Nat]
NoContent   == [reactions |-> 0, flagged |-> FALSE, reports |-> 0]
\* legacy: the deprecated foreign key names the item as well.
ReactionRow == [user : Users, item : Items, type : Types, legacy : BOOLEAN]
NoRow       == [user |-> NoUser, item |-> NoItem, type |-> NoType, legacy |-> FALSE]
Status      == {"none", "open", "closed"}   \* open: pending or reviewing
Request     == [user : Users \cup {NoUser}, item : Items, type : Types \cup {NoType},
                legacy : BOOLEAN, found : Reactions \cup {NoReaction},
                on : Items \cup {NoItem}, to : Status]
NoReq       == [user |-> NoUser, item |-> NoItem, type |-> NoType, legacy |-> FALSE,
                found |-> NoReaction, on |-> NoItem, to |-> "none"]
Labels      == {"idle", "insert", "count", "refresh", "show", "delete", "retype", "insertReport",
                "saveReport", "loadContent", "countReports", "saveFlags", "saveItem"}

TypeOK ==
    /\ item \in [Items -> ContentRow]
    /\ feed \in [Items -> Nat]
    /\ rea \in [Reactions -> ReactionRow \cup {NoRow}]
    /\ rep \in [Users \X Items -> Status]
    /\ spoilt \subseteq Items /\ calm \in BOOLEAN /\ alone \subseteq Workers /\ fresh \subseteq Items
    /\ pc \in [Workers -> Labels]
    /\ req \in [Workers -> Request \cup {NoReq}]
    /\ row \in [Workers -> ContentRow]

-----------------------------------------------------------------------------
\* PrayerRequest has no column reaction_count; comments are not in the feed.
Counted    == {i \in Items : KindOf[i] # "prayer"}
Shown      == {i \in Items : KindOf[i] \in {"discussion", "faith"}}
Reportable == {i \in Items : KindOf[i] \in {"discussion", "comment"}}

Exists(r)     == rea[r] # NoRow
RowsOf(i)     == {r \in Reactions : Exists(r) /\ rea[r].item = i}
OpenReports(i) == {u \in Users : rep[<<u, i>>] = "open"}
Idle          == \A w \in Workers : pc[w] = "idle"

Goto(w, label) == pc' = [pc EXCEPT ![w] = label]

Begin(w, q) ==
    /\ pc[w] = "idle"
    /\ req' = [req EXCEPT ![w] = q]
    /\ calm' = (calm /\ Idle)
    /\ alone' = IF Idle THEN {w} ELSE {}
    /\ UNCHANGED <<spoilt, fresh>>

Finish(w) ==
    /\ pc' = [pc EXCEPT ![w] = "idle"]
    /\ req' = [req EXCEPT ![w] = NoReq]
    /\ row' = [row EXCEPT ![w] = NoContent]
    /\ alone' = alone \ {w}

\* What is left to do concerns the item, whoever asked.
Rest(w) == [NoReq EXCEPT !.item = req[w].item]

GoOn(w, label) ==
    /\ Goto(w, label)
    /\ req' = [req EXCEPT ![w] = Rest(w)]
    /\ UNCHANGED <<row, alone>>

\* Go on to the next statement, or finish if there is none.
ThenIf(more, w, label) == IF more THEN GoOn(w, label) ELSE Finish(w)

\* A handler's last write is followed by the receivers' copy to the feed.
ThenShow(w) ==
    ThenIf(req[w].item \in Shown, w, "show")

-----------------------------------------------------------------------------
(* POST /reactions/                                                        *)

\* Given the deprecated field "discussion" (or "comment") the query filters by
\* it; without one it filters by comment IS NULL, whatever the content.
Matches(u, i, legacy) ==
    {r \in Reactions : Exists(r) /\ rea[r].user = u /\
        IF legacy THEN rea[r].legacy /\ rea[r].item = i
                  ELSE ~(rea[r].legacy /\ KindOf[rea[r].item] = "comment")}

Asked(u, i, t, l) == [NoReq EXCEPT !.user = u, !.item = i, !.type = t, !.legacy = l]

BeginReact(w) ==
    /\ "react" \in Ops
    /\ \E u \in Users, i \in Items, t \in Types, l \in BOOLEAN :
          /\ l => i \in Reportable
          /\ \/ Matches(u, i, l) = {} /\ Begin(w, Asked(u, i, t, l)) /\ Goto(w, "insert")
             \/ \E r \in Matches(u, i, l) :
                   /\ Begin(w, [Asked(u, i, t, l) EXCEPT !.found = r, !.on = rea[r].item])
                   /\ Goto(w, IF rea[r].type = t THEN "delete" ELSE "retype")
    /\ UNCHANGED <<tables, row>>

\* One reaction per user and item, else IntegrityError.  The receiver of a
\* reaction to a prayer request raises FieldError; the row is there to stay.
Insert(w) ==
    /\ pc[w] = "insert"
    /\ LET q == req[w] IN
       IF \E r \in RowsOf(q.item) : rea[r].user = q.user
       THEN Finish(w) /\ UNCHANGED rea
       ELSE /\ \E r \in Reactions :
                  /\ ~Exists(r) /\ \A v \in Workers : req[v].found # r
                  /\ rea' = [rea EXCEPT ![r] = [user |-> q.user, item |-> q.item,
                                                type |-> q.type, legacy |-> q.legacy]]
            /\ ThenIf(q.item \in Counted, w, "count")
    /\ UNCHANGED <<item, feed, rep, spoilt, calm, fresh>>

\* Fault: the counter is written twice, once by each of two receivers.
CountTwice(w) ==
    /\ pc[w] = "count"
    /\ item' = [item EXCEPT ![req[w].item].reactions = @ + 2]
    /\ ThenIf(req[w].item \in Shown, w, "refresh")
    /\ UNCHANGED <<feed, rea, rep, spoilt, calm, fresh>>

\* UPDATE ... SET reaction_count = reaction_count + 1, then refresh_from_db,
\* then the copy to the feed item.
Count(w) ==
    /\ pc[w] = "count"
    /\ item' = [item EXCEPT ![req[w].item].reactions = @ + 1]
    /\ ThenIf(req[w].item \in Shown, w, "refresh")
    /\ UNCHANGED <<feed, rea, rep, spoilt, calm, fresh>>

Refresh(w) ==
    /\ pc[w] = "refresh"
    /\ row' = [row EXCEPT ![w] = item[req[w].item]]
    /\ Goto(w, "show")
    /\ UNCHANGED <<tables, history, req>>

Show(w) ==
    /\ pc[w] = "show"
    /\ feed' = [feed EXCEPT ![req[w].item] = row[w].reactions]
    /\ Finish(w)
    /\ UNCHANGED <<item, rea, rep, spoilt, calm, fresh>>

\* Fault: the receivers do not run.
RemoveUncounted(r, i) ==
    /\ rea' = [rea EXCEPT ![r] = NoRow]
    /\ UNCHANGED <<item, feed>>

\* Fault: nothing keeps the counter from falling below zero.
RemoveUnchecked(r, i) ==
    /\ rea' = [rea EXCEPT ![r] = NoRow]
    /\ item' = [item EXCEPT ![i].reactions = @ - 1]
    /\ feed' = feed

\* One transaction: DELETE, counter, feed item.  The receivers run although
\* another request may have deleted the row, and the transaction is rolled
\* back where there is no counter or it would fall below zero.
Remove(r, i) ==
    IF i \in Counted /\ item[i].reactions > 0
    THEN /\ rea' = [rea EXCEPT ![r] = NoRow]
         /\ item' = [item EXCEPT ![i].reactions = @ - 1]
         /\ feed' = IF i \in Shown THEN [feed EXCEPT ![i] = item[i].reactions - 1] ELSE feed
    ELSE UNCHANGED <<rea, item, feed>>

Delete(w) ==
    /\ pc[w] = "delete"
    /\ Remove(req[w].found, req[w].on)
    /\ Finish(w)
    /\ UNCHANGED <<rep, spoilt, calm, fresh>>

\* save(update_fields=['reaction_type']) raises if the row is gone.
Retype(w) ==
    /\ pc[w] = "retype"
    /\ LET r == req[w].found
       IN rea' = IF Exists(r) THEN [rea EXCEPT ![r].type = req[w].type] ELSE rea
    /\ Finish(w)
    /\ UNCHANGED <<item, feed, rep, spoilt, calm, fresh>>

-----------------------------------------------------------------------------
(* POST {content}/report/, PATCH /reports/{id}/, POST /reports/{id}/review *)

BeginReport(w) ==
    /\ "report" \in Ops
    /\ \E u \in Users, i \in Reportable :
          /\ rep[<<u, i>>] = "none"
          /\ Begin(w, [NoReq EXCEPT !.user = u, !.item = i])
    /\ Goto(w, "insertReport")
    /\ UNCHANGED <<tables, row>>

InsertReport(w) ==
    /\ pc[w] = "insertReport"
    /\ LET u == req[w].user
           i == req[w].item
       IN \/ /\ rep[<<u, i>>] # "none" /\ Finish(w)
             /\ UNCHANGED <<rep, fresh>>
          \/ /\ rep[<<u, i>>] = "none"
             /\ rep' = [rep EXCEPT ![<<u, i>>] = "open"]
             /\ fresh' = fresh \ {i}
             /\ GoOn(w, "loadContent")
    /\ UNCHANGED <<item, feed, rea, spoilt, calm>>

\* review resolves or dismisses; PATCH sets any status, or writes back the one
\* it loaded.
BeginModerate(w) ==
    /\ "moderate" \in Ops
    /\ \E u \in Users, i \in Reportable, s \in {"open", "closed"} :
          /\ rep[<<u, i>>] # "none"
          /\ Begin(w, [NoReq EXCEPT !.user = u, !.item = i, !.to = s])
    /\ Goto(w, "saveReport")
    /\ UNCHANGED <<tables, row>>

\* save() writes the whole row, and inserts it again if it was deleted: then
\* the receivers count only if it is pending, which not every open report is.
SaveReport(w) ==
    /\ pc[w] = "saveReport"
    /\ LET p == <<req[w].user, req[w].item>>
       IN /\ rep' = [rep EXCEPT ![p] = req[w].to]
          /\ \/ (rep[p] = "none" => req[w].to = "open") /\ GoOn(w, "loadContent")
             \/ rep[p] = "none" /\ Finish(w)
    /\ fresh' = fresh \ {req[w].item}
    /\ UNCHANGED <<item, feed, rea, spoilt, calm>>

\* The receiver loads the content, ...
LoadContent(w) ==
    /\ pc[w] = "loadContent"
    /\ row' = [row EXCEPT ![w] = item[req[w].item]]
    /\ Goto(w, "countReports")
    /\ UNCHANGED <<tables, history, req>>

\* Fault: closed reports count as well.
CountAllReports(w) ==
    /\ pc[w] = "countReports"
    /\ LET n == Cardinality({u \in Users : rep[<<u, req[w].item>>] # "none"})
       IN row' = [row EXCEPT ![w].flagged = n > 0, ![w].reports = n]
    /\ Goto(w, "saveFlags")
    /\ UNCHANGED <<tables, history, req>>

\* ... counts the reports still open, ...
CountReports(w) ==
    /\ pc[w] = "countReports"
    /\ LET n == Cardinality(OpenReports(req[w].item))
       IN row' = [row EXCEPT ![w].flagged = n > 0, ![w].reports = n]
    /\ Goto(w, "saveFlags")
    /\ UNCHANGED <<tables, history, req>>

\* ... and saves the two columns; the content's own receiver then copies the
\* instance to the feed item.
SaveFlags(w) ==
    /\ pc[w] = "saveFlags"
    /\ LET i == req[w].item IN
       /\ item' = [item EXCEPT ![i].flagged = row[w].flagged, ![i].reports = row[w].reports]
       /\ fresh' = IF w \in alone THEN fresh \cup {i} ELSE fresh \ {i}
    /\ ThenShow(w)
    /\ UNCHANGED <<feed, rea, rep, spoilt, calm>>

-----------------------------------------------------------------------------
(* PATCH of the content by its author (a prayer request has no column that *)
(* this module changes otherwise)                                          *)

BeginEdit(w) ==
    /\ "edit" \in Ops
    /\ \E i \in Counted \ spoilt :   \* bound: an edit that spoils a count is the last
          /\ Begin(w, [NoReq EXCEPT !.item = i])
          /\ row' = [row EXCEPT ![w] = item[i]]
    /\ Goto(w, "saveItem")
    /\ UNCHANGED tables

\* save() writes all columns, the counters and the flag as they were loaded.
SaveItem(w) ==
    /\ pc[w] = "saveItem"
    /\ LET i == req[w].item IN
       /\ item' = [item EXCEPT ![i] = row[w]]
       /\ spoilt' = IF item[i].reactions # row[w].reactions THEN spoilt \cup {i} ELSE spoilt
       /\ fresh' = IF w \in alone THEN fresh ELSE fresh \ {i}
    /\ ThenShow(w)
    /\ UNCHANGED <<feed, rea, rep, calm>>

-----------------------------------------------------------------------------
(* Surroundings                                                            *)

\* An administrator deletes a reaction or a report, in a transaction.
AdminDeleteReaction ==
    /\ "admin" \in Ops
    /\ \E r \in Reactions : Exists(r) /\ Remove(r, rea[r].item)
    /\ calm' = (calm /\ Idle)
    /\ alone' = {}
    /\ UNCHANGED <<rep, spoilt, fresh, pc, req, row>>

AdminDeleteReport ==
    /\ "admin" \in Ops
    /\ \E u \in Users, i \in Items :
          /\ rep[<<u, i>>] # "none"
          /\ rep' = [rep EXCEPT ![<<u, i>>] = "none"]
          /\ LET n == Cardinality(OpenReports(i) \ {u})
             IN item' = [item EXCEPT ![i].flagged = n > 0, ![i].reports = n]
          /\ feed' = IF i \in Shown THEN [feed EXCEPT ![i] = item[i].reactions] ELSE feed
          /\ fresh' = IF Idle THEN fresh \cup {i} ELSE fresh \ {i}
    /\ calm' = (calm /\ Idle)
    /\ alone' = {}
    /\ UNCHANGED <<rea, spoilt, pc, req, row>>

\* A statement fails and the handler answers 500: nothing is undone.
Abort(w) ==
    /\ MayAbort /\ pc[w] # "idle" /\ Finish(w) /\ calm' = FALSE
    /\ UNCHANGED <<tables, spoilt, fresh>>

-----------------------------------------------------------------------------
Init ==
    /\ item = [i \in Items |-> NoContent] /\ feed = [i \in Items |-> 0]
    /\ rea = [r \in Reactions |-> NoRow]
    /\ rep = [p \in Users \X Items |-> "none"]
    /\ spoilt = {} /\ calm = TRUE /\ alone = {} /\ fresh = Items
    /\ pc = [w \in Workers |-> "idle"]
    /\ req = [w \in Workers |-> NoReq]
    /\ row = [w \in Workers |-> NoContent]

React(w)    == BeginReact(w) \/ Insert(w) \/ Count(w) \/ Refresh(w) \/ Show(w) \/ Delete(w) \/ Retype(w)
Moderate(w) == BeginReport(w) \/ InsertReport(w) \/ BeginModerate(w) \/ SaveReport(w)
               \/ LoadContent(w) \/ CountReports(w) \/ SaveFlags(w)
Edit(w)     == BeginEdit(w) \/ SaveItem(w)

Next ==
    \/ \E w \in Workers : React(w) \/ Moderate(w) \/ Edit(w) \/ Abort(w)
    \/ AdminDeleteReaction \/ AdminDeleteReport

Spec == Init /\ [][Next]_vars

-----------------------------------------------------------------------------
(* Properties                                                              *)

\* The receivers may lose reactions but never invent any: whatever requests
\* interleave or fail, and even when two of them delete the same reaction, an
\* item counts no more reactions than it has, unless an edit of the content
\* wrote back a count it had loaded before.
NeverOvercounted ==
    \A i \in Counted \ spoilt : item[i].reactions <= Cardinality(RowsOf(i))

\* Requests that ran one after the other leave the counter equal to the
\* number of reactions, and the feed showing it (the two receivers).
ReactionsCounted ==
    calm /\ Idle =>
        /\ \A i \in Counted : item[i].reactions = Cardinality(RowsOf(i))
        /\ \A i \in Shown : feed[i] = item[i].reactions

\* Because the flag is computed from the reports, a report or a decision that
\* nothing overlapped repairs whatever earlier overlaps left: the content is
\* flagged exactly if a report is open, with their number.
FlagsTellReports ==
    \A i \in fresh :
        /\ item[i].reports = Cardinality(OpenReports(i))
        /\ item[i].flagged <=> OpenReports(i) # {}

\* ReactionViewSet.create: "If user already reacted with same type, remove it
\* (toggle off)".  A request changes or removes a reaction to its own content.
TogglesOwnContent ==
    [][\A r \in Reactions : Exists(r) /\ rea'[r] # rea[r] =>
          \E w \in Workers : req[w].found = r /\ req[w].item = rea[r].item]_rea

=============================================================================

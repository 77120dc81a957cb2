-------------------------- MODULE EngagementProofs --------------------------
(***************************************************************************)
(* Proofs about Engagement: what the reaction counter and the moderation   *)
(* flag may say, for any numbers of users, items, reactions and workers.   *)
(***************************************************************************)
EXTENDS Engagement, FiniteSetTheorems, TLAPS

\* What a statement relies on its request to carry.
Carries(l, q) ==
    /\ l # "idle" => q \in Request
    /\ l = "insert" => q.user \in Users /\ q.type \in Types
    /\ l = "count" => q.item \in Counted
    /\ l \in {"refresh", "show"} => q.item \in Shown
    /\ l = "delete" => q.found \in Reactions /\ q.on \in Items
    /\ l = "retype" => q.found \in Reactions /\ q.type \in Types
    /\ l \in {"insertReport", "saveReport"} => q.user \in Users

Carried == \A w \in Workers : Carries(pc[w], req[w])

Typed == TypeOK /\ Carried

-----------------------------------------------------------------------------
LEMMA TypedInit == Init => Typed
<1> SUFFICES ASSUME Init PROVE Typed
  OBVIOUS
<1>1. NoContent \in ContentRow
  BY DEF NoContent, ContentRow
<1>2. TypeOK
  BY <1>1 DEF Init, TypeOK, Labels, Status
<1>3. Carried
  BY DEF Init, Carried, Carries
<1> QED BY <1>2, <1>3 DEF Typed

\* One worker goes on with label l and request q.
LEMMA TypedStep ==
    ASSUME Typed, NEW w \in Workers, NEW l \in Labels, NEW q \in Request \cup {NoReq},
           pc' = [pc EXCEPT ![w] = l], req' = [req EXCEPT ![w] = q], Carries(l, q)
    PROVE  pc' \in [Workers -> Labels] /\ req' \in [Workers -> Request \cup {NoReq}] /\ Carried'
BY DEF Typed, TypeOK, Carried

LEMMA TypedOnward ==
    ASSUME Typed, NEW w \in Workers, NEW l \in Labels, Goto(w, l), req' = req, Carries(l, req[w])
    PROVE  pc' \in [Workers -> Labels] /\ req' \in [Workers -> Request \cup {NoReq}] /\ Carried'
BY DEF Typed, TypeOK, Carried, Goto

LEMMA RestTyped ==
    ASSUME NEW w, req[w].item \in Items
    PROVE  Rest(w) \in Request /\ Rest(w).item = req[w].item
BY DEF Rest, NoReq, Request, Status

\* The locals after a statement that ends its request or goes on with the item.
LEMMA TypedThen ==
    ASSUME Typed, NEW w \in Workers, NEW l \in Labels, NEW more,
           ThenIf(more, w, l), more => req[w].item \in Items /\ Carries(l, Rest(w))
    PROVE  /\ pc' \in [Workers -> Labels] /\ req' \in [Workers -> Request \cup {NoReq}] /\ Carried'
           /\ row' \in [Workers -> ContentRow] /\ alone' \subseteq Workers
<1>1. NoContent \in ContentRow /\ Carries("idle", NoReq) /\ "idle" \in Labels
  BY DEF NoContent, ContentRow, Carries, Labels
<1>2. CASE ~more
  BY <1>1, <1>2, TypedStep DEF ThenIf, Finish, Typed, TypeOK
<1>3. CASE more
  BY <1>3, RestTyped, TypedStep DEF ThenIf, GoOn, Goto, Typed, TypeOK
<1> QED BY <1>2, <1>3

LEMMA TypedFinish ==
    ASSUME Typed, NEW w \in Workers, Finish(w)
    PROVE  /\ pc' \in [Workers -> Labels] /\ req' \in [Workers -> Request \cup {NoReq}] /\ Carried'
           /\ row' \in [Workers -> ContentRow] /\ alone' \subseteq Workers
<1>1. ThenIf(FALSE, w, "idle") /\ "idle" \in Labels
  BY DEF ThenIf, Labels
<1> QED BY <1>1, TypedThen

LEMMA CountType ==
    ASSUME NEW S, S \subseteq Users PROVE IsFiniteSet(S) /\ Cardinality(S) \in Nat
BY UsersAssumption, FS_Subset, FS_CardinalityType

\* A request begins.
LEMMA TypedBegin ==
    ASSUME Typed, NEW w \in Workers, NEW l \in Labels, NEW q \in Request,
           Begin(w, q), Goto(w, l), Carries(l, q), UNCHANGED tables, row' \in [Workers -> ContentRow]
    PROVE  Typed'
<1>1. pc' \in [Workers -> Labels] /\ req' \in [Workers -> Request \cup {NoReq}] /\ Carried'
  BY TypedStep DEF Begin, Goto
<1>2. calm' \in BOOLEAN /\ alone' \subseteq Workers
  BY DEF Begin, Typed, TypeOK
<1> QED BY <1>1, <1>2 DEF Begin, tables, Typed, TypeOK

LEMMA AskedTyped ==
    ASSUME NEW u \in Users, NEW i \in Items, NEW t \in Types, NEW l \in BOOLEAN
    PROVE  /\ Asked(u, i, t, l) \in Request /\ Asked(u, i, t, l).user = u /\ Asked(u, i, t, l).type = t
           /\ Asked(u, i, t, l).item = i /\ Asked(u, i, t, l).found = NoReaction
BY DEF Asked, NoReq, Request, Status

\* The request inserts a reaction, or goes on with one that it found.
LEMMA ReactCases ==
    ASSUME NEW w \in Workers, BeginReact(w)
    PROVE  \E u \in Users, i \in Items, t \in Types, l \in BOOLEAN :
              \/ Begin(w, Asked(u, i, t, l)) /\ Goto(w, "insert")
              \/ \E r \in Matches(u, i, l) :
                    /\ Begin(w, [Asked(u, i, t, l) EXCEPT !.found = r, !.on = rea[r].item])
                    /\ Goto(w, IF rea[r].type = t THEN "delete" ELSE "retype")
BY ZenonT(60) DEF BeginReact

LEMMA BeginReactTyped == ASSUME Typed, NEW w \in Workers, BeginReact(w) PROVE Typed'
<1>1. PICK u \in Users, i \in Items, t \in Types, l \in BOOLEAN :
        \/ Begin(w, Asked(u, i, t, l)) /\ Goto(w, "insert")
        \/ \E r \in Matches(u, i, l) :
              /\ Begin(w, [Asked(u, i, t, l) EXCEPT !.found = r, !.on = rea[r].item])
              /\ Goto(w, IF rea[r].type = t THEN "delete" ELSE "retype")
  BY ReactCases
<1> DEFINE q == Asked(u, i, t, l)
<1>2. q \in Request /\ q.user = u /\ q.type = t
  BY AskedTyped
<1>3. UNCHANGED tables /\ row' \in [Workers -> ContentRow]
  BY DEF BeginReact, Typed, TypeOK
<1>4. CASE Begin(w, q) /\ Goto(w, "insert")
  <2>1. Carries("insert", q) /\ "insert" \in Labels
    BY <1>2 DEF Carries, Labels
  <2> HIDE DEF q
  <2> QED BY <1>2, <1>3, <1>4, <2>1, TypedBegin
<1>5. CASE ~(Begin(w, q) /\ Goto(w, "insert"))
  <2>1. PICK r \in Matches(u, i, l) :
           /\ Begin(w, [q EXCEPT !.found = r, !.on = rea[r].item])
           /\ Goto(w, IF rea[r].type = t THEN "delete" ELSE "retype")
    BY <1>1, <1>5
  <2>2. r \in Reactions /\ rea[r].item \in Items
    BY DEF Matches, Exists, Typed, TypeOK, ReactionRow
  <2> DEFINE p == [q EXCEPT !.found = r, !.on = rea[r].item]
             m == IF rea[r].type = t THEN "delete" ELSE "retype"
  <2>3. p \in Request /\ p.found = r /\ p.on = rea[r].item /\ p.type = t
    BY <1>2, <2>2 DEF Request
  <2>4. m \in Labels /\ Carries(m, p)
    BY <2>2, <2>3 DEF Labels, Carries
  <2>5. Begin(w, p) /\ Goto(w, m)
    BY <2>1
  <2> HIDE DEF p, m, q
  <2> QED BY <1>3, <2>3, <2>4, <2>5, TypedBegin
<1> QED BY <1>4, <1>5

LEMMA InsertTyped == ASSUME Typed, NEW w \in Workers, Insert(w) PROVE Typed'
<1>1. pc[w] = "insert" /\ UNCHANGED <<item, feed, rep, spoilt, calm, fresh>> /\ req[w] \in Request
      /\ req[w].user \in Users /\ req[w].type \in Types
  BY DEF Insert, Typed, Carried, Carries
<1>2. CASE Finish(w) /\ UNCHANGED rea
  BY <1>1, <1>2, TypedFinish DEF Typed, TypeOK
<1>3. CASE ~(Finish(w) /\ UNCHANGED rea)
  <2>1. PICK r \in Reactions :
           rea' = [rea EXCEPT ![r] = [user |-> req[w].user, item |-> req[w].item,
                                      type |-> req[w].type, legacy |-> req[w].legacy]]
    BY <1>3 DEF Insert
  <2>2. ThenIf(req[w].item \in Counted, w, "count")
    BY <1>3 DEF Insert
  <2>3. rea' \in [Reactions -> ReactionRow \cup {NoRow}]
    <3>1. req[w].item \in Items /\ req[w].legacy \in BOOLEAN
      BY <1>1 DEF Request
    <3> QED BY <1>1, <2>1, <3>1 DEF Typed, TypeOK, ReactionRow
  <2>4. "count" \in Labels /\ req[w].item \in Items
        /\ (req[w].item \in Counted => Carries("count", Rest(w)))
    BY <1>1, RestTyped DEF Labels, Carries, Request
  <2> QED BY <1>1, <2>2, <2>3, <2>4, TypedThen DEF Typed, TypeOK
<1> QED BY <1>2, <1>3

LEMMA CountTyped == ASSUME Typed, NEW w \in Workers, Count(w) PROVE Typed'
<1>1. pc[w] = "count" /\ UNCHANGED <<feed, rea, rep, spoilt, calm, fresh>> /\ req[w] \in Request
      /\ ThenIf(req[w].item \in Shown, w, "refresh") /\ req[w].item \in Items
  BY DEF Count, Typed, Carried, Carries, Request
<1>2. item' \in [Items -> ContentRow]
  BY <1>1 DEF Count, Typed, TypeOK, ContentRow
<1>3. "refresh" \in Labels /\ (req[w].item \in Shown => Carries("refresh", Rest(w)))
  BY <1>1, RestTyped DEF Labels, Carries
<1> QED BY <1>1, <1>2, <1>3, TypedThen DEF Typed, TypeOK

LEMMA RefreshTyped == ASSUME Typed, NEW w \in Workers, Refresh(w) PROVE Typed'
<1>1. Carries("show", req[w]) /\ "show" \in Labels /\ req[w].item \in Items
  BY DEF Refresh, Typed, Carried, Carries, Labels, Shown
<1>2. row' \in [Workers -> ContentRow]
  BY <1>1 DEF Refresh, Typed, TypeOK
<1> QED BY <1>1, <1>2, TypedOnward DEF Refresh, tables, history, Typed, TypeOK

LEMMA ShowTyped == ASSUME Typed, NEW w \in Workers, Show(w) PROVE Typed'
<1>1. req[w].item \in Items /\ row[w].reactions \in Nat
  BY DEF Show, Typed, Carried, Carries, Shown, TypeOK, ContentRow
<1>2. feed' \in [Items -> Nat]
  BY <1>1 DEF Show, Typed, TypeOK
<1> QED BY <1>2, TypedFinish DEF Show, Typed, TypeOK

LEMMA RemoveTyped ==
    ASSUME Typed, NEW r \in Reactions, NEW i \in Items, Remove(r, i)
    PROVE  /\ item' \in [Items -> ContentRow] /\ feed' \in [Items -> Nat]
           /\ rea' \in [Reactions -> ReactionRow \cup {NoRow}]
<1>1. CASE i \in Counted /\ item[i].reactions > 0
  <2>1. item[i].reactions - 1 \in Nat
    BY <1>1 DEF Typed, TypeOK, ContentRow
  <2>2. /\ rea' = [rea EXCEPT ![r] = NoRow]
        /\ item' = [item EXCEPT ![i].reactions = item[i].reactions - 1]
        /\ feed' = IF i \in Shown THEN [feed EXCEPT ![i] = item[i].reactions - 1] ELSE feed
    BY <1>1 DEF Remove
  <2>3. item' \in [Items -> ContentRow]
    BY <2>1, <2>2 DEF Typed, TypeOK, ContentRow
  <2>4. feed' \in [Items -> Nat]
    BY <2>1, <2>2 DEF Typed, TypeOK
  <2>5. rea' \in [Reactions -> ReactionRow \cup {NoRow}]
    BY <2>2 DEF Typed, TypeOK
  <2> QED BY <2>3, <2>4, <2>5
<1>2. CASE ~(i \in Counted /\ item[i].reactions > 0)
  BY <1>2 DEF Remove, Typed, TypeOK
<1> QED BY <1>1, <1>2

LEMMA DeleteTyped == ASSUME Typed, NEW w \in Workers, Delete(w) PROVE Typed'
<1>1. req[w].found \in Reactions /\ req[w].on \in Items
  BY DEF Delete, Typed, Carried, Carries
<1> QED BY <1>1, RemoveTyped, TypedFinish DEF Delete, Typed, TypeOK

LEMMA RetypeTyped == ASSUME Typed, NEW w \in Workers, Retype(w) PROVE Typed'
<1>1. req[w].found \in Reactions /\ req[w].type \in Types
  BY DEF Retype, Typed, Carried, Carries
<1>2. rea' \in [Reactions -> ReactionRow \cup {NoRow}]
  BY <1>1 DEF Retype, Typed, TypeOK, Exists, ReactionRow
<1> QED BY <1>2, TypedFinish DEF Retype, Typed, TypeOK

LEMMA BeginReportTyped == ASSUME Typed, NEW w \in Workers, BeginReport(w) PROVE Typed'
<1>1. PICK u \in Users, i \in Reportable :
         Begin(w, [NoReq EXCEPT !.user = u, !.item = i])
  BY DEF BeginReport
<1> DEFINE q == [NoReq EXCEPT !.user = u, !.item = i]
<1>2. q \in Request /\ Carries("insertReport", q) /\ "insertReport" \in Labels
  BY DEF NoReq, Request, Status, Carries, Labels, Reportable
<1>3. Begin(w, q) /\ Goto(w, "insertReport") /\ UNCHANGED tables /\ row' \in [Workers -> ContentRow]
  BY <1>1 DEF BeginReport, Typed, TypeOK
<1> HIDE DEF q
<1> QED BY <1>2, <1>3, TypedBegin

LEMMA InsertReportTyped == ASSUME Typed, NEW w \in Workers, InsertReport(w) PROVE Typed'
<1>1. req[w].user \in Users /\ req[w].item \in Items /\ UNCHANGED <<item, feed, rea, spoilt, calm>>
  BY DEF InsertReport, Typed, Carried, Carries, Request
<1>2. CASE Finish(w) /\ UNCHANGED <<rep, fresh>>
  BY <1>1, <1>2, TypedFinish DEF Typed, TypeOK
<1>3. CASE ~(Finish(w) /\ UNCHANGED <<rep, fresh>>)
  <2>0. /\ rep' = [rep EXCEPT ![<<req[w].user, req[w].item>>] = "open"]
        /\ fresh' = fresh \ {req[w].item}
        /\ ThenIf(TRUE, w, "loadContent")
    BY <1>3 DEF InsertReport, ThenIf
  <2>1. rep' \in [Users \X Items -> Status]
    BY <1>1, <2>0 DEF Typed, TypeOK, Status
  <2>2. Carries("loadContent", Rest(w)) /\ "loadContent" \in Labels
    BY <1>1, RestTyped DEF Carries, Labels
  <2> QED BY <1>1, <2>0, <2>1, <2>2, TypedThen DEF Typed, TypeOK
<1> QED BY <1>2, <1>3

LEMMA BeginModerateTyped == ASSUME Typed, NEW w \in Workers, BeginModerate(w) PROVE Typed'
<1>1. PICK u \in Users, i \in Reportable, s \in {"open", "closed"} :
         Begin(w, [NoReq EXCEPT !.user = u, !.item = i, !.to = s])
  BY DEF BeginModerate
<1> DEFINE q == [NoReq EXCEPT !.user = u, !.item = i, !.to = s]
<1>2. q \in Request /\ Carries("saveReport", q) /\ "saveReport" \in Labels
  BY DEF NoReq, Request, Status, Carries, Labels, Reportable
<1>3. Begin(w, q) /\ Goto(w, "saveReport") /\ UNCHANGED tables /\ row' \in [Workers -> ContentRow]
  BY <1>1 DEF BeginModerate, Typed, TypeOK
<1> HIDE DEF q
<1> QED BY <1>2, <1>3, TypedBegin

LEMMA SaveReportTyped == ASSUME Typed, NEW w \in Workers, SaveReport(w) PROVE Typed'
<1>1. req[w].user \in Users /\ req[w].item \in Items /\ req[w].to \in Status
      /\ UNCHANGED <<item, feed, rea, spoilt, calm>> /\ fresh' = fresh \ {req[w].item}
  BY DEF SaveReport, Typed, Carried, Carries, Request
<1>2. rep' \in [Users \X Items -> Status]
  BY <1>1 DEF SaveReport, Typed, TypeOK
<1>3. Carries("loadContent", Rest(w)) /\ "loadContent" \in Labels
  BY <1>1, RestTyped DEF Carries, Labels
<1>4. PICK more \in BOOLEAN : ThenIf(more, w, "loadContent")
  BY DEF SaveReport, ThenIf
<1> QED BY <1>1, <1>2, <1>3, <1>4, TypedThen DEF Typed, TypeOK

LEMMA LoadContentTyped == ASSUME Typed, NEW w \in Workers, LoadContent(w) PROVE Typed'
<1>1. Carries("countReports", req[w]) /\ "countReports" \in Labels /\ req[w].item \in Items
  BY DEF LoadContent, Typed, Carried, Carries, Labels, Request
<1>2. row' \in [Workers -> ContentRow]
  BY <1>1 DEF LoadContent, Typed, TypeOK
<1> QED BY <1>1, <1>2, TypedOnward DEF LoadContent, tables, history, Typed, TypeOK

LEMMA CountReportsTyped == ASSUME Typed, NEW w \in Workers, CountReports(w) PROVE Typed'
<1>1. Carries("saveFlags", req[w]) /\ "saveFlags" \in Labels
  BY DEF CountReports, Typed, Carried, Carries, Labels
<1>2. PICK n \in Nat : row' = [row EXCEPT ![w].flagged = n > 0, ![w].reports = n]
  <2>1. Cardinality(OpenReports(req[w].item)) \in Nat
    BY CountType DEF OpenReports
  <2> QED BY <2>1 DEF CountReports
<1>3. row' \in [Workers -> ContentRow]
  <2> DEFINE f == n > 0
  <2>1. f \in BOOLEAN
    OBVIOUS
  <2>2. row' = [row EXCEPT ![w].flagged = f, ![w].reports = n]
    BY <1>2
  <2> HIDE DEF f
  <2> QED BY <2>1, <2>2 DEF Typed, TypeOK, ContentRow
<1> QED BY <1>1, <1>3, TypedOnward DEF CountReports, tables, history, Typed, TypeOK

LEMMA SaveFlagsTyped == ASSUME Typed, NEW w \in Workers, SaveFlags(w) PROVE Typed'
<1>1. req[w] \in Request /\ req[w].item \in Items
  BY DEF SaveFlags, Typed, Carried, Carries, Request
<1>2. item' \in [Items -> ContentRow]
  BY <1>1 DEF SaveFlags, Typed, TypeOK, ContentRow
<1>3. fresh' \subseteq Items
  BY <1>1 DEF SaveFlags, Typed, TypeOK
<1>4. "show" \in Labels /\ (req[w].item \in Shown => Carries("show", Rest(w)))
  BY <1>1, RestTyped DEF Labels, Carries
<1> QED BY <1>1, <1>2, <1>3, <1>4, TypedThen DEF SaveFlags, ThenShow, Typed, TypeOK

LEMMA BeginEditTyped == ASSUME Typed, NEW w \in Workers, BeginEdit(w) PROVE Typed'
<1>1. PICK i \in Counted \ spoilt :
         Begin(w, [NoReq EXCEPT !.item = i]) /\ row' = [row EXCEPT ![w] = item[i]]
  BY DEF BeginEdit
<1> DEFINE q == [NoReq EXCEPT !.item = i]
<1>2. q \in Request /\ Carries("saveItem", q) /\ "saveItem" \in Labels
  BY DEF NoReq, Request, Status, Carries, Labels, Counted
<1>3. Begin(w, q) /\ Goto(w, "saveItem") /\ UNCHANGED tables /\ row' \in [Workers -> ContentRow]
  BY <1>1 DEF BeginEdit, Typed, TypeOK, Counted
<1> HIDE DEF q
<1> QED BY <1>2, <1>3, TypedBegin

LEMMA SaveItemTyped == ASSUME Typed, NEW w \in Workers, SaveItem(w) PROVE Typed'
<1>1. req[w] \in Request /\ req[w].item \in Items
  BY DEF SaveItem, Typed, Carried, Carries, Request
<1>2. item' \in [Items -> ContentRow] /\ spoilt' \subseteq Items /\ fresh' \subseteq Items
  BY <1>1 DEF SaveItem, Typed, TypeOK
<1>3. "show" \in Labels /\ (req[w].item \in Shown => Carries("show", Rest(w)))
  BY <1>1, RestTyped DEF Labels, Carries
<1> QED BY <1>1, <1>2, <1>3, TypedThen DEF SaveItem, ThenShow, Typed, TypeOK

LEMMA AdminTyped == ASSUME Typed, AdminDeleteReaction \/ AdminDeleteReport PROVE Typed'
<1>0. calm' \in BOOLEAN /\ alone' = {} /\ UNCHANGED <<spoilt, pc, req, row>>
  BY DEF AdminDeleteReaction, AdminDeleteReport, Typed, TypeOK, Idle
<1>1. CASE AdminDeleteReaction
  <2>1. PICK r \in Reactions : Exists(r) /\ Remove(r, rea[r].item)
    BY <1>1 DEF AdminDeleteReaction
  <2>2. rea[r].item \in Items
    BY <2>1 DEF Exists, Typed, TypeOK, ReactionRow
  <2>3. /\ item' \in [Items -> ContentRow] /\ feed' \in [Items -> Nat]
        /\ rea' \in [Reactions -> ReactionRow \cup {NoRow}]
    BY <2>1, <2>2, RemoveTyped
  <2> QED BY <1>0, <1>1, <2>3 DEF AdminDeleteReaction, Typed, TypeOK, Carried
<1>2. CASE AdminDeleteReport
  <2>1. PICK u \in Users, i \in Items :
          /\ rep' = [rep EXCEPT ![<<u, i>>] = "none"]
          /\ LET n == Cardinality(OpenReports(i) \ {u})
             IN item' = [item EXCEPT ![i].flagged = n > 0, ![i].reports = n]
          /\ feed' = IF i \in Shown THEN [feed EXCEPT ![i] = item[i].reactions] ELSE feed
          /\ fresh' = IF Idle THEN fresh \cup {i} ELSE fresh \ {i}
    BY <1>2 DEF AdminDeleteReport
  <2>2. Cardinality(OpenReports(i) \ {u}) \in Nat
    BY CountType DEF OpenReports
  <2>3. item' \in [Items -> ContentRow]
    <3>1. PICK n \in Nat : item' = [item EXCEPT ![i].flagged = n > 0, ![i].reports = n]
      BY <2>1, <2>2
    <3> DEFINE f == n > 0
    <3>2. f \in BOOLEAN
      OBVIOUS
    <3>3. item' = [item EXCEPT ![i].flagged = f, ![i].reports = n]
      BY <3>1
    <3> HIDE DEF f
    <3> QED BY <3>2, <3>3, ZenonT(60) DEF Typed, TypeOK, ContentRow
  <2>5. feed' \in [Items -> Nat] /\ fresh' \subseteq Items
    BY <2>1 DEF Typed, TypeOK, ContentRow
  <2>4. rep' \in [Users \X Items -> Status]
    BY <2>1 DEF Typed, TypeOK, Status
  <2> QED BY <1>0, <1>2, <2>3, <2>4, <2>5 DEF AdminDeleteReport, Typed, TypeOK, Carried
<1> QED BY <1>1, <1>2

LEMMA TypedNext == Typed /\ [Next]_vars => Typed'
<1> SUFFICES ASSUME Typed, [Next]_vars PROVE Typed'
  OBVIOUS
<1>1. ASSUME NEW w \in Workers, React(w) PROVE Typed'
  BY <1>1, BeginReactTyped, InsertTyped, CountTyped, RefreshTyped, ShowTyped, DeleteTyped,
     RetypeTyped DEF React
<1>2. ASSUME NEW w \in Workers, Moderate(w) PROVE Typed'
  BY <1>2, BeginReportTyped, InsertReportTyped, BeginModerateTyped, SaveReportTyped,
     LoadContentTyped, CountReportsTyped, SaveFlagsTyped DEF Moderate
<1>3. ASSUME NEW w \in Workers, Edit(w) PROVE Typed'
  BY <1>3, BeginEditTyped, SaveItemTyped DEF Edit
<1>4. ASSUME NEW w \in Workers, Abort(w) PROVE Typed'
  BY <1>4, TypedFinish DEF Abort, tables, Typed, TypeOK
<1>5. CASE UNCHANGED vars
  BY <1>5 DEF vars, Typed, TypeOK, Carried
<1> QED BY <1>1, <1>2, <1>3, <1>4, <1>5, AdminTyped DEF Next

LEMMA AlwaysTyped == Spec => []Typed
<1>1. Typed /\ [Next]_vars => Typed'
  BY TypedNext
<1> QED BY <1>1, TypedInit, PTL DEF Spec

\* Every row and every request stays well-formed; in particular no counter,
\* which a deletion decreases, falls below zero.
THEOREM TypeCorrect == Spec => []TypeOK
<1>1. Typed => TypeOK
  BY DEF Typed
<1> QED BY <1>1, AlwaysTyped, PTL

-----------------------------------------------------------------------------
(* NeverOvercounted: whoever has inserted a reaction and not yet counted   *)
(* it leaves the counter room, and a request deletes what it found or      *)
(* nothing.                                                                *)

Counting(i) == {w \in Workers : pc[w] = "count" /\ req[w].item = i}

Covered ==
    \A i \in Counted \ spoilt :
        item[i].reactions + Cardinality(Counting(i)) <= Cardinality(RowsOf(i))

Pointed ==
    \A w \in Workers :
        pc[w] = "delete" /\ Exists(req[w].found) => rea[req[w].found].item = req[w].on

CountInv == Covered /\ Pointed

LEMMA SizeTypes ==
    ASSUME NEW i
    PROVE  /\ IsFiniteSet(RowsOf(i)) /\ Cardinality(RowsOf(i)) \in Nat
           /\ IsFiniteSet(Counting(i)) /\ Cardinality(Counting(i)) \in Nat
<1>1. RowsOf(i) \subseteq Reactions /\ Counting(i) \subseteq Workers
  BY DEF RowsOf, Counting
<1> QED BY <1>1, ReactionsAssumption, WorkersAssumption, FS_Subset, FS_CardinalityType

LEMMA SizeTypesNext ==
    ASSUME NEW i
    PROVE  /\ IsFiniteSet(RowsOf(i)') /\ Cardinality(RowsOf(i)') \in Nat
           /\ IsFiniteSet(Counting(i)') /\ Cardinality(Counting(i)') \in Nat
<1>1. RowsOf(i)' \subseteq Reactions /\ Counting(i)' \subseteq Workers
  BY DEF RowsOf, Counting
<1> QED BY <1>1, ReactionsAssumption, WorkersAssumption, FS_Subset, FS_CardinalityType

\* The rows and their items stay as they are ...
RowsKept ==
    \A r \in Reactions : /\ Exists(r)' <=> Exists(r)
                         /\ Exists(r) => rea'[r].item = rea[r].item

\* ... and so do the counters, except those an edit spoils.
CountsKept ==
    /\ spoilt \subseteq spoilt'
    /\ \A i \in Items \ spoilt' : item'[i].reactions = item[i].reactions

LEMMA KeptRows == ASSUME RowsKept, NEW i PROVE RowsOf(i)' = RowsOf(i)
BY DEF RowsKept, RowsOf

LEMMA CoveredKept ==
    ASSUME Typed, Covered, RowsKept, CountsKept, NEW i \in Counted \ spoilt',
           Counting(i)' \subseteq Counting(i)
    PROVE  item'[i].reactions + Cardinality(Counting(i)') <= Cardinality(RowsOf(i)')
<1>1. Cardinality(Counting(i)') <= Cardinality(Counting(i))
  BY SizeTypes, FS_Subset
<1>2. item'[i].reactions = item[i].reactions /\ i \in Items /\ item[i].reactions \in Nat
      /\ i \in Counted \ spoilt
  BY DEF CountsKept, Counted, Typed, TypeOK, ContentRow
<1>3. item[i].reactions + Cardinality(Counting(i)) <= Cardinality(RowsOf(i))
  BY <1>2 DEF Covered
<1>4. RowsOf(i)' = RowsOf(i)
  BY KeptRows
<1> QED BY <1>1, <1>2, <1>3, <1>4, SizeTypes, SizeTypesNext

\* A worker goes on, or finishes, and neither inserts, counts nor deletes.
LEMMA CountStep ==
    ASSUME Typed, CountInv, NEW w \in Workers, NEW l, NEW q,
           pc' = [pc EXCEPT ![w] = l], req' = [req EXCEPT ![w] = q], l # "count",
           l = "delete" => q.found \in Reactions /\ (Exists(q.found) => rea[q.found].item = q.on),
           RowsKept, CountsKept
    PROVE  CountInv'
<1>0. pc \in [Workers -> Labels] /\ req \in [Workers -> Request \cup {NoReq}]
  BY DEF Typed, TypeOK
<1>1. ASSUME NEW i PROVE Counting(i)' \subseteq Counting(i)
  BY <1>0 DEF Counting
<1>2. Counted' = Counted
  BY DEF Counted
<1>3. Covered'
  BY <1>1, <1>2, CoveredKept DEF CountInv, Covered
<1>4. ASSUME NEW v \in Workers, pc'[v] = "delete", rea'[req'[v].found] # NoRow
      PROVE  rea'[req'[v].found].item = req'[v].on
  <2>1. CASE v = w
    <3>1. req'[v] = q /\ l = "delete" /\ q.found \in Reactions
      BY <1>0, <1>4, <2>1
    <3>2. Exists(q.found)'
      BY <1>4, <3>1 DEF Exists
    <3>3. Exists(q.found) /\ rea'[q.found].item = rea[q.found].item
      BY <3>1, <3>2 DEF RowsKept
    <3> QED BY <3>1, <3>3
  <2>2. CASE v # w
    <3>1. req'[v] = req[v] /\ pc[v] = "delete" /\ req[v].found \in Reactions
      BY <1>0, <1>4, <2>2 DEF Typed, Carried, Carries
    <3>2. PICK r \in Reactions : r = req[v].found
      BY <3>1
    <3>3. Exists(r)'
      BY <1>4, <3>1, <3>2 DEF Exists
    <3>4. Exists(r) /\ rea'[r].item = rea[r].item
      BY <3>3 DEF RowsKept
    <3> QED BY <3>1, <3>2, <3>4 DEF CountInv, Pointed
  <2> QED BY <2>1, <2>2
<1> QED BY <1>3, <1>4 DEF CountInv, Pointed, Exists

LEMMA CountThen ==
    ASSUME Typed, CountInv, NEW w \in Workers, NEW l, NEW more, ThenIf(more, w, l),
           l \notin {"count", "delete"}, RowsKept, CountsKept
    PROVE  CountInv'
<1>1. CASE more
  <2>1. pc' = [pc EXCEPT ![w] = l] /\ req' = [req EXCEPT ![w] = Rest(w)]
    BY <1>1 DEF ThenIf, GoOn, Goto
  <2> QED BY <2>1, CountStep
<1>2. CASE ~more
  BY <1>2, CountStep DEF ThenIf, Finish
<1> QED BY <1>1, <1>2

LEMMA CountFinish ==
    ASSUME Typed, CountInv, NEW w \in Workers, Finish(w), RowsKept, CountsKept
    PROVE  CountInv'
BY CountStep DEF Finish

LEMMA KeptSame ==
    /\ UNCHANGED rea => RowsKept
    /\ UNCHANGED <<item, spoilt>> => CountsKept
BY DEF RowsKept, CountsKept, Exists

\* The statements of requests that touch neither the rows nor the counters.
LEMMA CountBegin ==
    ASSUME Typed, CountInv, NEW w \in Workers, NEW l, NEW q, Begin(w, q), Goto(w, l),
           UNCHANGED tables, l # "count",
           l = "delete" => q.found \in Reactions /\ (Exists(q.found) => rea[q.found].item = q.on)
    PROVE  CountInv'
BY CountStep, KeptSame DEF Begin, Goto, tables

LEMMA CountBeginReact == ASSUME Typed, CountInv, NEW w \in Workers, BeginReact(w) PROVE CountInv'
<1>0. UNCHANGED tables
  BY DEF BeginReact
<1>1. PICK u \in Users, i \in Items, t \in Types, l \in BOOLEAN :
        \/ Begin(w, Asked(u, i, t, l)) /\ Goto(w, "insert")
        \/ \E r \in Matches(u, i, l) :
              /\ Begin(w, [Asked(u, i, t, l) EXCEPT !.found = r, !.on = rea[r].item])
              /\ Goto(w, IF rea[r].type = t THEN "delete" ELSE "retype")
  BY ReactCases
<1> DEFINE q == Asked(u, i, t, l)
<1>2. q \in Request
  BY AskedTyped
<1>4. CASE Begin(w, q) /\ Goto(w, "insert")
  <2> HIDE DEF q
  <2> QED BY <1>0, <1>4, CountBegin
<1>5. CASE ~(Begin(w, q) /\ Goto(w, "insert"))
  <2>1. PICK r \in Matches(u, i, l) :
           /\ Begin(w, [q EXCEPT !.found = r, !.on = rea[r].item])
           /\ Goto(w, IF rea[r].type = t THEN "delete" ELSE "retype")
    BY <1>1, <1>5
  <2> DEFINE p == [q EXCEPT !.found = r, !.on = rea[r].item]
             m == IF rea[r].type = t THEN "delete" ELSE "retype"
  <2>2. p.found = r /\ p.on = rea[r].item /\ r \in Reactions /\ m # "count"
    BY <1>2 DEF Request, Matches
  <2>3. Begin(w, p) /\ Goto(w, m)
    BY <2>1
  <2> HIDE DEF p, m, q
  <2> QED BY <1>0, <2>2, <2>3, CountBegin
<1> QED BY <1>4, <1>5

LEMMA CountBeginOther ==
    ASSUME Typed, CountInv, NEW w \in Workers, BeginReport(w) \/ BeginModerate(w) \/ BeginEdit(w)
    PROVE  CountInv'
<1>1. PICK q, l : Begin(w, q) /\ Goto(w, l) /\ l \in {"insertReport", "saveReport", "saveItem"}
      /\ UNCHANGED tables
  BY DEF BeginReport, BeginModerate, BeginEdit
<1> QED BY <1>1, CountBegin

LEMMA CountOnward ==
    ASSUME Typed, CountInv, NEW w \in Workers, NEW l, Goto(w, l), l \notin {"count", "delete"},
           UNCHANGED <<item, rea, spoilt, req>>
    PROVE  CountInv'
<1>1. req' = [req EXCEPT ![w] = req[w]]
  BY DEF Typed, TypeOK
<1> QED BY <1>1, CountStep, KeptSame DEF Goto

LEMMA RetypeRows == ASSUME Typed, NEW w \in Workers, Retype(w) PROVE RowsKept
<1>1. req[w].found \in Reactions
  BY DEF Retype, Typed, Carried, Carries
<1>2. PICK r \in Reactions : r = req[w].found
  BY <1>1
<1>3. RowsKept
  <2>1. CASE ~Exists(r)
    BY <1>2, <2>1, KeptSame DEF Retype
  <2>2. CASE Exists(r)
    <3>1. rea[r] \in ReactionRow /\ rea' = [rea EXCEPT ![r].type = req[w].type]
      BY <1>2, <2>2 DEF Retype, Exists, Typed, TypeOK
    <3>2. rea'[r].user = rea[r].user /\ rea'[r].item = rea[r].item
      BY <3>1 DEF ReactionRow, Typed, TypeOK
    <3>3. rea[r].user \in Users /\ NoRow.user = NoUser
      BY <3>1 DEF ReactionRow, NoRow
    <3>4. rea'[r] # NoRow
      BY <3>2, <3>3, UsersAssumption
    <3>5. \A s \in Reactions : s # r => rea'[s] = rea[s]
      BY <3>1 DEF Typed, TypeOK
    <3> QED BY <2>2, <3>2, <3>4, <3>5 DEF RowsKept, Exists
  <2> QED BY <2>1, <2>2
<1> QED BY <1>3

LEMMA CountRetype == ASSUME Typed, CountInv, NEW w \in Workers, Retype(w) PROVE CountInv'
BY RetypeRows, CountFinish, KeptSame DEF Retype

LEMMA CountSaves ==
    ASSUME Typed, CountInv, NEW w \in Workers, SaveFlags(w) \/ SaveItem(w) PROVE CountInv'
<1>1. req[w].item \in Items /\ UNCHANGED rea
      /\ ThenIf(req[w].item \in Shown, w, "show")
  BY DEF SaveFlags, SaveItem, ThenShow, Typed, Carried, Carries, Request
<1>2. CountsKept
  <2>1. CASE SaveFlags(w)
    BY <1>1, <2>1 DEF SaveFlags, CountsKept, Typed, TypeOK, ContentRow
  <2>2. CASE SaveItem(w)
    BY <1>1, <2>2 DEF SaveItem, CountsKept, Typed, TypeOK
  <2> QED BY <2>1, <2>2
<1> QED BY <1>1, <1>2, KeptSame, CountThen


\* A new row leaves its item one more reaction, and one to be counted.
LEMMA CountInsert == ASSUME Typed, CountInv, NEW w \in Workers, Insert(w) PROVE CountInv'
<1>0. pc[w] = "insert" /\ UNCHANGED <<item, spoilt>> /\ req[w].item \in Items
      /\ req[w].user \in Users
  BY DEF Insert, Typed, Carried, Carries, Request
<1>1. CASE Finish(w) /\ UNCHANGED rea
  BY <1>0, <1>1, CountFinish, KeptSame
<1>2. CASE ~(Finish(w) /\ UNCHANGED rea)
  <2>1. PICK r \in Reactions :
           /\ ~Exists(r) /\ \A v \in Workers : req[v].found # r
           /\ rea' = [rea EXCEPT ![r] = [user |-> req[w].user, item |-> req[w].item,
                                         type |-> req[w].type, legacy |-> req[w].legacy]]
    BY <1>2 DEF Insert
  <2>2. ThenIf(req[w].item \in Counted, w, "count")
    BY <1>2 DEF Insert
  <2>3. PICK j \in Items : j = req[w].item
    BY <1>0
  <2>4. /\ rea'[r].item = j /\ rea'[r] # NoRow
        /\ \A s \in Reactions : s # r => rea'[s] = rea[s]
    BY <1>0, <2>1, <2>3, UsersAssumption DEF Typed, TypeOK, NoRow
  <2>5. RowsOf(j)' = RowsOf(j) \cup {r} /\ r \notin RowsOf(j)
    BY <2>1, <2>4 DEF RowsOf, Exists
  <2>6. \A i \in Items : i # j => RowsOf(i)' = RowsOf(i)
    BY <2>1, <2>4 DEF RowsOf, Exists
  <2>7. Cardinality(RowsOf(j)') = Cardinality(RowsOf(j)) + 1
    BY <2>5, SizeTypes, FS_AddElement
  <2>8. /\ \A i \in Items : i # j => Counting(i)' \subseteq Counting(i)
        /\ j \in Counted => Counting(j)' = Counting(j) \cup {w} /\ w \notin Counting(j)
    BY <1>0, <2>2, <2>3, RestTyped DEF Counting, ThenIf, GoOn, Goto, Finish, Typed, TypeOK
  <2>9. ASSUME NEW i \in Counted \ spoilt
        PROVE  item[i].reactions + Cardinality(Counting(i)') <= Cardinality(RowsOf(i)')
    <3>1. item[i].reactions + Cardinality(Counting(i)) <= Cardinality(RowsOf(i)) /\ i \in Items
          /\ item[i].reactions \in Nat
      BY DEF CountInv, Covered, Counted, Typed, TypeOK, ContentRow
    <3>2. CASE i = j
      <4>1. Cardinality(Counting(j)') = Cardinality(Counting(j)) + 1
        BY <2>8, <3>2, SizeTypes, FS_AddElement
      <4> QED BY <2>7, <3>1, <3>2, <4>1, SizeTypes
    <3>3. CASE i # j
      <4>1. Cardinality(Counting(i)') <= Cardinality(Counting(i))
        BY <2>8, <3>1, <3>3, SizeTypes, FS_Subset
      <4> QED BY <2>6, <3>1, <3>3, <4>1, SizeTypes, SizeTypesNext
    <3> QED BY <3>2, <3>3
  <2>10. Covered'
    BY <1>0, <2>9 DEF Covered, Counted
  <2>11. Pointed'
    <3>1. ASSUME NEW v \in Workers, pc'[v] = "delete", rea'[req'[v].found] # NoRow
          PROVE  rea'[req'[v].found].item = req'[v].on
      <4>1. v # w /\ pc[v] = "delete" /\ req'[v] = req[v]
        BY <1>0, <2>2, <3>1 DEF ThenIf, GoOn, Goto, Finish, Typed, TypeOK
      <4>2. req[v].found \in Reactions /\ req[v].found # r
        BY <2>1, <4>1 DEF Typed, Carried, Carries
      <4>3. rea'[req[v].found] = rea[req[v].found]
        BY <2>4, <4>2
      <4> QED BY <3>1, <4>1, <4>3 DEF CountInv, Pointed, Exists
    <3> QED BY <3>1 DEF Pointed, Exists
  <2> QED BY <2>10, <2>11 DEF CountInv
<1> QED BY <1>1, <1>2

\* Counting it uses that room up.
LEMMA CountCount == ASSUME Typed, CountInv, NEW w \in Workers, Count(w) PROVE CountInv'
<1>0. pc[w] = "count" /\ UNCHANGED <<rea, spoilt>> /\ req[w].item \in Items
      /\ ThenIf(req[w].item \in Shown, w, "refresh")
  BY DEF Count, Typed, Carried, Carries, Counted
<1>1. PICK j \in Items : j = req[w].item
  BY <1>0
<1>2. /\ item'[j].reactions = item[j].reactions + 1
      /\ \A i \in Items : i # j => item'[i] = item[i]
  BY <1>1 DEF Count, Typed, TypeOK, ContentRow
<1>3. /\ \A i \in Items : i # j => Counting(i)' \subseteq Counting(i)
      /\ Counting(j)' = Counting(j) \ {w} /\ w \in Counting(j)
  BY <1>0, <1>1, RestTyped DEF Counting, ThenIf, GoOn, Goto, Finish, Typed, TypeOK
<1>4. \A i \in Items : RowsOf(i)' = RowsOf(i)
  BY <1>0 DEF RowsOf, Exists
<1>5. ASSUME NEW i \in Counted \ spoilt
      PROVE  item'[i].reactions + Cardinality(Counting(i)') <= Cardinality(RowsOf(i)')
  <2>1. item[i].reactions + Cardinality(Counting(i)) <= Cardinality(RowsOf(i)) /\ i \in Items
        /\ item[i].reactions \in Nat
    BY DEF CountInv, Covered, Counted, Typed, TypeOK, ContentRow
  <2>2. CASE i = j
    <3>1. Cardinality(Counting(j)') = Cardinality(Counting(j)) - 1
      BY <1>3, SizeTypes, FS_RemoveElement
    <3> QED BY <1>2, <1>4, <2>1, <2>2, <3>1, SizeTypes
  <2>3. CASE i # j
    <3>1. Cardinality(Counting(i)') <= Cardinality(Counting(i))
      BY <1>3, <2>1, <2>3, SizeTypes, FS_Subset
    <3> QED BY <1>2, <1>4, <2>1, <2>3, <3>1, SizeTypes, SizeTypesNext
  <2> QED BY <2>2, <2>3
<1>6. Covered'
  BY <1>0, <1>5 DEF Covered, Counted
<1>7. Pointed'
  <2>1. \A v \in Workers : pc'[v] = "delete" => pc[v] = "delete" /\ req'[v] = req[v]
    BY <1>0 DEF ThenIf, GoOn, Goto, Finish, Typed, TypeOK
  <2> QED BY <1>0, <2>1 DEF CountInv, Pointed, Exists
<1> QED BY <1>6, <1>7 DEF CountInv

\* A removal of a row of item j, or of one that is gone, while no worker
\* begins to count.
LEMMA CountRemove ==
    ASSUME Typed, CountInv, NEW r \in Reactions, NEW j \in Items, Remove(r, j),
           Exists(r) => rea[r].item = j, UNCHANGED spoilt,
           \A v \in Workers : pc'[v] # "idle" => pc'[v] = pc[v] /\ req'[v] = req[v]
    PROVE  CountInv'
<1>1. CASE j \in Counted /\ item[j].reactions > 0
  <2>0. rea' = [rea EXCEPT ![r] = NoRow] /\ item' = [item EXCEPT ![j].reactions = @ - 1]
    BY <1>1 DEF Remove
  <2>1. /\ item'[j].reactions = item[j].reactions - 1
        /\ \A i \in Items : i # j => item'[i] = item[i]
    BY <2>0 DEF Typed, TypeOK, ContentRow
  <2>2. rea'[r] = NoRow /\ \A s \in Reactions : s # r => rea'[s] = rea[s]
    BY <2>0 DEF Typed, TypeOK
  <2>3. /\ \A i \in Items : i # j => RowsOf(i)' = RowsOf(i)
        /\ RowsOf(j)' = RowsOf(j) \ {r}
    BY <2>2 DEF RowsOf, Exists
  <2>4. Cardinality(RowsOf(j)') >= Cardinality(RowsOf(j)) - 1
    <3>1. Cardinality(RowsOf(j) \ {r})
             = IF r \in RowsOf(j) THEN Cardinality(RowsOf(j)) - 1 ELSE Cardinality(RowsOf(j))
      BY SizeTypes, FS_RemoveElement
    <3> QED BY <2>3, <3>1, SizeTypes
  <2>5. \A i \in Items : Counting(i)' \subseteq Counting(i)
    BY DEF Counting
  <2>6. ASSUME NEW i \in Counted \ spoilt
        PROVE  item'[i].reactions + Cardinality(Counting(i)') <= Cardinality(RowsOf(i)')
    <3>1. item[i].reactions + Cardinality(Counting(i)) <= Cardinality(RowsOf(i)) /\ i \in Items
          /\ item[i].reactions \in Nat
      BY DEF CountInv, Covered, Counted, Typed, TypeOK, ContentRow
    <3>2. Cardinality(Counting(i)') <= Cardinality(Counting(i))
      BY <2>5, <3>1, SizeTypes, FS_Subset
    <3>3. CASE i = j
      BY <2>1, <2>4, <3>1, <3>2, <3>3, SizeTypes, SizeTypesNext
    <3>4. CASE i # j
      BY <2>1, <2>3, <3>1, <3>2, <3>4, SizeTypes, SizeTypesNext
    <3> QED BY <3>3, <3>4
  <2>7. Covered'
    BY <2>6 DEF Covered, Counted
  <2>8. Pointed'
    <3>1. ASSUME NEW v \in Workers, pc'[v] = "delete", rea'[req'[v].found] # NoRow
          PROVE  rea'[req'[v].found].item = req'[v].on
      <4>1. pc[v] = "delete" /\ req'[v] = req[v] /\ req[v].found \in Reactions
        BY <3>1 DEF Typed, Carried, Carries
      <4>2. rea'[req[v].found] = rea[req[v].found]
        BY <2>2, <3>1, <4>1
      <4> QED BY <3>1, <4>1, <4>2 DEF CountInv, Pointed, Exists
    <3> QED BY <3>1 DEF Pointed, Exists
  <2> QED BY <2>7, <2>8 DEF CountInv
<1>2. CASE ~(j \in Counted /\ item[j].reactions > 0)
  <2>1. UNCHANGED <<rea, item>>
    BY <1>2 DEF Remove
  <2>2. Pointed'
    BY <2>1 DEF CountInv, Pointed, Exists
  <2>3. \A i : Counting(i)' \subseteq Counting(i)
    BY DEF Counting
  <2>4. Covered'
    BY <2>1, <2>3, CoveredKept, KeptSame DEF CountInv, Covered, Counted
  <2> QED BY <2>2, <2>4 DEF CountInv
<1> QED BY <1>1, <1>2

LEMMA CountDelete == ASSUME Typed, CountInv, NEW w \in Workers, Delete(w) PROVE CountInv'
<1>1. req[w].found \in Reactions /\ req[w].on \in Items /\ pc[w] = "delete"
  BY DEF Delete, Typed, Carried, Carries
<1>2. PICK r \in Reactions, j \in Items : r = req[w].found /\ j = req[w].on
  BY <1>1
<1>3. Remove(r, j) /\ UNCHANGED spoilt /\ (Exists(r) => rea[r].item = j)
  BY <1>1, <1>2 DEF Delete, CountInv, Pointed
<1>4. \A v \in Workers : pc'[v] # "idle" => pc'[v] = pc[v] /\ req'[v] = req[v]
  BY DEF Delete, Finish, Typed, TypeOK
<1> QED BY <1>3, <1>4, CountRemove

LEMMA CountAdmin == ASSUME Typed, CountInv, AdminDeleteReaction \/ AdminDeleteReport PROVE CountInv'
<1>1. CASE AdminDeleteReaction
  <2>1. PICK r \in Reactions : Exists(r) /\ Remove(r, rea[r].item)
    BY <1>1 DEF AdminDeleteReaction
  <2>2. PICK j \in Items : j = rea[r].item
    BY <2>1 DEF Exists, Typed, TypeOK, ReactionRow
  <2>3. UNCHANGED <<spoilt, pc, req>>
    BY <1>1 DEF AdminDeleteReaction
  <2> QED BY <2>1, <2>2, <2>3, CountRemove
<1>2. CASE AdminDeleteReport
  <2>1. UNCHANGED <<rea, spoilt, pc, req>>
    BY <1>2 DEF AdminDeleteReport
  <2>2. \A i \in Items : item'[i].reactions = item[i].reactions
    BY <1>2 DEF AdminDeleteReport, Typed, TypeOK, ContentRow
  <2>3. CountsKept
    BY <2>1, <2>2 DEF CountsKept
  <2>4. \A i : Counting(i)' \subseteq Counting(i)
    BY <2>1 DEF Counting
  <2>5. Covered'
    BY <2>1, <2>3, <2>4, CoveredKept, KeptSame DEF CountInv, Covered, Counted
  <2>6. Pointed'
    BY <2>1 DEF CountInv, Pointed, Exists
  <2> QED BY <2>5, <2>6 DEF CountInv
<1> QED BY <1>1, <1>2

LEMMA CountNext == Typed /\ CountInv /\ [Next]_vars => CountInv'
<1> SUFFICES ASSUME Typed, CountInv, [Next]_vars PROVE CountInv'
  OBVIOUS
<1>1. ASSUME NEW w \in Workers, React(w) PROVE CountInv'
  <2>1. CASE Refresh(w)
    BY <2>1, CountOnward DEF Refresh, tables, history
  <2>2. CASE Show(w)
    BY <2>2, CountFinish, KeptSame DEF Show
  <2> QED BY <1>1, <2>1, <2>2, CountBeginReact, CountInsert, CountCount, CountDelete, CountRetype
          DEF React
<1>2. ASSUME NEW w \in Workers, Moderate(w) PROVE CountInv'
  <2>1. CASE InsertReport(w) \/ SaveReport(w)
    <3>1. UNCHANGED <<item, rea, spoilt>>
      BY <2>1 DEF InsertReport, SaveReport
    <3>2. PICK more \in BOOLEAN : ThenIf(more, w, "loadContent")
      BY <2>1 DEF InsertReport, SaveReport, ThenIf
    <3> QED BY <3>1, <3>2, CountThen, KeptSame
  <2>3. CASE LoadContent(w)
    BY <2>3, CountOnward DEF LoadContent, tables, history
  <2>4. CASE CountReports(w)
    BY <2>4, CountOnward DEF CountReports, tables, history
  <2> QED BY <1>2, <2>1, <2>3, <2>4, CountBeginOther, CountSaves DEF Moderate
<1>3. ASSUME NEW w \in Workers, Edit(w) PROVE CountInv'
  BY <1>3, CountBeginOther, CountSaves DEF Edit
<1>4. ASSUME NEW w \in Workers, Abort(w) PROVE CountInv'
  BY <1>4, CountFinish, KeptSame DEF Abort, tables
<1>5. CASE UNCHANGED vars
  BY <1>5 DEF vars, CountInv, Covered, Pointed, Counted, Counting, RowsOf, Exists
<1> QED BY <1>1, <1>2, <1>3, <1>4, <1>5, CountAdmin DEF Next

LEMMA CountStart == Init => CountInv
<1> SUFFICES ASSUME Init PROVE CountInv
  OBVIOUS
<1>1. \A i \in Items : item[i].reactions = 0 /\ Counting(i) = {}
  BY DEF Init, NoContent, Counting
<1>2. Covered
  BY <1>1, SizeTypes, FS_EmptySet DEF Covered, Counted
<1>3. Pointed
  BY DEF Init, Pointed
<1> QED BY <1>2, <1>3 DEF CountInv

\* An item counts no more reactions than it has (the receivers of Reaction
\* and the transaction of a deletion), unless an edit spoiled its count.
THEOREM ReactionsCovered == Spec => []NeverOvercounted
<1>1. Typed /\ CountInv /\ [Next]_vars => CountInv'
  BY CountNext
<1>2. Typed /\ CountInv => NeverOvercounted
  <2> SUFFICES ASSUME Typed, CountInv, NEW i \in Counted \ spoilt
               PROVE  item[i].reactions <= Cardinality(RowsOf(i))
    BY DEF NeverOvercounted
  <2>1. item[i].reactions + Cardinality(Counting(i)) <= Cardinality(RowsOf(i))
        /\ item[i].reactions \in Nat
    BY DEF CountInv, Covered, Counted, Typed, TypeOK, ContentRow
  <2> QED BY <2>1, SizeTypes
<1> QED BY <1>1, <1>2, CountStart, AlwaysTyped, PTL DEF Spec


-----------------------------------------------------------------------------
(* FlagsTellReports: a request that nothing overlapped saves what it saw.  *)

\* The flag and the number in a row are those of item i's open reports.
Told(s, i) ==
    /\ s.reports = Cardinality(OpenReports(i))
    /\ s.flagged <=> OpenReports(i) # {}

AloneInv ==
    /\ \A w \in alone :
          /\ \A v \in Workers : pc[v] # "idle" => v = w
          /\ pc[w] = "saveFlags" => Told(row[w], req[w].item)
          /\ pc[w] = "saveItem" => /\ row[w].reports = item[req[w].item].reports
                                   /\ row[w].flagged = item[req[w].item].flagged
    /\ \A i \in fresh : Told(item[i], i)

FlagsKept ==
    /\ fresh' \subseteq fresh
    /\ \A i \in fresh' : /\ OpenReports(i)' = OpenReports(i)
                         /\ item'[i].reports = item[i].reports
                         /\ item'[i].flagged = item[i].flagged

LEMMA OpenCount ==
    ASSUME NEW S, S \subseteq Users PROVE Cardinality(S) \in Nat /\ (Cardinality(S) > 0 <=> S # {})
BY CountType, FS_EmptySet

LEMMA ToldKept == ASSUME AloneInv, FlagsKept PROVE \A i \in fresh' : Told(item[i], i)'
BY DEF AloneInv, FlagsKept, Told

\* One worker goes on or finishes; what it brings to its last save is checked.
LEMMA AloneStep ==
    ASSUME Typed, AloneInv, NEW w \in Workers, NEW l, pc' = [pc EXCEPT ![w] = l],
           pc[w] # "idle", alone' \subseteq alone,
           l = "saveFlags" => Told(row[w], req[w].item)', l # "saveItem",
           \A i \in fresh' : Told(item[i], i)'
    PROVE  AloneInv'
<1>1. ASSUME NEW v \in alone' PROVE v = w
  BY DEF AloneInv
<1>2. pc'[w] = l /\ \A v \in Workers : v # w => pc'[v] = pc[v]
  BY DEF Typed, TypeOK
<1>3. ASSUME NEW v \in alone'
      PROVE  /\ \A u \in Workers : pc'[u] # "idle" => u = v
             /\ pc'[v] # "saveItem"
             /\ pc'[v] = "saveFlags" => Told(row[v], req[v].item)'
  <2>1. v = w
    BY <1>1
  <2> QED BY <1>2, <2>1 DEF AloneInv, Told
<1> QED BY <1>3 DEF AloneInv

LEMMA AloneThen ==
    ASSUME Typed, AloneInv, NEW w \in Workers, NEW l, NEW more, ThenIf(more, w, l),
           pc[w] # "idle", l \notin {"saveFlags", "saveItem"},
           \A i \in fresh' : Told(item[i], i)'
    PROVE  AloneInv'
BY AloneStep DEF ThenIf, GoOn, Goto, Finish

LEMMA AloneFinish ==
    ASSUME Typed, AloneInv, NEW w \in Workers, Finish(w), pc[w] # "idle",
           \A i \in fresh' : Told(item[i], i)'
    PROVE  AloneInv'
BY AloneStep DEF Finish

LEMMA AloneGoto ==
    ASSUME Typed, AloneInv, NEW w \in Workers, NEW l, Goto(w, l), UNCHANGED alone,
           pc[w] # "idle", l \notin {"saveFlags", "saveItem"},
           \A i \in fresh' : Told(item[i], i)'
    PROVE  AloneInv'
BY AloneStep DEF Goto

LEMMA FlagsSame ==
    /\ UNCHANGED <<item, rep, fresh>> => FlagsKept
    /\ (UNCHANGED <<rep, fresh>> /\ \A i \in Items : /\ item'[i].reports = item[i].reports
                                                    /\ item'[i].flagged = item[i].flagged)
          /\ Typed => FlagsKept
BY DEF FlagsKept, OpenReports, Typed, TypeOK

LEMMA AloneBegin ==
    ASSUME Typed, AloneInv, NEW w \in Workers, NEW l, NEW q, Begin(w, q), Goto(w, l),
           UNCHANGED tables, l # "saveFlags",
           l = "saveItem" => /\ row'[w].reports = item[q.item].reports
                             /\ row'[w].flagged = item[q.item].flagged
    PROVE  AloneInv'
<1>1. \A i \in fresh' : Told(item[i], i)'
  BY FlagsSame, ToldKept DEF Begin, tables
<1>2. pc'[w] = l /\ req'[w] = q /\ \A v \in Workers : v # w => pc'[v] = pc[v]
  BY DEF Begin, Goto, Typed, TypeOK
<1>3. alone' \subseteq {w} /\ (alone' # {} => \A v \in Workers : pc[v] = "idle")
  BY DEF Begin, Idle
<1>4. item' = item
  BY DEF tables
<1>5. ASSUME NEW v \in alone'
      PROVE  /\ \A u \in Workers : pc'[u] # "idle" => u = v
             /\ pc'[v] # "saveFlags"
             /\ pc'[v] = "saveItem" => /\ row'[v].reports = item'[req'[v].item].reports
                                       /\ row'[v].flagged = item'[req'[v].item].flagged
  BY <1>2, <1>3, <1>4
<1> QED BY <1>1, <1>5 DEF AloneInv

LEMMA AloneBegins ==
    ASSUME Typed, AloneInv, NEW w \in Workers,
           BeginReact(w) \/ BeginReport(w) \/ BeginModerate(w) \/ BeginEdit(w)
    PROVE  AloneInv'
<1>0. UNCHANGED tables
  BY DEF BeginReact, BeginReport, BeginModerate, BeginEdit
<1>1. CASE BeginEdit(w)
  <2>1. PICK i \in Counted \ spoilt :
           Begin(w, [NoReq EXCEPT !.item = i]) /\ row' = [row EXCEPT ![w] = item[i]]
    BY <1>1 DEF BeginEdit
  <2>2. row'[w] = item[i]
    BY <2>1 DEF Typed, TypeOK
  <2>3. [NoReq EXCEPT !.item = i].item = i
    BY DEF NoReq
  <2> QED BY <1>0, <1>1, <2>1, <2>2, <2>3, AloneBegin DEF BeginEdit
<1>2. CASE BeginReport(w) \/ BeginModerate(w)
  <2>1. PICK q, l : Begin(w, q) /\ Goto(w, l) /\ l \in {"insertReport", "saveReport"}
    BY <1>2 DEF BeginReport, BeginModerate
  <2> QED BY <1>0, <2>1, AloneBegin
<1>3. CASE BeginReact(w)
  <2>1. PICK u \in Users, i \in Items, t \in Types, l \in BOOLEAN :
          \/ Begin(w, Asked(u, i, t, l)) /\ Goto(w, "insert")
          \/ \E r \in Matches(u, i, l) :
                /\ Begin(w, [Asked(u, i, t, l) EXCEPT !.found = r, !.on = rea[r].item])
                /\ Goto(w, IF rea[r].type = t THEN "delete" ELSE "retype")
    BY <1>3, ReactCases
  <2>2. CASE Begin(w, Asked(u, i, t, l)) /\ Goto(w, "insert")
    BY <1>0, <2>2, AloneBegin
  <2>3. CASE ~(Begin(w, Asked(u, i, t, l)) /\ Goto(w, "insert"))
    <3>1. PICK r \in Matches(u, i, l) :
             /\ Begin(w, [Asked(u, i, t, l) EXCEPT !.found = r, !.on = rea[r].item])
             /\ Goto(w, IF rea[r].type = t THEN "delete" ELSE "retype")
      BY <2>1, <2>3
    <3> DEFINE p == [Asked(u, i, t, l) EXCEPT !.found = r, !.on = rea[r].item]
               m == IF rea[r].type = t THEN "delete" ELSE "retype"
    <3>2. Begin(w, p) /\ Goto(w, m) /\ m \notin {"saveFlags", "saveItem"}
      BY <3>1
    <3> HIDE DEF p, m
    <3> QED BY <1>0, <3>2, AloneBegin
  <2> QED BY <2>2, <2>3
<1> QED BY <1>1, <1>2, <1>3

\* Reactions do not touch the flags.
LEMMA AloneReact ==
    ASSUME Typed, AloneInv, NEW w \in Workers,
           \/ Insert(w) \/ Count(w) \/ Refresh(w) \/ Show(w) \/ Delete(w) \/ Retype(w)
    PROVE  AloneInv'
<1>0. pc[w] # "idle"
  BY DEF Insert, Count, Refresh, Show, Delete, Retype
<1>1. CASE Insert(w)
  <2>1. \A i \in fresh' : Told(item[i], i)'
    BY <1>1, FlagsSame, ToldKept DEF Insert
  <2>2. CASE Finish(w)
    BY <1>0, <2>1, <2>2, AloneFinish
  <2>3. CASE ~Finish(w)
    <3>1. ThenIf(req[w].item \in Counted, w, "count")
      BY <1>1, <2>3 DEF Insert
    <3> QED BY <1>0, <2>1, <3>1, AloneThen
  <2> QED BY <2>2, <2>3
<1>2. CASE Count(w)
  <2>1. \A i \in Items : item'[i].reports = item[i].reports /\ item'[i].flagged = item[i].flagged
    BY <1>2 DEF Count, Typed, TypeOK, ContentRow
  <2>2. \A i \in fresh' : Told(item[i], i)'
    BY <1>2, <2>1, FlagsSame, ToldKept DEF Count
  <2>3. ThenIf(req[w].item \in Shown, w, "refresh")
    BY <1>2 DEF Count
  <2> QED BY <1>0, <2>2, <2>3, AloneThen
<1>3. CASE Refresh(w)
  <2>1. \A i \in fresh' : Told(item[i], i)'
    BY <1>3, FlagsSame, ToldKept DEF Refresh, tables, history
  <2> QED BY <1>0, <1>3, <2>1, AloneGoto DEF Refresh, history
<1>4. CASE Show(w)
  <2>1. \A i \in fresh' : Told(item[i], i)'
    BY <1>4, FlagsSame, ToldKept DEF Show
  <2> QED BY <1>0, <1>4, <2>1, AloneFinish DEF Show
<1>5. CASE Delete(w)
  <2>1. \A i \in Items : item'[i].reports = item[i].reports /\ item'[i].flagged = item[i].flagged
    BY <1>5 DEF Delete, Remove, Typed, TypeOK, ContentRow
  <2>2. \A i \in fresh' : Told(item[i], i)'
    BY <1>5, <2>1, FlagsSame, ToldKept DEF Delete
  <2> QED BY <1>0, <1>5, <2>2, AloneFinish DEF Delete
<1>6. CASE Retype(w)
  <2>1. \A i \in fresh' : Told(item[i], i)'
    BY <1>6, FlagsSame, ToldKept DEF Retype
  <2> QED BY <1>0, <1>6, <2>1, AloneFinish DEF Retype
<1> QED BY <1>1, <1>2, <1>3, <1>4, <1>5, <1>6

\* A report filed or decided takes its item out of fresh.
LEMMA AloneReport ==
    ASSUME Typed, AloneInv, NEW w \in Workers, InsertReport(w) \/ SaveReport(w) PROVE AloneInv'
<1>0. pc[w] # "idle" /\ req[w].item \in Items /\ UNCHANGED item
  BY DEF InsertReport, SaveReport, Typed, Carried, Carries, Request
<1>3. PICK more \in BOOLEAN : ThenIf(more, w, "loadContent")
  BY DEF InsertReport, SaveReport, ThenIf
<1>1. CASE UNCHANGED <<rep, fresh>>
  BY <1>0, <1>1, <1>3, FlagsSame, ToldKept, AloneThen
<1>2. CASE ~UNCHANGED <<rep, fresh>>
  <2> DEFINE u == req[w].user
             i == req[w].item
  <2>1. PICK s : rep' = [rep EXCEPT ![<<u, i>>] = s] /\ fresh' = fresh \ {i}
    <3>1. CASE InsertReport(w)
      BY <1>2, <3>1 DEF InsertReport
    <3>2. CASE SaveReport(w)
      BY <1>2, <3>2 DEF SaveReport
    <3> QED BY <3>1, <3>2
  <2>2. \A j \in fresh' : OpenReports(j)' = OpenReports(j)
    BY <2>1 DEF OpenReports, Typed, TypeOK
  <2>3. FlagsKept
    BY <1>0, <2>1, <2>2 DEF FlagsKept
  <2> QED BY <1>0, <1>3, <2>3, ToldKept, AloneThen
<1> QED BY <1>1, <1>2

LEMMA AloneCountReports ==
    ASSUME Typed, AloneInv, NEW w \in Workers, CountReports(w) PROVE AloneInv'
<1> DEFINE n == Cardinality(OpenReports(req[w].item))
           f == n > 0
<1>0. \A i \in fresh' : Told(item[i], i)'
  BY FlagsSame, ToldKept DEF CountReports, tables, history
<1>1. n \in Nat /\ f \in BOOLEAN /\ (f <=> OpenReports(req[w].item) # {})
  <2>1. OpenReports(req[w].item) \subseteq Users
    BY DEF OpenReports
  <2>2. n \in Nat /\ (n > 0 <=> OpenReports(req[w].item) # {})
    BY <2>1, OpenCount
  <2>3. f \in BOOLEAN
    OBVIOUS
  <2> QED BY <2>2, <2>3
<1>2. row' = [row EXCEPT ![w].flagged = f, ![w].reports = n]
  BY DEF CountReports
<1>3. PICK c \in Nat, g \in BOOLEAN : c = n /\ g = f
  BY <1>1
<1> HIDE DEF n, f
<1>4. row'[w].flagged = g /\ row'[w].reports = c
  BY <1>2, <1>3 DEF Typed, TypeOK, ContentRow
<1>5. req'[w] = req[w] /\ OpenReports(req[w].item)' = OpenReports(req[w].item)
  BY DEF CountReports, OpenReports, tables
<1>6. Told(row[w], req[w].item)'
  BY <1>1, <1>3, <1>4, <1>5 DEF Told, n
<1> QED BY <1>0, <1>6, AloneStep DEF CountReports, Goto, history

LEMMA AloneSaveFlags ==
    ASSUME Typed, AloneInv, NEW w \in Workers, SaveFlags(w) PROVE AloneInv'
<1>0. PICK i \in Items : i = req[w].item
  BY DEF SaveFlags, Typed, Carried, Carries, Request
<1>1. /\ item'[i].flagged = row[w].flagged /\ item'[i].reports = row[w].reports
      /\ \A j \in Items : j # i => item'[j] = item[j]
  BY <1>0 DEF SaveFlags, Typed, TypeOK, ContentRow
<1>2. \A j : OpenReports(j)' = OpenReports(j)
  BY DEF SaveFlags, OpenReports
<1>3. ASSUME NEW j \in fresh' PROVE Told(item[j], j)'
  <2>1. CASE j = i
    <3>1. w \in alone
      BY <1>0, <1>3, <2>1 DEF SaveFlags
    <3>2. Told(row[w], i)
      BY <1>0, <3>1 DEF SaveFlags, AloneInv
    <3> QED BY <1>1, <1>2, <2>1, <3>2 DEF Told
  <2>2. CASE j # i
    <3>1. j \in fresh /\ j \in Items
      BY <1>0, <1>3, <2>2 DEF SaveFlags, Typed, TypeOK
    <3> QED BY <1>1, <1>2, <2>2, <3>1 DEF Told, AloneInv
  <2> QED BY <2>1, <2>2
<1>4. ThenIf(req[w].item \in Shown, w, "show") /\ pc[w] # "idle"
  BY DEF SaveFlags, ThenShow
<1> QED BY <1>3, <1>4, AloneThen

LEMMA AloneSaveItem ==
    ASSUME Typed, AloneInv, NEW w \in Workers, SaveItem(w) PROVE AloneInv'
<1>0. PICK i \in Items : i = req[w].item
  BY DEF SaveItem, Typed, Carried, Carries, Request
<1>1. item'[i] = row[w] /\ \A j \in Items : j # i => item'[j] = item[j]
  BY <1>0 DEF SaveItem, Typed, TypeOK
<1>2. \A j : OpenReports(j)' = OpenReports(j)
  BY DEF SaveItem, OpenReports
<1>3. ASSUME NEW j \in fresh' PROVE Told(item[j], j)'
  <2>0. j \in fresh /\ j \in Items /\ (j = i => w \in alone)
    BY <1>0, <1>3 DEF SaveItem, Typed, TypeOK
  <2>1. item'[j].reports = item[j].reports /\ item'[j].flagged = item[j].flagged
    BY <1>0, <1>1, <2>0 DEF SaveItem, AloneInv
  <2> QED BY <1>2, <2>0, <2>1 DEF Told, AloneInv
<1>4. ThenIf(req[w].item \in Shown, w, "show") /\ pc[w] # "idle"
  BY DEF SaveItem, ThenShow
<1> QED BY <1>3, <1>4, AloneThen

LEMMA AloneAdmin ==
    ASSUME Typed, AloneInv, AdminDeleteReaction \/ AdminDeleteReport PROVE AloneInv'
<1>0. alone' = {}
  BY DEF AdminDeleteReaction, AdminDeleteReport
<1>1. CASE AdminDeleteReaction
  <2>1. \A i \in Items : item'[i].reports = item[i].reports /\ item'[i].flagged = item[i].flagged
    BY <1>1 DEF AdminDeleteReaction, Remove, Typed, TypeOK, ContentRow
  <2>2. \A i \in fresh' : Told(item[i], i)'
    BY <1>1, <2>1, FlagsSame, ToldKept DEF AdminDeleteReaction
  <2> QED BY <1>0, <2>2 DEF AloneInv
<1>2. CASE AdminDeleteReport
  <2>1. PICK u \in Users, i \in Items :
          /\ rep' = [rep EXCEPT ![<<u, i>>] = "none"]
          /\ LET n == Cardinality(OpenReports(i) \ {u})
             IN item' = [item EXCEPT ![i].flagged = n > 0, ![i].reports = n]
          /\ fresh' \subseteq fresh \cup {i}
    BY <1>2 DEF AdminDeleteReport
  <2> DEFINE n == Cardinality(OpenReports(i) \ {u})
             f == n > 0
  <2>2. n \in Nat /\ f \in BOOLEAN /\ (f <=> OpenReports(i) \ {u} # {})
    <3>1. OpenReports(i) \ {u} \subseteq Users
      BY DEF OpenReports
    <3>2. n \in Nat /\ (n > 0 <=> OpenReports(i) \ {u} # {})
      BY <3>1, OpenCount
    <3>3. f \in BOOLEAN
      OBVIOUS
    <3> QED BY <3>2, <3>3
  <2>3. OpenReports(i)' = OpenReports(i) \ {u} /\ \A j \in Items : j # i => OpenReports(j)' = OpenReports(j)
    BY <2>1 DEF OpenReports, Typed, TypeOK
  <2>4. item' = [item EXCEPT ![i].flagged = f, ![i].reports = n]
    BY <2>1
  <2>5. PICK c \in Nat, g \in BOOLEAN : c = n /\ g = f
    BY <2>2
  <2> HIDE DEF n, f
  <2>6. item'[i].flagged = g /\ item'[i].reports = c /\ \A j \in Items : j # i => item'[j] = item[j]
    BY <2>4, <2>5 DEF Typed, TypeOK, ContentRow
  <2>7. Told(item[i], i)'
    BY <2>2, <2>3, <2>5, <2>6 DEF Told, n
  <2>8. \A j \in fresh' : Told(item[j], j)'
    <3>1. ASSUME NEW j \in fresh', j # i PROVE Told(item[j], j)'
      <4>1. j \in fresh /\ j \in Items
        BY <2>1, <3>1 DEF Typed, TypeOK
      <4> QED BY <2>3, <2>6, <3>1, <4>1 DEF Told, AloneInv
    <3> QED BY <2>7, <3>1
  <2> QED BY <1>0, <2>8 DEF AloneInv
<1> QED BY <1>1, <1>2

LEMMA AloneNext == Typed /\ AloneInv /\ [Next]_vars => AloneInv'
<1> SUFFICES ASSUME Typed, AloneInv, [Next]_vars PROVE AloneInv'
  OBVIOUS
<1>1. ASSUME NEW w \in Workers, React(w) PROVE AloneInv'
  BY <1>1, AloneBegins, AloneReact DEF React
<1>2. ASSUME NEW w \in Workers, Moderate(w) PROVE AloneInv'
  <2>1. CASE LoadContent(w)
    <3>1. \A i \in fresh' : Told(item[i], i)'
      BY <2>1, FlagsSame, ToldKept DEF LoadContent, tables, history
    <3> QED BY <2>1, <3>1, AloneGoto DEF LoadContent, history
  <2> QED BY <1>2, <2>1, AloneBegins, AloneReport, AloneCountReports, AloneSaveFlags DEF Moderate
<1>3. ASSUME NEW w \in Workers, Edit(w) PROVE AloneInv'
  BY <1>3, AloneBegins, AloneSaveItem DEF Edit
<1>4. ASSUME NEW w \in Workers, Abort(w) PROVE AloneInv'
  <2>1. \A i \in fresh' : Told(item[i], i)'
    BY <1>4, FlagsSame, ToldKept DEF Abort, tables
  <2> QED BY <1>4, <2>1, AloneFinish DEF Abort
<1>5. CASE UNCHANGED vars
  BY <1>5, SMTT(30) DEF vars, AloneInv, Told, OpenReports
<1> QED BY <1>1, <1>2, <1>3, <1>4, <1>5, AloneAdmin DEF Next

\* A report or a decision that no other request overlapped (SaveFlags of a
\* worker in alone) leaves the content flagged exactly if a report is open.
THEOREM FlagsFollowReports == Spec => []FlagsTellReports
<1>1. Init => AloneInv
  <2> SUFFICES ASSUME Init PROVE AloneInv
    OBVIOUS
  <2>1. \A i \in Items : OpenReports(i) = {}
    BY DEF Init, OpenReports
  <2>2. \A i \in Items : item[i].reports = 0 /\ item[i].flagged = FALSE
    BY DEF Init, NoContent
  <2> QED BY <2>1, <2>2, FS_EmptySet DEF Init, AloneInv, Told
<1>2. Typed /\ AloneInv /\ [Next]_vars => AloneInv'
  BY AloneNext
<1>3. AloneInv => FlagsTellReports
  BY DEF AloneInv, Told, FlagsTellReports
<1> QED BY <1>1, <1>2, <1>3, AlwaysTyped, PTL DEF Spec

-----------------------------------------------------------------------------
(* ReactionsCounted: what holds while requests run one at a time.          *)

\* How far the counter of item i is behind while its worker is at l.
Owing(l, q, i) == IF l = "count" /\ q.item = i THEN 1 ELSE 0

\* The tables, seen by the only busy worker: at l, serving q, with instance s.
InStep(l, q, s) ==
    /\ \A i \in Counted : item[i].reactions + Owing(l, q, i) = Cardinality(RowsOf(i))
    /\ \A i \in Shown : feed[i] = item[i].reactions \/ (l \in {"refresh", "show"} /\ q.item = i)
    /\ l = "delete" => Exists(q.found) /\ rea[q.found].item = q.on
    /\ l \in {"countReports", "saveFlags", "saveItem", "show"}
          => s.reactions = item[q.item].reactions

Settled ==
    /\ \A i \in Counted : item[i].reactions = Cardinality(RowsOf(i))
    /\ \A i \in Shown : feed[i] = item[i].reactions

CalmInv ==
    calm =>
        /\ Idle => Settled
        /\ \A w \in Workers : pc[w] # "idle" =>
              /\ \A v \in Workers : pc[v] # "idle" => v = w
              /\ InStep(pc[w], req[w], row[w])

\* Only a reaction on its way is not settled.
LEMMA StepSettled ==
    ASSUME Typed, NEW l, NEW q, NEW s
    PROVE  /\ InStep(l, q, s) /\ l \notin {"count", "refresh", "show"} => Settled
           /\ Settled /\ l \notin {"count", "delete", "countReports", "saveFlags", "saveItem", "show"}
                 => InStep(l, q, s)
           /\ Settled /\ l \in {"countReports", "saveFlags", "saveItem", "show"}
                 /\ s.reactions = item[q.item].reactions => InStep(l, q, s)
<1>1. \A i \in Counted : item[i].reactions \in Nat
  BY DEF Typed, TypeOK, Counted, ContentRow
<1> QED BY <1>1 DEF InStep, Settled, Owing

LEMMA StepSettledNext ==
    ASSUME Typed', NEW l, NEW q, NEW s
    PROVE  /\ (InStep(l, q, s) /\ l \notin {"count", "refresh", "show"} => Settled)'
           /\ (Settled /\ l \notin {"count", "delete", "countReports", "saveFlags", "saveItem", "show"}
                 => InStep(l, q, s))'
           /\ (Settled /\ l \in {"countReports", "saveFlags", "saveItem", "show"}
                 /\ s.reactions = item[q.item].reactions => InStep(l, q, s))'
<1>1. \A i \in Counted : item'[i].reactions \in Nat
  BY DEF Typed, TypeOK, Counted, ContentRow
<1> QED BY <1>1 DEF InStep, Settled, Owing, Counted

\* The only busy worker goes on or finishes, or the first one begins.
LEMMA CalmStep ==
    ASSUME Typed, Typed', CalmInv, NEW w \in Workers, NEW l, NEW q, NEW s,
           calm' => calm /\ \A v \in Workers : v # w => pc[v] = "idle",
           pc' = [pc EXCEPT ![w] = l], req' = [req EXCEPT ![w] = q], row' = [row EXCEPT ![w] = s],
           calm' => InStep(l, q, s)'
    PROVE  CalmInv'
<1> SUFFICES ASSUME calm' PROVE CalmInv'
  BY DEF CalmInv
<1>2. pc'[w] = l /\ req'[w] = q /\ row'[w] = s /\ \A v \in Workers : v # w => pc'[v] = "idle"
  BY DEF Typed, TypeOK
<1>3. InStep(l, q, s)'
  OBVIOUS
<1>4. Idle' => Settled'
  <2> SUFFICES ASSUME l = "idle" PROVE Settled'
    BY <1>2 DEF Idle
  <2> QED BY <1>3, StepSettledNext
<1>5. ASSUME NEW v \in Workers, pc'[v] # "idle"
      PROVE  /\ \A u \in Workers : pc'[u] # "idle" => u = v
             /\ InStep(pc[v], req[v], row[v])'
  <2>1. v = w
    BY <1>2, <1>5
  <2>2. InStep(pc[w], req[w], row[w])'
    BY <1>2, <1>3 DEF InStep, Owing
  <2> QED BY <1>2, <2>1, <2>2
<1> QED BY <1>4, <1>5 DEF CalmInv

\* While a worker is busy and calm holds, every other one is idle.
LEMMA CalmBusy ==
    ASSUME CalmInv, NEW w \in Workers, pc[w] # "idle", calm
    PROVE  (\A v \in Workers : v # w => pc[v] = "idle") /\ InStep(pc[w], req[w], row[w])
BY DEF CalmInv

LEMMA CalmThen ==
    ASSUME Typed, Typed', CalmInv, NEW w \in Workers, NEW l, NEW more, NEW q, NEW s,
           ThenIf(more, w, l), pc[w] # "idle", UNCHANGED calm, q = req[w], s = row[w], l # "delete",
           q.item \in Items \/ ~more,
           calm => IF more THEN InStep(l, q, s)' ELSE Settled'
    PROVE  CalmInv'
<1>0. calm' => calm /\ \A v \in Workers : v # w => pc[v] = "idle"
  BY CalmBusy
<1>1. CASE more
  <2>1. PICK r : r = Rest(w)
    OBVIOUS
  <2>2. pc' = [pc EXCEPT ![w] = l] /\ req' = [req EXCEPT ![w] = r] /\ row' = [row EXCEPT ![w] = s]
    BY <1>1, <2>1 DEF ThenIf, GoOn, Goto, Typed, TypeOK
  <2>3. r.item = q.item
    BY <1>1, <2>1, RestTyped
  <2>4. calm => InStep(l, r, s)'
    BY <1>1, <2>3 DEF InStep, Owing
  <2> QED BY <1>0, <2>2, <2>4, CalmStep
<1>2. CASE ~more
  <2>1. calm => InStep("idle", NoReq, NoContent)'
    BY <1>2, StepSettledNext
  <2> QED BY <1>0, <1>2, <2>1, CalmStep DEF ThenIf, Finish
<1> QED BY <1>1, <1>2

LEMMA CalmFinish ==
    ASSUME Typed, Typed', CalmInv, NEW w \in Workers, Finish(w), pc[w] # "idle", UNCHANGED calm,
           calm => Settled'
    PROVE  CalmInv'
<1>1. PICK q, s : q = req[w] /\ s = row[w]
  OBVIOUS
<1>2. ThenIf(FALSE, w, "idle")
  BY DEF ThenIf
<1> QED BY <1>1, <1>2, CalmThen

\* What leaves the reactions and their counts alone leaves them settled.
Undisturbed ==
    /\ RowsKept
    /\ \A i \in Items : item'[i].reactions = item[i].reactions
    /\ UNCHANGED feed

LEMMA SettledKept == ASSUME Settled, Undisturbed PROVE Settled'
<1>1. \A i : RowsOf(i)' = RowsOf(i)
  BY KeptRows DEF Undisturbed
<1> QED BY <1>1 DEF Settled, Undisturbed, Counted, Shown

LEMMA CalmSettled ==
    ASSUME Typed, CalmInv, NEW w \in Workers, pc[w] \notin {"idle", "count", "refresh", "show"}, calm
    PROVE  Settled
BY CalmBusy, StepSettled

LEMMA CalmGoto ==
    ASSUME Typed, Typed', CalmInv, NEW w \in Workers, NEW l, NEW q, NEW s, Goto(w, l),
           req' = [req EXCEPT ![w] = q], row' = [row EXCEPT ![w] = s],
           pc[w] \notin {"idle", "count", "refresh", "show"}, UNCHANGED calm, calm => Undisturbed,
           l \notin {"count", "delete"},
           calm => (l \in {"countReports", "saveFlags", "saveItem", "show"}
                      => s.reactions = item'[q.item].reactions)
    PROVE  CalmInv'
<1>1. calm' => calm /\ \A v \in Workers : v # w => pc[v] = "idle"
  BY CalmBusy
<1>2. calm => Settled'
  BY CalmSettled, SettledKept
<1>3. calm' => InStep(l, q, s)'
  <2> SUFFICES ASSUME calm' PROVE InStep(l, q, s)'
    OBVIOUS
  <2>1. CASE l \in {"countReports", "saveFlags", "saveItem", "show"}
    <3>1. (s.reactions = item[q.item].reactions)'
      BY <2>1
    <3> QED BY <1>2, <2>1, <3>1, StepSettledNext
  <2>2. CASE l \notin {"countReports", "saveFlags", "saveItem", "show"}
    BY <1>2, <2>2, StepSettledNext
  <2> QED BY <2>1, <2>2
<1> QED BY <1>1, <1>3, CalmStep DEF Goto

LEMMA UndisturbedBy ==
    ASSUME Typed
    PROVE  /\ UNCHANGED <<item, feed, rea>> => Undisturbed
           /\ (UNCHANGED feed /\ RowsKept /\ UNCHANGED item) => Undisturbed
BY KeptSame DEF Undisturbed

LEMMA CalmBegin ==
    ASSUME Typed, Typed', CalmInv, NEW w \in Workers, NEW l, NEW q, NEW s, Begin(w, q), Goto(w, l),
           row' = [row EXCEPT ![w] = s], UNCHANGED tables,
           l \in {"insert", "delete", "retype", "insertReport", "saveReport", "saveItem"},
           l = "delete" => Exists(q.found) /\ rea[q.found].item = q.on,
           l = "saveItem" => s.reactions = item[q.item].reactions
    PROVE  CalmInv'
<1>1. calm' => calm /\ Idle /\ \A v \in Workers : v # w => pc[v] = "idle"
  BY DEF Begin, Idle
<1>2. calm' => InStep(l, q, s)'
  <2> SUFFICES ASSUME calm' PROVE InStep(l, q, s)'
    OBVIOUS
  <2>1. Settled'
    BY <1>1, SettledKept, UndisturbedBy DEF CalmInv, tables
  <2>2. CASE l = "delete"
    <3>1. Exists(q.found)' /\ rea'[q.found].item = q.on
      BY <2>2 DEF Exists, tables
    <3>2. \A i \in Counted : item'[i].reactions \in Nat
      BY DEF Typed, TypeOK, Counted, ContentRow
    <3> QED BY <2>1, <2>2, <3>1, <3>2 DEF InStep, Settled, Owing, Counted
  <2>3. CASE l = "saveItem"
    <3>1. (s.reactions = item[q.item].reactions)'
      BY <2>3 DEF tables
    <3> QED BY <2>1, <2>3, <3>1, StepSettledNext
  <2>4. CASE l \in {"insert", "retype", "insertReport", "saveReport"}
    BY <2>1, <2>4, StepSettledNext
  <2> QED BY <2>2, <2>3, <2>4
<1> QED BY <1>1, <1>2, CalmStep DEF Begin, Goto

LEMMA CalmBegins ==
    ASSUME Typed, Typed', CalmInv, NEW w \in Workers,
           BeginReact(w) \/ BeginReport(w) \/ BeginModerate(w) \/ BeginEdit(w)
    PROVE  CalmInv'
<1>0. UNCHANGED tables
  BY DEF BeginReact, BeginReport, BeginModerate, BeginEdit
<1>1. CASE BeginEdit(w)
  <2>1. PICK i \in Counted \ spoilt :
           Begin(w, [NoReq EXCEPT !.item = i]) /\ row' = [row EXCEPT ![w] = item[i]]
    BY <1>1 DEF BeginEdit
  <2>2. PICK s : s = item[i]
    OBVIOUS
  <2>3. [NoReq EXCEPT !.item = i].item = i
    BY DEF NoReq
  <2> QED BY <1>0, <1>1, <2>1, <2>2, <2>3, CalmBegin DEF BeginEdit
<1>2. CASE BeginReport(w) \/ BeginModerate(w)
  <2>1. PICK q, l : Begin(w, q) /\ Goto(w, l) /\ l \in {"insertReport", "saveReport"}
    BY <1>2 DEF BeginReport, BeginModerate
  <2>2. PICK s : row' = [row EXCEPT ![w] = s]
    <3>1. row' = [row EXCEPT ![w] = row[w]]
      BY <1>2 DEF BeginReport, BeginModerate, Typed, TypeOK
    <3> QED BY <3>1
  <2> QED BY <1>0, <2>1, <2>2, CalmBegin
<1>3. CASE BeginReact(w)
  <2>1. PICK u \in Users, i \in Items, t \in Types, l \in BOOLEAN :
          \/ Begin(w, Asked(u, i, t, l)) /\ Goto(w, "insert")
          \/ \E r \in Matches(u, i, l) :
                /\ Begin(w, [Asked(u, i, t, l) EXCEPT !.found = r, !.on = rea[r].item])
                /\ Goto(w, IF rea[r].type = t THEN "delete" ELSE "retype")
    BY <1>3, ReactCases
  <2>2. PICK s : row' = [row EXCEPT ![w] = s]
    <3>1. row' = [row EXCEPT ![w] = row[w]]
      BY <1>3 DEF BeginReact, Typed, TypeOK
    <3> QED BY <3>1
  <2>3. CASE Begin(w, Asked(u, i, t, l)) /\ Goto(w, "insert")
    BY <1>0, <2>2, <2>3, CalmBegin
  <2>4. CASE ~(Begin(w, Asked(u, i, t, l)) /\ Goto(w, "insert"))
    <3>1. PICK r \in Matches(u, i, l) :
             /\ Begin(w, [Asked(u, i, t, l) EXCEPT !.found = r, !.on = rea[r].item])
             /\ Goto(w, IF rea[r].type = t THEN "delete" ELSE "retype")
      BY <2>1, <2>4
    <3> DEFINE p == [Asked(u, i, t, l) EXCEPT !.found = r, !.on = rea[r].item]
               m == IF rea[r].type = t THEN "delete" ELSE "retype"
    <3>2. p.found = r /\ p.on = rea[r].item /\ Exists(r)
      BY AskedTyped DEF Request, Matches
    <3>3. Begin(w, p) /\ Goto(w, m) /\ m \in {"delete", "retype"}
      BY <3>1
    <3>4. PICK q, k : q = p /\ k = m
      OBVIOUS
    <3> HIDE DEF p, m
    <3> QED BY <1>0, <2>2, <3>2, <3>3, <3>4, CalmBegin
  <2> QED BY <2>3, <2>4
<1> QED BY <1>1, <1>2, <1>3

LEMMA CalmInsert == ASSUME Typed, Typed', CalmInv, NEW w \in Workers, Insert(w) PROVE CalmInv'
<1>0. pc[w] = "insert" /\ UNCHANGED <<item, feed, calm>> /\ req[w].user \in Users
  BY DEF Insert, Typed, Carried, Carries
<1>1. CASE Finish(w) /\ UNCHANGED rea
  <2>1. calm => Settled'
    BY <1>0, <1>1, CalmSettled, SettledKept, UndisturbedBy
  <2> QED BY <1>0, <1>1, <2>1, CalmFinish
<1>2. CASE ~(Finish(w) /\ UNCHANGED rea)
  <2>1. PICK r \in Reactions :
           /\ ~Exists(r)
           /\ rea' = [rea EXCEPT ![r] = [user |-> req[w].user, item |-> req[w].item,
                                         type |-> req[w].type, legacy |-> req[w].legacy]]
    BY <1>2 DEF Insert
  <2>2. ThenIf(req[w].item \in Counted, w, "count")
    BY <1>2 DEF Insert
  <2>3. PICK j, q, s : j = req[w].item /\ q = req[w] /\ s = row[w]
    OBVIOUS
  <2>4. /\ rea'[r].item = j /\ rea'[r] # NoRow
        /\ \A x \in Reactions : x # r => rea'[x] = rea[x]
    BY <1>0, <2>1, <2>3, UsersAssumption DEF Typed, TypeOK, NoRow
  <2>5. RowsOf(j)' = RowsOf(j) \cup {r} /\ r \notin RowsOf(j)
    BY <2>1, <2>4 DEF RowsOf, Exists
  <2>6. \A i \in Items : i # j => RowsOf(i)' = RowsOf(i)
    BY <2>1, <2>4 DEF RowsOf, Exists
  <2>7. Cardinality(RowsOf(j)') = Cardinality(RowsOf(j)) + 1
    BY <2>5, SizeTypes, FS_AddElement
  <2>8. calm => IF j \in Counted THEN InStep("count", q, s)' ELSE Settled'
    <3> SUFFICES ASSUME calm PROVE IF j \in Counted THEN InStep("count", q, s)' ELSE Settled'
      OBVIOUS
    <3>1. Settled
      BY <1>0, CalmSettled
    <3>2. ASSUME NEW i \in Counted, i # j PROVE item'[i].reactions = Cardinality(RowsOf(i)')
      BY <1>0, <2>6, <3>1, <3>2 DEF Settled, Counted
    <3>3. j \in Counted => item'[j].reactions + 1 = Cardinality(RowsOf(j)')
      BY <1>0, <2>7, <3>1 DEF Settled
    <3>4. \A i \in Counted : item'[i].reactions \in Nat
      BY DEF Typed, TypeOK, Counted, ContentRow
    <3>5. \A i \in Shown : feed'[i] = item'[i].reactions
      BY <1>0, <3>1 DEF Settled
    <3>6. CASE j \in Counted
      BY <2>3, <3>2, <3>3, <3>4, <3>5, <3>6 DEF InStep, Owing, Counted, Shown
    <3>7. CASE j \notin Counted
      BY <3>2, <3>5, <3>7 DEF Settled, Counted, Shown
    <3> QED BY <3>6, <3>7
  <2>9. PICK more \in BOOLEAN : more <=> j \in Counted
    OBVIOUS
  <2>10. q.item \in Items \/ ~more
    BY <2>3, <2>9 DEF Counted
  <2> QED BY <1>0, <2>2, <2>3, <2>8, <2>9, <2>10, CalmThen
<1> QED BY <1>1, <1>2

LEMMA CalmCount == ASSUME Typed, Typed', CalmInv, NEW w \in Workers, Count(w) PROVE CalmInv'
<1>0. pc[w] = "count" /\ UNCHANGED <<rea, feed, calm>> /\ req[w].item \in Counted
      /\ ThenIf(req[w].item \in Shown, w, "refresh")
  BY DEF Count, Typed, Carried, Carries
<1>1. PICK j, q, s : j = req[w].item /\ q = req[w] /\ s = row[w]
  OBVIOUS
<1>2. /\ item'[j].reactions = item[j].reactions + 1
      /\ \A i \in Items : i # j => item'[i] = item[i]
  BY <1>0, <1>1 DEF Count, Typed, TypeOK, ContentRow, Counted
<1>3. \A i \in Items : RowsOf(i)' = RowsOf(i)
  BY <1>0 DEF RowsOf, Exists
<1>4. calm => IF j \in Shown THEN InStep("refresh", q, s)' ELSE Settled'
  <2> SUFFICES ASSUME calm PROVE IF j \in Shown THEN InStep("refresh", q, s)' ELSE Settled'
    OBVIOUS
  <2>1. InStep("count", q, s)
    BY <1>0, <1>1, CalmBusy
  <2>2. \A i \in Counted : item[i].reactions \in Nat /\ item'[i].reactions \in Nat
    BY DEF Typed, TypeOK, Counted, ContentRow
  <2>3. \A i \in Counted : item'[i].reactions = Cardinality(RowsOf(i)')
    BY <1>0, <1>1, <1>2, <1>3, <2>1, <2>2 DEF InStep, Owing, Counted
  <2>4. \A i \in Shown : i # j => feed'[i] = item'[i].reactions
    BY <1>0, <1>2, <2>1 DEF InStep, Shown
  <2>5. CASE j \in Shown
    BY <1>1, <2>2, <2>3, <2>4, <2>5 DEF InStep, Owing, Counted, Shown
  <2>6. CASE j \notin Shown
    BY <2>3, <2>4, <2>6 DEF Settled, Counted, Shown
  <2> QED BY <2>5, <2>6
<1>5. PICK more \in BOOLEAN : more <=> j \in Shown
  OBVIOUS
<1>6. q.item \in Items \/ ~more
  BY <1>1, <1>5 DEF Shown
<1> QED BY <1>0, <1>1, <1>4, <1>5, <1>6, CalmThen

LEMMA CalmRefresh == ASSUME Typed, Typed', CalmInv, NEW w \in Workers, Refresh(w) PROVE CalmInv'
<1>0. pc[w] = "refresh" /\ UNCHANGED <<item, feed, rea, calm>> /\ Goto(w, "show")
  BY DEF Refresh, tables, history
<1>1. PICK q, s : q = req[w] /\ s = item[req[w].item]
  OBVIOUS
<1>2. req' = [req EXCEPT ![w] = q] /\ row' = [row EXCEPT ![w] = s]
  BY <1>1 DEF Refresh, Typed, TypeOK
<1>3. calm' => calm /\ \A v \in Workers : v # w => pc[v] = "idle"
  BY <1>0, CalmBusy
<1>4. calm' => InStep("show", q, s)'
  <2> SUFFICES ASSUME calm PROVE InStep("show", q, s)'
    BY <1>0
  <2>1. InStep("refresh", q, row[w])
    BY <1>0, <1>1, CalmBusy
  <2>2. \A i : RowsOf(i)' = RowsOf(i)
    BY <1>0 DEF RowsOf, Exists
  <2> QED BY <1>0, <1>1, <2>1, <2>2 DEF InStep, Owing, Counted, Shown
<1> QED BY <1>0, <1>2, <1>3, <1>4, CalmStep DEF Goto

LEMMA CalmShow == ASSUME Typed, Typed', CalmInv, NEW w \in Workers, Show(w) PROVE CalmInv'
<1>0. pc[w] = "show" /\ UNCHANGED <<item, rea, calm>> /\ Finish(w) /\ req[w].item \in Shown
      /\ feed' = [feed EXCEPT ![req[w].item] = row[w].reactions]
  BY DEF Show, Typed, Carried, Carries
<1>1. calm => Settled'
  <2> SUFFICES ASSUME calm PROVE Settled'
    OBVIOUS
  <2>1. InStep("show", req[w], row[w])
    BY <1>0, CalmBusy
  <2>2. \A i : RowsOf(i)' = RowsOf(i)
    BY <1>0 DEF RowsOf, Exists
  <2>3. \A i \in Shown : feed'[i] = item'[i].reactions
    BY <1>0, <2>1 DEF InStep, Typed, TypeOK, Shown
  <2>4. \A i \in Counted : item[i].reactions \in Nat
    BY DEF Typed, TypeOK, Counted, ContentRow
  <2> QED BY <1>0, <2>1, <2>2, <2>3, <2>4 DEF InStep, Owing, Settled, Counted, Shown
<1> QED BY <1>0, <1>1, CalmFinish

\* The deletion of a reaction that is there counts it off, in the row and in
\* the feed.
LEMMA RemoveSettled ==
    ASSUME Typed, Settled, NEW r \in Reactions, NEW j \in Items, Exists(r), rea[r].item = j,
           Remove(r, j)
    PROVE  Settled'
<1>1. CASE j \in Counted
  <2>1. r \in RowsOf(j)
    BY DEF RowsOf
  <2>2. item[j].reactions = Cardinality(RowsOf(j)) /\ Cardinality(RowsOf(j)) # 0
    BY <1>1, <2>1, SizeTypes, FS_EmptySet DEF Settled
  <2>3. item[j].reactions > 0 /\ item[j].reactions \in Nat
    BY <2>2, SizeTypes
  <2>4. /\ rea' = [rea EXCEPT ![r] = NoRow]
        /\ item' = [item EXCEPT ![j].reactions = @ - 1]
        /\ feed' = IF j \in Shown THEN [feed EXCEPT ![j] = item[j].reactions - 1] ELSE feed
    BY <1>1, <2>3 DEF Remove
  <2>5. /\ item'[j].reactions = item[j].reactions - 1
        /\ \A i \in Items : i # j => item'[i] = item[i]
    BY <2>4 DEF Typed, TypeOK, ContentRow
  <2>6. rea'[r] = NoRow /\ \A x \in Reactions : x # r => rea'[x] = rea[x]
    BY <2>4 DEF Typed, TypeOK
  <2>7. RowsOf(j)' = RowsOf(j) \ {r} /\ \A i \in Items : i # j => RowsOf(i)' = RowsOf(i)
    BY <2>6 DEF RowsOf, Exists
  <2>8. Cardinality(RowsOf(j)') = Cardinality(RowsOf(j)) - 1
    BY <2>1, <2>7, SizeTypes, FS_RemoveElement, ZenonT(60)
  <2>9. \A i \in Counted : item'[i].reactions = Cardinality(RowsOf(i)')
    BY <2>2, <2>5, <2>7, <2>8 DEF Settled, Counted
  <2>10. \A i \in Shown : feed'[i] = item'[i].reactions
    BY <2>4, <2>5 DEF Settled, Shown, Typed, TypeOK
  <2> QED BY <2>9, <2>10 DEF Settled, Counted, Shown
<1>2. CASE j \notin Counted
  <2>1. UNCHANGED <<rea, item, feed>>
    BY <1>2 DEF Remove
  <2> QED BY <2>1, SettledKept, UndisturbedBy
<1> QED BY <1>1, <1>2

LEMMA CalmDelete == ASSUME Typed, Typed', CalmInv, NEW w \in Workers, Delete(w) PROVE CalmInv'
<1>0. pc[w] = "delete" /\ UNCHANGED calm /\ Finish(w) /\ Remove(req[w].found, req[w].on)
      /\ req[w].found \in Reactions /\ req[w].on \in Items
  BY DEF Delete, Typed, Carried, Carries
<1>1. PICK r \in Reactions, j \in Items : r = req[w].found /\ j = req[w].on
  BY <1>0
<1>2. calm => Settled'
  <2> SUFFICES ASSUME calm PROVE Settled'
    OBVIOUS
  <2>1. Exists(r) /\ rea[r].item = j
    BY <1>0, <1>1, CalmBusy DEF InStep
  <2>2. Settled
    BY <1>0, CalmSettled
  <2> QED BY <1>0, <1>1, <2>1, <2>2, RemoveSettled
<1> QED BY <1>0, <1>2, CalmFinish

LEMMA CalmRetype == ASSUME Typed, Typed', CalmInv, NEW w \in Workers, Retype(w) PROVE CalmInv'
<1>0. pc[w] = "retype" /\ UNCHANGED <<item, feed, calm>> /\ Finish(w)
  BY DEF Retype
<1>1. Undisturbed
  BY <1>0, RetypeRows, UndisturbedBy
<1>2. calm => Settled'
  BY <1>0, <1>1, CalmSettled, SettledKept
<1> QED BY <1>0, <1>2, CalmFinish

LEMMA CalmReport ==
    ASSUME Typed, Typed', CalmInv, NEW w \in Workers,
           InsertReport(w) \/ SaveReport(w) \/ LoadContent(w) \/ CountReports(w)
    PROVE  CalmInv'
<1>0. /\ pc[w] \in {"insertReport", "saveReport", "loadContent", "countReports"}
      /\ UNCHANGED <<item, feed, rea, calm>>
  BY DEF InsertReport, SaveReport, LoadContent, CountReports, tables, history
<1>1. Undisturbed
  BY <1>0, UndisturbedBy
<1>2. PICK q : q = req[w]
  OBVIOUS
<1>3. CASE InsertReport(w) \/ SaveReport(w)
  <2>1. PICK more \in BOOLEAN : ThenIf(more, w, "loadContent")
    BY <1>3 DEF InsertReport, SaveReport, ThenIf
  <2>2. PICK s : s = row[w]
    OBVIOUS
  <2>3. calm => Settled'
    BY <1>0, <1>1, CalmSettled, SettledKept
  <2>4. Settled' => InStep("loadContent", q, s)'
    BY StepSettledNext
  <2>5. q.item \in Items
    BY <1>2, <1>3 DEF InsertReport, SaveReport, Typed, Carried, Carries, Request
  <2> QED BY <1>0, <1>2, <2>1, <2>2, <2>3, <2>4, <2>5, CalmThen
<1>4. CASE LoadContent(w)
  <2>1. PICK s : s = item[req[w].item]
    OBVIOUS
  <2>2. /\ Goto(w, "countReports")
        /\ req' = [req EXCEPT ![w] = q] /\ row' = [row EXCEPT ![w] = s]
    BY <1>2, <1>4, <2>1 DEF LoadContent, Typed, TypeOK
  <2>3. s.reactions = item'[q.item].reactions
    BY <1>0, <1>2, <2>1
  <2> QED BY <1>0, <1>1, <2>2, <2>3, CalmGoto
<1>5. CASE CountReports(w)
  <2>1. PICK s : row' = [row EXCEPT ![w] = s] /\ s.reactions = row[w].reactions
    <3> DEFINE n == Cardinality(OpenReports(req[w].item))
               f == n > 0
    <3>1. row' = [row EXCEPT ![w].flagged = f, ![w].reports = n]
      BY <1>5 DEF CountReports
    <3> HIDE DEF n, f
    <3> DEFINE z == [row[w] EXCEPT !.flagged = f, !.reports = n]
    <3>2. row' = [row EXCEPT ![w] = z] /\ z.reactions = row[w].reactions
      BY <3>1 DEF Typed, TypeOK, ContentRow
    <3> HIDE DEF z
    <3> QED BY <3>2
  <2>2. Goto(w, "saveFlags") /\ req' = [req EXCEPT ![w] = q]
    BY <1>2, <1>5 DEF CountReports, Typed, TypeOK
  <2>3. calm => s.reactions = item'[q.item].reactions
    <3> SUFFICES ASSUME calm PROVE s.reactions = item'[q.item].reactions
      OBVIOUS
    <3>1. InStep("countReports", req[w], row[w])
      BY <1>5, CalmBusy DEF CountReports
    <3> QED BY <1>0, <1>2, <2>1, <3>1 DEF InStep
  <2> QED BY <1>0, <1>1, <2>1, <2>2, <2>3, CalmGoto
<1> QED BY <1>3, <1>4, <1>5

LEMMA CalmSaves ==
    ASSUME Typed, Typed', CalmInv, NEW w \in Workers, SaveFlags(w) \/ SaveItem(w) PROVE CalmInv'
<1>0. /\ pc[w] \in {"saveFlags", "saveItem"} /\ UNCHANGED <<feed, rea, calm>>
      /\ req[w].item \in Items /\ ThenIf(req[w].item \in Shown, w, "show")
  BY DEF SaveFlags, SaveItem, ThenShow, Typed, Carried, Carries, Request
<1>1. PICK j, q, s : j = req[w].item /\ q = req[w] /\ s = row[w]
  OBVIOUS
<1>2. /\ \A i \in Items : i # j => item'[i] = item[i]
      /\ item'[j].reactions = item[j].reactions \/ item'[j].reactions = row[w].reactions
  <2>1. CASE SaveFlags(w)
    BY <1>0, <1>1, <2>1 DEF SaveFlags, Typed, TypeOK, ContentRow
  <2>2. CASE SaveItem(w)
    BY <1>0, <1>1, <2>2 DEF SaveItem, Typed, TypeOK
  <2> QED BY <2>1, <2>2
<1>3. calm => row[w].reactions = item[j].reactions
  BY <1>0, <1>1, CalmBusy DEF InStep
<1>4. calm => Undisturbed
  BY <1>0, <1>2, <1>3, KeptSame DEF Undisturbed
<1>5. calm => Settled'
  BY <1>0, <1>4, CalmSettled, SettledKept
<1>6. calm => IF j \in Shown THEN InStep("show", q, s)' ELSE Settled'
  <2> SUFFICES ASSUME calm PROVE IF j \in Shown THEN InStep("show", q, s)' ELSE Settled'
    OBVIOUS
  <2>1. s.reactions = item'[q.item].reactions
    BY <1>0, <1>1, <1>2, <1>3
  <2>2. (s.reactions = item[q.item].reactions)'
    BY <2>1
  <2> QED BY <1>5, <2>2, StepSettledNext
<1>7. PICK more \in BOOLEAN : more <=> j \in Shown
  OBVIOUS
<1> QED BY <1>0, <1>1, <1>6, <1>7, CalmThen

LEMMA CalmAdmin ==
    ASSUME Typed, Typed', CalmInv, AdminDeleteReaction \/ AdminDeleteReport PROVE CalmInv'
<1> SUFFICES ASSUME calm' PROVE CalmInv'
  BY DEF CalmInv
<1>0. calm /\ Idle /\ UNCHANGED pc
  BY DEF AdminDeleteReaction, AdminDeleteReport
<1>1. Settled
  BY <1>0 DEF CalmInv
<1>2. Settled'
  <2>1. CASE AdminDeleteReaction
    <3>1. PICK r \in Reactions : Exists(r) /\ Remove(r, rea[r].item)
      BY <2>1 DEF AdminDeleteReaction
    <3>2. PICK j \in Items : j = rea[r].item
      BY <3>1 DEF Exists, Typed, TypeOK, ReactionRow
    <3> QED BY <1>1, <3>1, <3>2, RemoveSettled
  <2>2. CASE AdminDeleteReport
    <3>1. UNCHANGED rea
      BY <2>2 DEF AdminDeleteReport
    <3>2. \A i \in Items : item'[i].reactions = item[i].reactions
      BY <2>2 DEF AdminDeleteReport, Typed, TypeOK, ContentRow
    <3>3. \A i \in Shown : feed'[i] = item'[i].reactions
      BY <1>1, <2>2, <3>2 DEF AdminDeleteReport, Settled, Typed, TypeOK, Shown
    <3>4. \A i : RowsOf(i)' = RowsOf(i)
      BY <3>1 DEF RowsOf, Exists
    <3> QED BY <1>1, <3>2, <3>3, <3>4 DEF Settled, Counted, Shown
  <2> QED BY <2>1, <2>2
<1> QED BY <1>0, <1>2 DEF CalmInv, Idle

LEMMA CalmNext == Typed /\ Typed' /\ CalmInv /\ [Next]_vars => CalmInv'
<1> SUFFICES ASSUME Typed, Typed', CalmInv, [Next]_vars PROVE CalmInv'
  OBVIOUS
<1>1. ASSUME NEW w \in Workers, React(w) PROVE CalmInv'
  BY <1>1, CalmBegins, CalmInsert, CalmCount, CalmRefresh, CalmShow, CalmDelete, CalmRetype
     DEF React
<1>2. ASSUME NEW w \in Workers, Moderate(w) PROVE CalmInv'
  BY <1>2, CalmBegins, CalmReport, CalmSaves DEF Moderate
<1>3. ASSUME NEW w \in Workers, Edit(w) PROVE CalmInv'
  BY <1>3, CalmBegins, CalmSaves DEF Edit
<1>4. ASSUME NEW w \in Workers, Abort(w) PROVE CalmInv'
  BY <1>4 DEF Abort, CalmInv
<1>5. CASE UNCHANGED vars
  <2>1. CalmInv' <=> CalmInv
    BY <1>5 DEF vars, CalmInv, Settled, InStep, Idle, Owing, RowsOf, Exists, Counted, Shown
  <2> QED BY <2>1
<1> QED BY <1>1, <1>2, <1>3, <1>4, <1>5, CalmAdmin DEF Next

\* Requests that ran one after the other leave every counter and its copy in
\* the feed equal to the number of reactions.
THEOREM CountedWhenCalm == Spec => []ReactionsCounted
<1>1. Init => CalmInv
  <2> SUFFICES ASSUME Init PROVE CalmInv
    OBVIOUS
  <2>1. \A i \in Items : RowsOf(i) = {} /\ item[i].reactions = 0 /\ feed[i] = 0
    BY DEF Init, NoContent, RowsOf, Exists
  <2>2. Settled
    BY <2>1, FS_EmptySet DEF Settled, Counted, Shown
  <2> QED BY <2>2 DEF Init, CalmInv
<1>2. Typed /\ CalmInv /\ [Next]_vars => CalmInv'
  BY TypedNext, CalmNext
<1>3. CalmInv => ReactionsCounted
  BY DEF CalmInv, Settled, ReactionsCounted
<1> QED BY <1>1, <1>2, <1>3, AlwaysTyped, PTL DEF Spec

=============================================================================

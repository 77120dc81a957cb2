--------------------------- MODULE FaithFeedProofs ---------------------------
(***************************************************************************)
(* Proofs about FaithFeed: what the feed shows of prayer requests,         *)
(* testimonies and scriptures, what a request may undo, and when a cached  *)
(* page may hide items, for any contents, kinds and numbers of workers.    *)
(***************************************************************************)
EXTENDS FaithFeed, TLAPS

\* What a statement relies on its request to carry.
Carries(l, q, i) ==
    /\ l # "idle" => q \in Request
    /\ l \in {"insertFeed", "save", "push"} => q.on \in Contents /\ i \in Row
    /\ l = "pray" => q.on \in Contents
    /\ l = "save" => q.op \in Changing
    /\ l \in {"query", "store"} => q.view \in Views

Carried == \A w \in Workers : Carries(pc[w], req[w], inst[w])

Typed == TypeOK /\ Carried

-----------------------------------------------------------------------------
LEMMA NoRowApart ==
    ASSUME NEW r \in Row
    PROVE  r.kind \in {"prayer", "testimony", "scripture"} /\ r # NoRow
<1>1. r.kind \in {"prayer", "testimony", "scripture"}
  BY KindsAssumption DEF Row
<1>2. NoRow.kind = "none"
  BY DEF NoRow
<1> QED BY <1>1, <1>2

LEMMA NoItemTyped == NoItem \in Item
BY DEF NoItem, Item, Titles

\* The receivers' titles are titles, and the pin is a Boolean.
LEMMA TitleTyped ==
    ASSUME NEW r \in Row
    PROVE  NewTitle(r) \in Titles /\ Title(r) \in Titles /\ Pinned(r) \in BOOLEAN
<1>1. NewTitle(r) \in Titles
  BY DEF NewTitle, Titles
<1>2. Title(r) \in Titles
  BY <1>1 DEF Title, Titles
<1> QED BY <1>1, <1>2 DEF Pinned, Row

LEMMA NewRowTyped ==
    ASSUME NEW r \in NewRows, r.kind \in Kinds
    PROVE  r \in Row /\ ~r.answered /\ ~r.approved
<1>1. 0 \in 0 .. MaxPrays
  BY BoundAssumption
<1>2. CASE r \in NewPrayers
  <2>1. PICK b \in BOOLEAN : r = [NoRow EXCEPT !.kind = "prayer", !.urgent = b]
    BY <1>2 DEF NewPrayers
  <2>2. r = [kind |-> "prayer", urgent |-> b, answered |-> FALSE, prayed |-> 0, public |-> FALSE, approved |-> FALSE]
    BY <2>1 DEF NoRow
  <2> QED BY <1>1, <2>2 DEF Row
<1>3. CASE r \in NewTestimonies
  <2>1. PICK b \in BOOLEAN : r = [NoRow EXCEPT !.kind = "testimony", !.public = b]
    BY <1>3 DEF NewTestimonies
  <2>2. r = [kind |-> "testimony", urgent |-> FALSE, answered |-> FALSE, prayed |-> 0, public |-> b, approved |-> FALSE]
    BY <2>1 DEF NoRow
  <2> QED BY <1>1, <2>2 DEF Row
<1>4. CASE r \in NewScriptures
  <2>1. r = [kind |-> "scripture", urgent |-> FALSE, answered |-> FALSE, prayed |-> 0, public |-> FALSE, approved |-> FALSE]
    BY <1>4 DEF NewScriptures, NoRow
  <2> QED BY <1>1, <2>1 DEF Row
<1> QED BY <1>2, <1>3, <1>4 DEF NewRows

\* What a handler makes of an instance is one again, of the same kind.
LEMMA ChangedTyped ==
    ASSUME NEW r \in Row, NEW op \in Changing, NEW i \in Changed(op, r)
    PROVE  i \in Row /\ i.kind = r.kind
<1>1. r.kind \in {"prayer", "testimony", "scripture"}
  BY NoRowApart
<1>2. CASE op = "edit" /\ r.kind = "prayer"
  <2>1. PICK p \in BOOLEAN \X BOOLEAN : i = [r EXCEPT !.urgent = p[1], !.answered = p[2]]
    BY <1>2 DEF Changed
  <2>2. PICK b \in BOOLEAN, a \in BOOLEAN : i = [r EXCEPT !.urgent = b, !.answered = a]
    BY <2>1
  <2> QED BY <2>2 DEF Row
<1>3. CASE op = "edit" /\ r.kind = "testimony"
  <2>1. PICK b \in BOOLEAN : i = [r EXCEPT !.public = b]
    BY <1>3 DEF Changed
  <2> QED BY <2>1 DEF Row
<1>4. CASE op = "edit" /\ r.kind = "scripture"
  BY <1>4 DEF Changed
<1>5. CASE op = "answer"
  <2>1. i = [r EXCEPT !.answered = TRUE]
    BY <1>5 DEF Changed
  <2> QED BY <2>1 DEF Row
<1>6. CASE op = "share"
  <2>1. i = [r EXCEPT !.public = TRUE]
    BY <1>6 DEF Changed
  <2> QED BY <2>1 DEF Row
<1>7. CASE op = "approve"
  <2>1. i = [r EXCEPT !.approved = TRUE]
    BY <1>7 DEF Changed
  <2> QED BY <2>1 DEF Row
<1> QED BY <1>1, <1>2, <1>3, <1>4, <1>5, <1>6, <1>7 DEF Changing

LEMMA SavedTyped ==
    ASSUME NEW r \in Row, NEW op \in Changing, NEW i \in Row
    PROVE  Saved(op, r, i) \in Row
<1>1. CASE op = "edit"
  BY <1>1 DEF Saved
<1>2. CASE op = "answer"
  BY <1>2 DEF Saved, Row
<1>3. CASE op = "share"
  BY <1>3 DEF Saved, Row
<1>4. CASE op = "approve"
  BY <1>4 DEF Saved, Row
<1> QED BY <1>1, <1>2, <1>3, <1>4 DEF Changing

-----------------------------------------------------------------------------
(* Types                                                                   *)

LEMMA TypedInit == Init => Typed
BY NoItemTyped DEF Init, Typed, TypeOK, Carried, Carries, Labels

\* A worker goes on with label l, request q and instance i.
LEMMA TypedStep ==
    ASSUME Typed, NEW w \in Workers, NEW l \in Labels, NEW q \in Request \cup {NoReq},
           NEW i \in Row \cup {NoRow}, Carries(l, q, i),
           pc' = [pc EXCEPT ![w] = l], req' = [req EXCEPT ![w] = q], inst' = [inst EXCEPT ![w] = i]
    PROVE  /\ pc' \in [Workers -> Labels] /\ req' \in [Workers -> Request \cup {NoReq}]
           /\ inst' \in [Workers -> Row \cup {NoRow}] /\ Carried'
BY DEF Typed, TypeOK, Carried

LEMMA TypedFinish ==
    ASSUME Typed, NEW w \in Workers, Finish(w)
    PROVE  /\ pc' \in [Workers -> Labels] /\ req' \in [Workers -> Request \cup {NoReq}]
           /\ inst' \in [Workers -> Row \cup {NoRow}] /\ Carried'
<1>1. Carries("idle", NoReq, NoRow) /\ "idle" \in Labels
  BY DEF Carries, Labels
<1> QED BY <1>1, TypedStep DEF Finish

\* The request goes on with what it has.
LEMMA TypedOnward ==
    ASSUME Typed, NEW w \in Workers, NEW l \in Labels, Carries(l, req[w], inst[w]),
           pc' = [pc EXCEPT ![w] = l], req' = req, inst' = inst
    PROVE  /\ pc' \in [Workers -> Labels] /\ req' \in [Workers -> Request \cup {NoReq}]
           /\ inst' \in [Workers -> Row \cup {NoRow}] /\ Carried'
BY DEF Typed, TypeOK, Carried

LEMMA ArriveTyped == ASSUME Typed, NEW w \in Workers, Arrive(w) PROVE Typed'
<1>1. CASE Create(w)
  <2>1. PICK c \in Contents, r \in NewRows :
          /\ r.kind \in Kinds /\ Begin(w, [NoReq EXCEPT !.op = "create", !.on = c])
          /\ row' = [row EXCEPT ![c] = r] /\ inst' = [inst EXCEPT ![w] = r]
    BY <1>1 DEF Create
  <2> DEFINE q == [NoReq EXCEPT !.op = "create", !.on = c]
  <2>2. q \in Request /\ q.on = c
    BY DEF NoReq, Request, AllOps
  <2>3. r \in Row
    BY <2>1, NewRowTyped
  <2>4. pc' = [pc EXCEPT ![w] = "insertFeed"] /\ req' = [req EXCEPT ![w] = q] /\ calm' \in BOOLEAN
    BY <1>1, <2>1 DEF Create, Goto, Begin, Typed, TypeOK
  <2> HIDE DEF q
  <2>5. Carries("insertFeed", q, r) /\ "insertFeed" \in Labels
    BY <2>2, <2>3 DEF Carries, Labels
  <2>6. row' \in [Contents -> Row \cup {NoRow}]
    BY <2>1, <2>3 DEF Typed, TypeOK
  <2> QED BY <1>1, <2>1, <2>2, <2>3, <2>4, <2>5, <2>6, TypedStep DEF Create, Typed, TypeOK
<1>2. CASE Load(w)
  <2>1. PICK op \in Changing, c \in Contents :
          /\ Exists(c) /\ Begin(w, [NoReq EXCEPT !.op = op, !.on = c])
          /\ \E r \in Changed(op, row[c]) : inst' = [inst EXCEPT ![w] = r]
    BY <1>2 DEF Load
  <2>2. PICK r \in Changed(op, row[c]) : inst' = [inst EXCEPT ![w] = r]
    BY <2>1
  <2> DEFINE q == [NoReq EXCEPT !.op = op, !.on = c]
  <2>3. q \in Request /\ q.on = c /\ q.op = op
    BY DEF NoReq, Request, AllOps
  <2>4. row[c] \in Row
    BY <2>1 DEF Exists, Typed, TypeOK
  <2>5. r \in Row
    BY <2>4, ChangedTyped
  <2>6. pc' = [pc EXCEPT ![w] = "save"] /\ req' = [req EXCEPT ![w] = q] /\ calm' \in BOOLEAN
    BY <1>2, <2>1 DEF Load, Goto, Begin, Typed, TypeOK
  <2> HIDE DEF q
  <2>7. Carries("save", q, r) /\ "save" \in Labels
    BY <2>3, <2>5 DEF Carries, Labels
  <2> QED BY <1>2, <2>2, <2>3, <2>5, <2>6, <2>7, TypedStep DEF Load, Typed, TypeOK
<1>3. CASE BeginPray(w)
  <2>1. PICK c \in Contents : Begin(w, [NoReq EXCEPT !.op = "pray", !.on = c])
    BY <1>3 DEF BeginPray
  <2> DEFINE q == [NoReq EXCEPT !.op = "pray", !.on = c]
  <2>2. q \in Request /\ q.on = c
    BY DEF NoReq, Request, AllOps
  <2>3. pc' = [pc EXCEPT ![w] = "pray"] /\ req' = [req EXCEPT ![w] = q] /\ calm' \in BOOLEAN
        /\ inst' = [inst EXCEPT ![w] = inst[w]]
    BY <1>3, <2>1 DEF BeginPray, Goto, Begin, Typed, TypeOK
  <2> HIDE DEF q
  <2>4. Carries("pray", q, inst[w]) /\ "pray" \in Labels
    BY <2>2 DEF Carries, Labels
  <2> QED BY <1>3, <2>2, <2>3, <2>4, TypedStep DEF BeginPray, Typed, TypeOK
<1>4. CASE BeginRead(w)
  <2>1. PICK v \in Views : Begin(w, [NoReq EXCEPT !.op = "read", !.view = v])
    BY <1>4 DEF BeginRead
  <2> DEFINE q == [NoReq EXCEPT !.op = "read", !.view = v]
  <2>2. q \in Request /\ q.view = v
    BY DEF NoReq, Request, AllOps
  <2>3. pc' = [pc EXCEPT ![w] = "query"] /\ req' = [req EXCEPT ![w] = q] /\ calm' \in BOOLEAN
        /\ inst' = [inst EXCEPT ![w] = inst[w]]
    BY <1>4, <2>1 DEF BeginRead, Goto, Begin, Typed, TypeOK
  <2> HIDE DEF q
  <2>4. Carries("query", q, inst[w]) /\ "query" \in Labels
    BY <2>2 DEF Carries, Labels
  <2> QED BY <1>4, <2>2, <2>3, <2>4, TypedStep DEF BeginRead, Typed, TypeOK
<1> QED BY <1>1, <1>2, <1>3, <1>4 DEF Arrive

LEMMA InsertFeedTyped == ASSUME Typed, NEW w \in Workers, InsertFeed(w) PROVE Typed'
<1>1. /\ pc[w] = "insertFeed" /\ pc' = [pc EXCEPT ![w] = "purge"]
      /\ UNCHANGED <<row, cache, late, inst, calm>>
  BY DEF InsertFeed, Goto
<1>2. PICK c, i : c = req[w].on /\ i = inst[w] /\ c \in Contents /\ i \in Row
  BY <1>1 DEF Typed, Carried, Carries
<1>3. feed' = [feed EXCEPT ![c] = [n |-> feed[c].n + 1, kind |-> i.kind,
                                   title |-> NewTitle(i), pinned |-> Pinned(i)]]
  BY <1>2 DEF InsertFeed
<1>4. feed' \in [Contents -> Item]
  <2>1. feed[c] \in Item /\ feed[c].n + 1 \in Nat
    BY <1>2 DEF Typed, TypeOK, Item
  <2>2. i.kind \in Kinds
    BY <1>2 DEF Row
  <2>3. [n |-> feed[c].n + 1, kind |-> i.kind, title |-> NewTitle(i), pinned |-> Pinned(i)] \in Item
    BY <1>2, <2>1, <2>2, TitleTyped DEF Item
  <2> QED BY <1>3, <2>3 DEF Typed, TypeOK
<1>5. ASSUME NEW v \in Workers
      PROVE  /\ req'[v] \in Request \cup {NoReq} /\ (req[v] \in Request => req'[v] \in Request)
             /\ req[v] \in Request => req'[v].on = req[v].on /\ req'[v].op = req[v].op /\ req'[v].view = req[v].view
  <2>1. PICK b : req'[v] = [req[v] EXCEPT !.missed = req[v].missed \/ b] /\ b \in BOOLEAN
                 /\ (b => pc[v] = "store")
    BY DEF InsertFeed
  <2>2. CASE req[v] \in Request
    <3>1. (req[v].missed \/ b) \in BOOLEAN
      BY <2>1
    <3> QED BY <2>1, <2>2, <3>1 DEF Request
  <2>3. CASE req[v] = NoReq /\ req[v] \notin Request
    <3>1. ~b /\ NoReq.missed = FALSE
      BY <2>1, <2>3 DEF Typed, Carried, Carries, NoReq
    <3>2. req'[v] = [NoReq EXCEPT !.missed = FALSE]
      BY <2>1, <2>3, <3>1
    <3> QED BY <2>3, <3>2 DEF NoReq
  <2> QED BY <2>2, <2>3 DEF Typed, TypeOK
<1>6. req' \in [Workers -> Request \cup {NoReq}]
  <2>1. DOMAIN req' = Workers /\ req' = [v \in Workers |-> req'[v]]
    BY DEF InsertFeed
  <2> QED BY <1>5, <2>1
<1>7. Carried'
  BY <1>1, <1>5 DEF Typed, TypeOK, Carried, Carries
<1> QED BY <1>1, <1>4, <1>6, <1>7 DEF Typed, TypeOK, Labels

LEMMA ContinueTyped == ASSUME Typed, NEW w \in Workers, Continue(w), ~InsertFeed(w) PROVE Typed'
<1>1. CASE Purge(w)
  BY <1>1, TypedFinish DEF Purge, Typed, TypeOK
<1>2. CASE Save(w)
  <2>1. PICK c, op, i : /\ c = req[w].on /\ op = req[w].op /\ i = inst[w]
                        /\ c \in Contents /\ op \in Changing /\ i \in Row /\ req[w] \in Request
    BY <1>2 DEF Save, Typed, Carried, Carries
  <2>2. UNCHANGED <<feed, cache, late, calm>>
    BY <1>2 DEF Save
  <2>3. CASE Exists(c) /\ row' = [row EXCEPT ![c] = Saved(op, row[c], i)] /\ Goto(w, "push") /\ UNCHANGED <<req, inst>>
    <3>1. Saved(op, row[c], i) \in Row
      BY <2>1, <2>3, SavedTyped DEF Exists, Typed, TypeOK
    <3>2. Carries("push", req[w], inst[w]) /\ "push" \in Labels
      BY <2>1 DEF Carries, Labels
    <3> QED BY <2>2, <2>3, <3>1, <3>2, TypedOnward DEF Goto, Typed, TypeOK
  <2>4. CASE row' = [row EXCEPT ![c] = i] /\ Goto(w, "insertFeed") /\ UNCHANGED <<req, inst>>
    <3>1. Carries("insertFeed", req[w], inst[w]) /\ "insertFeed" \in Labels
      BY <2>1 DEF Carries, Labels
    <3> QED BY <2>1, <2>2, <2>4, <3>1, TypedOnward DEF Goto, Typed, TypeOK
  <2>5. CASE Finish(w) /\ UNCHANGED row
    BY <2>2, <2>5, TypedFinish DEF Typed, TypeOK
  <2> QED BY <1>2, <2>1, <2>3, <2>4, <2>5 DEF Save
<1>3. CASE Push(w)
  <2>1. PICK c, i : c = req[w].on /\ i = inst[w] /\ c \in Contents /\ i \in Row
    BY <1>3 DEF Push, Typed, Carried, Carries
  <2>2. feed' = IF feed[c].n = 0 THEN feed
                ELSE [feed EXCEPT ![c].title = Title(i), ![c].pinned = Pinned(i)]
    BY <1>3, <2>1 DEF Push
  <2>3. \A f \in Item : [f EXCEPT !.title = Title(i), !.pinned = Pinned(i)] \in Item
    BY <2>1, TitleTyped DEF Item
  <2>4. feed' \in [Contents -> Item]
    BY <2>1, <2>2, <2>3 DEF Typed, TypeOK
  <2> QED BY <1>3, <2>4, TypedFinish DEF Push, Typed, TypeOK
<1>4. CASE Pray(w)
  <2>1. PICK c : c = req[w].on /\ c \in Contents
    BY <1>4 DEF Pray, Typed, Carried, Carries
  <2>2. row' = IF Exists(c) /\ row[c].prayed < MaxPrays THEN [row EXCEPT ![c].prayed = row[c].prayed + 1] ELSE row
    BY <1>4, <2>1 DEF Pray
  <2>3. Exists(c) /\ row[c].prayed < MaxPrays => [row[c] EXCEPT !.prayed = row[c].prayed + 1] \in Row
    BY <2>1, BoundAssumption DEF Exists, Row, Typed, TypeOK
  <2>4. row' \in [Contents -> Row \cup {NoRow}]
    BY <2>1, <2>2, <2>3 DEF Typed, TypeOK
  <2> QED BY <1>4, <2>4, TypedFinish DEF Pray, Typed, TypeOK
<1>5. CASE Query(w)
  <2>1. UNCHANGED <<row, feed, cache, late, calm>>
    BY <1>5 DEF Query
  <2>2. CASE Finish(w)
    BY <2>1, <2>2, TypedFinish DEF Typed, TypeOK
  <2>3. CASE Goto(w, "store") /\ UNCHANGED <<req, inst>>
    <3>1. Carries("store", req[w], inst[w]) /\ "store" \in Labels
      BY <1>5 DEF Query, Typed, Carried, Carries, Labels
    <3> QED BY <2>1, <2>3, <3>1, TypedOnward DEF Goto, Typed, TypeOK
  <2> QED BY <1>5, <2>2, <2>3 DEF Query
<1>6. CASE Store(w)
  <2>1. req[w].view \in Views
    BY <1>6 DEF Store, Typed, Carried, Carries
  <2> QED BY <1>6, <2>1, TypedFinish DEF Store, Typed, TypeOK
<1> QED BY <1>1, <1>2, <1>3, <1>4, <1>5, <1>6 DEF Continue

LEMMA OthersTyped ==
    ASSUME Typed, Delete \/ (\E v \in Views : Expire(v)) \/ \E w \in Workers : Abort(w)
    PROVE  Typed'
<1>1. CASE Delete
  <2>1. Carried'
    BY <1>1 DEF Delete, Typed, Carried
  <2>2. calm' \in BOOLEAN /\ cache' \subseteq Views /\ late' \subseteq Views
    BY <1>1 DEF Delete, Typed, TypeOK
  <2>3. row' \in [Contents -> Row \cup {NoRow}] /\ feed' \in [Contents -> Item]
    BY <1>1, NoItemTyped DEF Delete, Typed, TypeOK
  <2> QED BY <1>1, <2>1, <2>2, <2>3 DEF Delete, Typed, TypeOK
<1>2. ASSUME NEW v \in Views, Expire(v) PROVE Typed'
  BY <1>2 DEF Expire, Typed, TypeOK, Carried
<1>3. ASSUME NEW w \in Workers, Abort(w) PROVE Typed'
  BY <1>3, TypedFinish DEF Abort, Purged, Typed, TypeOK, Views
<1> QED BY <1>1, <1>2, <1>3

LEMMA TypedNext == Typed /\ [Next]_vars => Typed'
<1> SUFFICES ASSUME Typed, [Next]_vars PROVE Typed'
  OBVIOUS
<1>1. CASE UNCHANGED vars
  BY <1>1 DEF vars, Typed, TypeOK, Carried
<1> QED BY <1>1, ArriveTyped, InsertFeedTyped, ContinueTyped, OthersTyped DEF Next

-----------------------------------------------------------------------------
(* Cached pages                                                            *)

\* A page that is about to be stored, and missed nothing, is still right.
StoreInv ==
    \A w \in Workers :
        pc[w] = "store" /\ req[w].view = "all" /\ ~req[w].missed => Shown("all") = {}

\* The page of every item that the purge deletes.
AllInv ==
    "all" \in cache /\ Shown("all") # {} /\ (\A w \in Workers : pc[w] # "purge") => "all" \in late

HideInv == StoreInv /\ AllInv

LEMMA HideInit == Init => HideInv
BY DEF Init, HideInv, StoreInv, AllInv

\* Steps that add no item and store no page.
LEMMA HideStep ==
    ASSUME Typed, HideInv, NEW w \in Workers, NEW l, NEW q,
           pc' = [pc EXCEPT ![w] = l], req' = [req EXCEPT ![w] = q],
           pc[w] # "purge", Shown("all")' \subseteq Shown("all"), UNCHANGED <<cache, late>>,
           l = "store" /\ q.view = "all" /\ ~q.missed => Shown("all") = {}
    PROVE  HideInv'
<1>1. \A v \in Workers \ {w} : pc'[v] = pc[v] /\ req'[v] = req[v]
  BY DEF Typed, TypeOK
<1>2. pc'[w] = l /\ req'[w] = q
  BY DEF Typed, TypeOK
<1>3. StoreInv'
  BY <1>1, <1>2 DEF HideInv, StoreInv
<1>4. (\A v \in Workers : pc'[v] # "purge") => \A v \in Workers : pc[v] # "purge"
  BY <1>1
<1>5. AllInv'
  BY <1>4 DEF HideInv, AllInv
<1> QED BY <1>3, <1>5 DEF HideInv

\* A request ends.
LEMMA HideFinish ==
    ASSUME Typed, HideInv, NEW w \in Workers, Finish(w), Shown("all")' \subseteq Shown("all"),
           AllInv'
    PROVE  HideInv'
<1>1. ASSUME NEW v \in Workers, pc'[v] = "store" PROVE pc[v] = "store" /\ req'[v] = req[v]
  BY <1>1 DEF Finish, Typed, TypeOK
<1>2. StoreInv'
  BY <1>1 DEF HideInv, StoreInv
<1> QED BY <1>2 DEF HideInv

LEMMA HideArrive == ASSUME Typed, HideInv, NEW w \in Workers, Arrive(w) PROVE HideInv'
<1>1. PICK l, q : l \in {"insertFeed", "save", "pray", "query"} /\ Goto(w, l) /\ Begin(w, q)
  BY DEF Arrive, Create, Load, BeginPray, BeginRead
<1>2. UNCHANGED <<feed, cache, late>>
  BY DEF Arrive, Create, Load, BeginPray, BeginRead
<1>3. Shown("all")' = Shown("all")
  BY <1>2 DEF Shown
<1> QED BY <1>1, <1>2, <1>3, HideStep DEF Goto, Begin

LEMMA HideInsertFeed == ASSUME Typed, HideInv, NEW w \in Workers, InsertFeed(w) PROVE HideInv'
<1>1. pc' = [pc EXCEPT ![w] = "purge"]
  BY DEF InsertFeed, Goto
<1>2. pc'[w] = "purge" /\ \A v \in Workers \ {w} : pc'[v] = pc[v]
  BY <1>1 DEF Typed, TypeOK
<1>3. ASSUME NEW v \in Workers, pc'[v] = "store", req'[v].view = "all" PROVE req'[v].missed
  <2>1. req[v] \in Request /\ pc[v] = "store"
    BY <1>2, <1>3 DEF Typed, Carried, Carries
  <2>2. req'[v] = [req[v] EXCEPT !.missed =
                     req[v].missed \/ (pc[v] = "store" /\ InView(inst[w].kind, req[v].view))]
    BY DEF InsertFeed
  <2>3. req'[v].view = req[v].view
        /\ req'[v].missed = (req[v].missed \/ (pc[v] = "store" /\ InView(inst[w].kind, req[v].view)))
    BY <2>1, <2>2 DEF Request
  <2> QED BY <1>3, <2>1, <2>3 DEF InView
<1>4. StoreInv'
  BY <1>3 DEF StoreInv
<1>5. AllInv'
  BY <1>2 DEF AllInv
<1> QED BY <1>4, <1>5 DEF HideInv

LEMMA HideContinue == ASSUME Typed, HideInv, NEW w \in Workers, Continue(w), ~InsertFeed(w) PROVE HideInv'
<1>0. req' = req => req' = [req EXCEPT ![w] = req[w]]
  BY DEF Typed, TypeOK
<1>1. CASE Purge(w)
  <2>1. Finish(w) /\ "all" \notin cache' /\ Shown("all")' = Shown("all")
    BY <1>1 DEF Purge, Purged, Shown
  <2> QED BY <2>1, HideFinish DEF AllInv
<1>2. CASE Save(w)
  <2>1. PICK l, q : pc' = [pc EXCEPT ![w] = l] /\ req' = [req EXCEPT ![w] = q] /\ l # "store"
    BY <1>0, <1>2 DEF Save, Goto, Finish
  <2>2. pc[w] # "purge" /\ UNCHANGED <<cache, late>> /\ Shown("all")' = Shown("all")
    BY <1>2 DEF Save, Shown
  <2> QED BY <2>1, <2>2, HideStep
<1>3. CASE Push(w)
  <2>1. \A c \in Contents : feed'[c].n = feed[c].n /\ feed'[c].kind = feed[c].kind
    <3>1. PICK c, t, b : feed' = feed \/ feed' = [feed EXCEPT ![c].title = t, ![c].pinned = b]
      BY <1>3 DEF Push
    <3>2. \A f \in Item : [f EXCEPT !.title = t, !.pinned = b].n = f.n
                          /\ [f EXCEPT !.title = t, !.pinned = b].kind = f.kind
      BY DEF Item
    <3>3. ASSUME NEW e \in Contents, feed' = [feed EXCEPT ![c].title = t, ![c].pinned = b]
          PROVE  feed'[e] = feed[e] \/ feed'[e] = [feed[e] EXCEPT !.title = t, !.pinned = b]
      BY <3>3 DEF Typed, TypeOK
    <3>4. \A e \in Contents : feed[e] \in Item
      BY DEF Typed, TypeOK
    <3> QED BY <3>1, <3>2, <3>3, <3>4
  <2>2. Shown("all")' = Shown("all")
    BY <2>1 DEF Shown
  <2> QED BY <1>3, <2>2, HideStep DEF Push, Finish
<1>4. CASE Pray(w)
  <2>1. Shown("all")' = Shown("all")
    BY <1>4 DEF Pray, Shown
  <2> QED BY <1>4, <2>1, HideStep DEF Pray, Finish
<1>5. CASE Query(w)
  <2>1. Shown("all")' = Shown("all") /\ pc[w] = "query" /\ UNCHANGED <<cache, late>>
    BY <1>5 DEF Query, Shown
  <2>2. CASE Finish(w)
    BY <2>1, <2>2, HideStep DEF Finish
  <2>3. CASE Shown(req[w].view) = {} /\ Goto(w, "store") /\ req' = req
    BY <1>0, <2>1, <2>3, HideStep DEF Goto
  <2> QED BY <1>5, <2>2, <2>3 DEF Query
<1>6. CASE Store(w)
  <2>1. /\ pc[w] = "store" /\ Finish(w) /\ Shown("all")' = Shown("all") /\ cache' = cache \cup {req[w].view}
        /\ late' = IF req[w].missed THEN late \cup ({req[w].view} \cap Purged) ELSE late \ {req[w].view}
    BY <1>6 DEF Store, Purged, Shown
  <2>2. (\A v \in Workers : pc'[v] # "purge") => \A v \in Workers : pc[v] # "purge"
    BY <2>1 DEF Finish, Typed, TypeOK
  <2>3. AllInv'
    <3>1. CASE req[w].view = "all"
      BY <2>1, <3>1 DEF HideInv, StoreInv, AllInv, Purged
    <3>2. CASE req[w].view # "all"
      BY <2>1, <2>2, <3>2 DEF HideInv, AllInv
    <3> QED BY <3>1, <3>2
  <2> QED BY <2>1, <2>3, HideFinish
<1> QED BY <1>1, <1>2, <1>3, <1>4, <1>5, <1>6 DEF Continue

LEMMA HideOthers ==
    ASSUME Typed, HideInv, Delete \/ (\E v \in Views : Expire(v)) \/ \E w \in Workers : Abort(w)
    PROVE  HideInv'
<1>1. CASE Delete
  <2>1. PICK c \in Contents :
          /\ feed' = [feed EXCEPT ![c] = NoItem]
          /\ cache' = IF feed[c].n > 0 THEN cache \ {"all"} ELSE cache
          /\ late' = late \cap cache' /\ UNCHANGED <<pc, req>>
    BY <1>1 DEF Delete, Purged
  <2>2. Shown("all")' \subseteq Shown("all")
    BY <2>1 DEF Shown, NoItem, InView, Typed, TypeOK
  <2>3. StoreInv'
    BY <2>1, <2>2 DEF HideInv, StoreInv
  <2>4. AllInv'
    BY <2>1, <2>2 DEF HideInv, AllInv
  <2> QED BY <2>3, <2>4 DEF HideInv
<1>2. ASSUME NEW v \in Views, Expire(v) PROVE HideInv'
  <2>1. Shown("all")' = Shown("all") /\ UNCHANGED <<pc, req>> /\ cache' = cache \ {v} /\ late' = late \ {v}
    BY <1>2 DEF Expire, Shown
  <2> QED BY <2>1 DEF HideInv, StoreInv, AllInv
<1>3. ASSUME NEW w \in Workers, Abort(w) PROVE HideInv'
  <2>1. Finish(w) /\ Shown("all")' = Shown("all") /\ cache' = cache
        /\ late' = IF pc[w] = "purge" THEN late \cup ({"all"} \cap cache) ELSE late
    BY <1>3 DEF Abort, Purged, Shown
  <2>2. pc[w] # "purge" => ((\A v \in Workers : pc'[v] # "purge") => \A v \in Workers : pc[v] # "purge")
    BY <2>1 DEF Finish, Typed, TypeOK
  <2>3. AllInv'
    BY <2>1, <2>2 DEF HideInv, AllInv
  <2> QED BY <2>1, <2>3, HideFinish
<1> QED BY <1>1, <1>2, <1>3

LEMMA HideNext == Typed /\ HideInv /\ [Next]_vars => HideInv'
<1> SUFFICES ASSUME Typed, HideInv, [Next]_vars PROVE HideInv'
  OBVIOUS
<1>1. CASE UNCHANGED vars
  BY <1>1 DEF vars, HideInv, StoreInv, AllInv, Shown
<1> QED BY <1>1, HideArrive, HideInsertFeed, HideContinue, HideOthers DEF Next

-----------------------------------------------------------------------------
(* What requests undo                                                      *)

Undoing(c) == \E w \in Workers : req[w].on = c /\ pc[w] = "save" /\ req[w].op \in {"edit", "share"}

UndoOnly == \A c \in Contents : Undone(c) => Undoing(c)

\* What is saved by an answer or an approval keeps what was decided.
LEMMA SavedKeeps ==
    ASSUME NEW r \in Row, NEW op \in {"answer", "approve"}, NEW i
    PROVE  LET s == Saved(op, r, i)
           IN (r.answered => s.answered) /\ (r.approved => s.approved) /\ s.prayed = r.prayed
BY DEF Saved, Row

LEMMA UndoStep == Typed /\ [Next]_vars => UndoOnly \/ UNCHANGED row
<1> SUFFICES ASSUME Typed, Next, row' # row, NEW c \in Contents, Undone(c) PROVE Undoing(c)
  BY DEF vars, UndoOnly
<1>0. /\ Exists(c)'
      /\ Exists(c) => \/ row[c].answered /\ ~row'[c].answered
                      \/ row[c].approved /\ ~row'[c].approved
                      \/ row[c].prayed > row'[c].prayed
      /\ ~Exists(c) => \A w \in Workers : pc[w] # "idle" \/ req'[w].op # "create"
  BY DEF Undone
<1>1. ASSUME NEW w \in Workers, Create(w) PROVE FALSE
  <2>1. PICK d \in Contents, r \in NewRows : /\ ~Exists(d) /\ row' = [row EXCEPT ![d] = r]
                                             /\ Begin(w, [NoReq EXCEPT !.op = "create", !.on = d])
    BY <1>1 DEF Create
  <2>2. pc[w] = "idle" /\ req'[w].op = "create"
    BY <2>1 DEF Begin, NoReq, Typed, TypeOK
  <2>3. Exists(c) /\ row'[c] = row[c]
    BY <1>0, <2>1, <2>2 DEF Typed, TypeOK
  <2> QED BY <1>0, <2>3, BoundAssumption DEF Exists, Row, Typed, TypeOK
<1>2. ASSUME NEW w \in Workers, Save(w) PROVE Undoing(c)
  <2>1. PICK d, op, i : d = req[w].on /\ op = req[w].op /\ i = inst[w] /\ d \in Contents /\ op \in Changing
    BY <1>2 DEF Save, Typed, Carried, Carries
  <2>2. /\ pc[w] = "save"
        /\ \/ Exists(d) /\ row' = [row EXCEPT ![d] = Saved(op, row[d], i)]
           \/ op = "edit" /\ row' = [row EXCEPT ![d] = i]
    BY <1>2, <2>1 DEF Save
  <2>3. c = d
    <3>1. c # d => row'[c] = row[c]
      BY <2>2 DEF Typed, TypeOK
    <3> QED BY <1>0, <3>1, BoundAssumption DEF Exists, Row, Typed, TypeOK
  <2>4. CASE op \in {"edit", "share"}
    BY <2>1, <2>2, <2>3, <2>4 DEF Undoing
  <2>5. CASE op \in {"answer", "approve"}
    <3>1. Exists(c) /\ row[c] \in Row /\ row'[c] = Saved(op, row[c], i)
      BY <2>2, <2>3, <2>5 DEF Exists, Typed, TypeOK
    <3>2. row[c].prayed \in Int
      BY <3>1, BoundAssumption DEF Row
    <3> QED BY <1>0, <2>5, <3>1, <3>2, SavedKeeps
  <2> QED BY <2>1, <2>4, <2>5 DEF Changing
<1>3. ASSUME NEW w \in Workers, Pray(w) PROVE FALSE
  <2>1. PICK d : d = req[w].on /\ d \in Contents
    BY <1>3 DEF Pray, Typed, Carried, Carries
  <2>2. row' = [row EXCEPT ![d].prayed = row[d].prayed + 1] /\ Exists(d)
    BY <1>3, <2>1 DEF Pray
  <2>3. c # d => row'[c] = row[c]
    BY <2>2 DEF Typed, TypeOK
  <2>4. Exists(c) /\ row[c] \in Row /\ row[c].prayed \in Int
    BY <1>0, <2>2, <2>3, BoundAssumption DEF Exists, Row, Typed, TypeOK
  <2>5. row'[c] = row[c] \/ row'[c] = [row[c] EXCEPT !.prayed = row[c].prayed + 1]
    BY <2>1, <2>2, <2>3 DEF Typed, TypeOK
  <2>6. row'[c].answered = row[c].answered /\ row'[c].approved = row[c].approved 
        /\ row'[c].prayed \in Int /\ row'[c].prayed >= row[c].prayed
    BY <2>4, <2>5 DEF Row
  <2> QED BY <1>0, <2>4, <2>6
<1>4. ~Delete
  <2>1. Delete => row'[c] = row[c] \/ ~Exists(c)'
    BY DEF Delete, Exists, Typed, TypeOK
  <2>2. Delete /\ Exists(c)' => row'[c] = row[c] /\ Exists(c)
    BY <2>1 DEF Exists
  <2> QED BY <1>0, <2>2, BoundAssumption DEF Exists, Row, Typed, TypeOK
<1>5. ASSUME NEW w \in Workers, Arrive(w) \/ Continue(w) \/ Abort(w), ~Create(w), ~Save(w), ~Pray(w)
      PROVE FALSE
  BY <1>5 DEF Arrive, Continue, Abort, Load, BeginPray, BeginRead, InsertFeed, Purge, Push, Query, Store
<1>6. ASSUME NEW v \in Views, Expire(v) PROVE FALSE
  BY <1>6 DEF Expire
<1> QED BY <1>1, <1>2, <1>3, <1>4, <1>5, <1>6 DEF Next

-----------------------------------------------------------------------------
(* The feed of requests that ran one after the other                       *)

\* The feed item that shows a row, and the request that is still to bring it.
Mirror(r) ==
    IF r = NoRow THEN NoItem
    ELSE [n |-> 1, kind |-> r.kind, title |-> Title(r), pinned |-> Pinned(r)]

Behind(l, q, c) == l \in {"insertFeed", "push"} /\ q.on = c

\* What a request that runs alone finds at its next statement.
Ready(l, q, i) ==
    /\ l = "insertFeed" => row[q.on] = i /\ ~i.answered /\ ~i.approved /\ feed[q.on] = NoItem
    /\ l = "save" => Exists(q.on) /\ i \in Changed(q.op, row[q.on])
    /\ l = "push" => row[q.on] = i /\ feed[q.on].n = 1 /\ feed[q.on].kind = i.kind

Alone(w) == \A v \in Workers \ {w} : pc[v] = "idle"

RunsAlone(w) == Alone(w) /\ Ready(pc[w], req[w], inst[w])
Mirrored(c)  == feed[c] = Mirror(row[c])
Waiting(c)   == \E w \in Workers : Behind(pc[w], req[w], c)

CalmInv ==
    calm => /\ \A w \in Workers : pc[w] # "idle" => RunsAlone(w)
            /\ \A c \in Contents : Waiting(c) \/ Mirrored(c)

LEMMA CalmMirrors == CalmInv => FeedMirrors
<1> SUFFICES ASSUME CalmInv, calm, Idle, NEW c \in Contents PROVE Mirrored(c)
  BY DEF FeedMirrors, Mirrored, Mirror, Exists
<1>1. ~Waiting(c)
  BY DEF Idle, Waiting, Behind
<1> QED BY <1>1 DEF CalmInv

\* What is saved of an instance that is not behind its row is that instance.
LEMMA SavedIsChanged ==
    ASSUME NEW r \in Row, NEW op \in Changing, NEW i \in Changed(op, r)
    PROVE  Saved(op, r, i) = i
<1>1. CASE op = "edit"
  BY <1>1 DEF Saved
<1>2. CASE op = "answer"
  BY <1>2 DEF Saved, Changed
<1>3. CASE op = "share"
  <2>1. i = [r EXCEPT !.public = TRUE]
    BY <1>3 DEF Changed
  <2>2. i.approved = r.approved
    BY <2>1 DEF Row
  <2>3. Saved(op, r, i) = [r EXCEPT !.public = TRUE, !.approved = r.approved]
    BY <1>3, <2>2 DEF Saved
  <2> QED BY <2>1, <2>3 DEF Row
<1>4. CASE op = "approve"
  BY <1>4 DEF Saved, Changed
<1> QED BY <1>1, <1>2, <1>3, <1>4 DEF Changing

\* A worker that runs alone goes on: nobody else is behind.
LEMMA CalmStep ==
    ASSUME Typed, NEW w \in Workers, NEW l, NEW q, NEW i, Alone(w),
           pc' = [pc EXCEPT ![w] = l], req'[w] = q, inst'[w] = i, Ready(l, q, i)',
           \A c \in Contents : Behind(l, q, c) \/ Mirrored(c)'
    PROVE  CalmInv'
<1>1. pc'[w] = l /\ \A v \in Workers \ {w} : pc'[v] = "idle"
  BY DEF Typed, TypeOK, Alone
<1>2. RunsAlone(w)'
  BY <1>1 DEF RunsAlone, Alone, Ready
<1>3. \A v \in Workers : pc'[v] # "idle" => v = w
  BY <1>1
<1>4. ASSUME NEW c \in Contents PROVE Waiting(c)' \/ Mirrored(c)'
  BY <1>1 DEF Waiting, Behind, Mirrored
<1> QED BY <1>2, <1>3, <1>4 DEF CalmInv

LEMMA CalmInit == Init => CalmInv
BY DEF Init, CalmInv, Mirrored, Mirror

\* The only request is behind no content, and leaves rows and items as they are.
LEMMA CalmKept ==
    ASSUME Typed, CalmInv, calm, NEW w \in Workers, NEW l \in {"idle", "purge", "pray", "query", "store"},
           Alone(w), ~\E c \in Contents : Waiting(c), pc' = [pc EXCEPT ![w] = l], UNCHANGED <<row, feed>>
    PROVE  CalmInv'
<1>1. PICK q, i : q = req'[w] /\ i = inst'[w]
  OBVIOUS
<1>2. Ready(l, q, i)'
  BY DEF Ready
<1>3. \A c \in Contents : Mirrored(c)'
  BY DEF CalmInv, Mirrored
<1> QED BY <1>1, <1>2, <1>3, CalmStep

LEMMA CalmArrive == ASSUME Typed, CalmInv, NEW w \in Workers, Arrive(w) PROVE CalmInv'
<1>1. calm' = (calm /\ Idle) /\ pc[w] = "idle"
  BY DEF Arrive, Create, Load, BeginPray, BeginRead, Begin
<1> SUFFICES ASSUME calm, Idle PROVE CalmInv'
  BY <1>1 DEF CalmInv
<1>2. Alone(w)
  BY DEF Idle, Alone
<1>3. \A c \in Contents : ~Waiting(c) /\ Mirrored(c)
  BY DEF CalmInv, Idle, Waiting, Behind
<1>4. CASE Create(w)
  <2>1. PICK c \in Contents, r \in NewRows :
          /\ r.kind \in Kinds /\ feed[c] = NoItem /\ Begin(w, [NoReq EXCEPT !.op = "create", !.on = c])
          /\ row' = [row EXCEPT ![c] = r] /\ inst' = [inst EXCEPT ![w] = r]
    BY <1>4 DEF Create
  <2>2. PICK q : q = [NoReq EXCEPT !.op = "create", !.on = c]
    OBVIOUS
  <2>3. q.on = c
    BY <2>2 DEF NoReq
  <2>4. pc' = [pc EXCEPT ![w] = "insertFeed"] /\ req'[w] = q /\ inst'[w] = r /\ feed' = feed
    BY <1>4, <2>1, <2>2 DEF Create, Goto, Begin, Typed, TypeOK
  <2>5. ~r.answered /\ ~r.approved
    BY <2>1, NewRowTyped
  <2>6. Ready("insertFeed", q, r)'
    BY <2>1, <2>3, <2>4, <2>5 DEF Ready, Typed, TypeOK
  <2>7. \A d \in Contents : Behind("insertFeed", q, d) \/ Mirrored(d)'
    BY <1>3, <2>1, <2>3, <2>4 DEF Behind, Mirrored, Typed, TypeOK
  <2> QED BY <1>2, <2>4, <2>6, <2>7, CalmStep
<1>5. CASE Load(w)
  <2>1. PICK op \in Changing, c \in Contents :
          /\ Exists(c) /\ Begin(w, [NoReq EXCEPT !.op = op, !.on = c])
          /\ \E r \in Changed(op, row[c]) : inst' = [inst EXCEPT ![w] = r]
    BY <1>5 DEF Load
  <2>2. PICK r \in Changed(op, row[c]) : inst' = [inst EXCEPT ![w] = r]
    BY <2>1
  <2>3. PICK q : q = [NoReq EXCEPT !.op = op, !.on = c]
    OBVIOUS
  <2>4. q.on = c /\ q.op = op
    BY <2>3 DEF NoReq
  <2>5. pc' = [pc EXCEPT ![w] = "save"] /\ req'[w] = q /\ inst'[w] = r /\ UNCHANGED <<row, feed>>
    BY <1>5, <2>1, <2>2, <2>3 DEF Load, Goto, Begin, Typed, TypeOK
  <2>6. Ready("save", q, r)'
    BY <2>1, <2>2, <2>4, <2>5 DEF Ready, Exists
  <2>7. \A d \in Contents : Mirrored(d)'
    BY <1>3, <2>5 DEF Mirrored
  <2> QED BY <1>2, <2>5, <2>6, <2>7, CalmStep
<1>6. CASE BeginPray(w) \/ BeginRead(w)
  <2>1. PICK l : l \in {"pray", "query"} /\ Goto(w, l) /\ UNCHANGED <<row, feed>>
    BY <1>6 DEF BeginPray, BeginRead
  <2> QED BY <1>2, <1>3, <2>1, CalmKept DEF Goto
<1> QED BY <1>4, <1>5, <1>6 DEF Arrive

\* The receivers' title of a new row is the one it keeps while nothing is decided.
LEMMA InsertShows ==
    ASSUME NEW r \in Row, ~r.answered, ~r.approved, NEW n \in Nat, n = 1
    PROVE  [n |-> n, kind |-> r.kind, title |-> NewTitle(r), pinned |-> Pinned(r)] = Mirror(r)
<1>1. Title(r) = NewTitle(r)
  BY DEF Title
<1> QED BY <1>1, NoRowApart DEF Mirror

LEMMA CalmInsertFeed == ASSUME Typed, CalmInv, NEW w \in Workers, InsertFeed(w) PROVE CalmInv'
<1>1. pc[w] = "insertFeed" /\ pc' = [pc EXCEPT ![w] = "purge"] /\ UNCHANGED <<row, calm>>
  BY DEF InsertFeed, Goto
<1> SUFFICES ASSUME calm PROVE CalmInv'
  BY <1>1 DEF CalmInv
<1>2. Alone(w) /\ Ready(pc[w], req[w], inst[w])
  BY <1>1 DEF CalmInv, RunsAlone
<1>3. PICK c, i : c = req[w].on /\ i = inst[w] /\ c \in Contents /\ i \in Row
  BY <1>1 DEF Typed, Carried, Carries
<1>4. row[c] = i /\ ~i.answered /\ ~i.approved /\ feed[c] = NoItem
  BY <1>1, <1>2, <1>3 DEF Ready
<1>5. feed' = [feed EXCEPT ![c] = [n |-> feed[c].n + 1, kind |-> i.kind,
                                   title |-> NewTitle(i), pinned |-> Pinned(i)]]
  BY <1>3 DEF InsertFeed
<1>6. feed[c].n + 1 = 1
  BY <1>4 DEF NoItem
<1>7. feed'[c] = Mirror(row'[c])
  BY <1>1, <1>3, <1>4, <1>5, <1>6, InsertShows DEF Typed, TypeOK
<1>8. \A d \in Contents \ {c} : ~Waiting(d)
  BY <1>1, <1>2, <1>3 DEF Alone, Waiting, Behind
<1>9. \A d \in Contents : Mirrored(d)'
  BY <1>1, <1>3, <1>5, <1>7, <1>8 DEF CalmInv, Mirrored, Typed, TypeOK
<1>10. PICK q, j : q = req'[w] /\ j = inst'[w]
  OBVIOUS
<1> QED BY <1>1, <1>2, <1>9, <1>10, CalmStep DEF Ready

LEMMA CalmContinue == ASSUME Typed, CalmInv, NEW w \in Workers, Continue(w), ~InsertFeed(w) PROVE CalmInv'
<1>1. pc[w] # "idle" /\ calm' = calm
  BY DEF Continue, Purge, Save, Push, Pray, Query, Store
<1> SUFFICES ASSUME calm PROVE CalmInv'
  BY <1>1 DEF CalmInv
<1>2. Alone(w) /\ Ready(pc[w], req[w], inst[w])
  BY <1>1 DEF CalmInv, RunsAlone
<1>3. pc[w] \notin {"insertFeed", "push"} => \A c \in Contents : ~Waiting(c) /\ Mirrored(c)
  BY <1>2 DEF CalmInv, Alone, Waiting, Behind
<1>4. CASE Purge(w) \/ Store(w) \/ Query(w)
  <2>1. PICK l : l \in {"idle", "store"} /\ pc' = [pc EXCEPT ![w] = l]
    BY <1>4 DEF Purge, Store, Query, Goto, Finish
  <2>2. pc[w] \in {"purge", "store", "query"} /\ UNCHANGED <<row, feed>>
    BY <1>4 DEF Purge, Store, Query
  <2> QED BY <1>2, <1>3, <2>1, <2>2, CalmKept
<1>5. CASE Save(w)
  <2>1. PICK c, op, i : /\ c = req[w].on /\ op = req[w].op /\ i = inst[w]
                        /\ c \in Contents /\ op \in Changing /\ i \in Row
    BY <1>5 DEF Save, Typed, Carried, Carries
  <2>2. Exists(c) /\ i \in Changed(op, row[c]) /\ row[c] \in Row
    BY <1>2, <1>5, <2>1 DEF Save, Ready, Exists, Typed, TypeOK
  <2>3. row' = [row EXCEPT ![c] = i] /\ Goto(w, "push") /\ UNCHANGED <<req, inst, feed>>
    <3>1. row' = [row EXCEPT ![c] = Saved(op, row[c], i)] /\ Goto(w, "push") /\ UNCHANGED <<req, inst, feed>>
      BY <1>5, <2>1, <2>2 DEF Save
    <3> QED BY <2>1, <2>2, <3>1, SavedIsChanged
  <2>4. i.kind = row[c].kind
    BY <2>1, <2>2, ChangedTyped
  <2>5. feed[c].n = 1 /\ feed[c].kind = i.kind
    <3>1. feed[c] = Mirror(row[c])
      BY <1>3, <1>5, <2>1 DEF Save, Mirrored
    <3>2. feed[c] = [n |-> 1, kind |-> row[c].kind, title |-> Title(row[c]), pinned |-> Pinned(row[c])]
      BY <2>2, <3>1 DEF Exists, Mirror
    <3> QED BY <2>4, <3>2
  <2>6. PICK q : q = req[w] /\ q.on = c
    BY <2>1
  <2>7. Ready("push", q, i)'
    BY <2>1, <2>3, <2>5, <2>6 DEF Ready, Typed, TypeOK
  <2>8. \A d \in Contents : Behind("push", q, d) \/ Mirrored(d)'
    BY <1>3, <1>5, <2>1, <2>3, <2>6 DEF Save, Behind, Mirrored, Typed, TypeOK
  <2> QED BY <1>2, <2>1, <2>3, <2>6, <2>7, <2>8, CalmStep DEF Goto
<1>6. CASE Push(w)
  <2>1. PICK c, i : c = req[w].on /\ i = inst[w] /\ c \in Contents /\ i \in Row
    BY <1>6 DEF Push, Typed, Carried, Carries
  <2>2. row[c] = i /\ feed[c].n = 1 /\ feed[c].kind = i.kind /\ feed[c] \in Item
    BY <1>2, <1>6, <2>1 DEF Push, Ready, Typed, TypeOK
  <2>3. feed' = [feed EXCEPT ![c].title = Title(i), ![c].pinned = Pinned(i)] /\ row' = row
    BY <1>6, <2>1, <2>2 DEF Push
  <2>4. feed'[c] = [feed[c] EXCEPT !.title = Title(i), !.pinned = Pinned(i)]
    BY <2>1, <2>3 DEF Typed, TypeOK
  <2>5. feed'[c] = [n |-> 1, kind |-> i.kind, title |-> Title(i), pinned |-> Pinned(i)]
    BY <2>2, <2>4 DEF Item
  <2>6. Mirrored(c)'
    BY <2>1, <2>2, <2>3, <2>5, NoRowApart DEF Mirrored, Mirror
  <2>7. \A d \in Contents \ {c} : feed'[d] = feed[d]
    BY <2>1, <2>3 DEF Typed, TypeOK
  <2>8. \A d \in Contents \ {c} : ~Waiting(d)
    BY <1>2, <1>6, <2>1 DEF Push, Alone, Waiting, Behind
  <2>9. \A d \in Contents : Mirrored(d)'
    BY <2>3, <2>6, <2>7, <2>8 DEF CalmInv, Mirrored
  <2>10. PICK q, j : q = req'[w] /\ j = inst'[w]
    OBVIOUS
  <2> QED BY <1>2, <1>6, <2>9, <2>10, CalmStep DEF Push, Finish, Ready
<1>7. CASE Pray(w)
  <2>1. PICK c : c = req[w].on /\ c \in Contents
    BY <1>7 DEF Pray, Typed, Carried, Carries
  <2>2. row' = row \/ (Exists(c) /\ row' = [row EXCEPT ![c].prayed = row[c].prayed + 1])
    BY <1>7, <2>1 DEF Pray
  <2>3. ASSUME NEW d \in Contents PROVE Mirror(row'[d]) = Mirror(row[d])
    <3>1. row'[d] = row[d] \/ (row[d] \in Row /\ row'[d] = [row[d] EXCEPT !.prayed = row[d].prayed + 1])
      BY <2>1, <2>2 DEF Exists, Typed, TypeOK
    <3>2. CASE row[d] \in Row /\ row'[d] = [row[d] EXCEPT !.prayed = row[d].prayed + 1]
      <4>1. /\ row'[d].kind = row[d].kind /\ row'[d].urgent = row[d].urgent
            /\ row'[d].answered = row[d].answered /\ row'[d].public = row[d].public
            /\ row'[d].approved = row[d].approved
        BY <3>2 DEF Row
      <4>2. row'[d] # NoRow /\ row[d] # NoRow
        BY <3>2, <4>1, NoRowApart DEF NoRow
      <4>3. Title(row'[d]) = Title(row[d]) /\ Pinned(row'[d]) = Pinned(row[d])
        BY <4>1 DEF Title, NewTitle, Pinned
      <4> QED BY <4>1, <4>2, <4>3 DEF Mirror
    <3> QED BY <3>1, <3>2
  <2>4. \A d \in Contents : Mirrored(d)'
    BY <1>3, <1>7, <2>3 DEF Pray, Mirrored
  <2>5. PICK q, j : q = req'[w] /\ j = inst'[w]
    OBVIOUS
  <2> QED BY <1>2, <1>7, <2>4, <2>5, CalmStep DEF Pray, Finish, Ready
<1> QED BY <1>4, <1>5, <1>6, <1>7 DEF Continue

LEMMA CalmOthers ==
    ASSUME Typed, CalmInv, Delete \/ (\E v \in Views : Expire(v)) \/ \E w \in Workers : Abort(w)
    PROVE  CalmInv'
<1>1. CASE Delete
  <2>1. PICK c \in Contents : /\ row' = [row EXCEPT ![c] = NoRow] /\ feed' = [feed EXCEPT ![c] = NoItem]
                              /\ calm' = (calm /\ Idle) /\ UNCHANGED <<pc, req, inst>>
    BY <1>1 DEF Delete
  <2>2. ASSUME calm, Idle, NEW d \in Contents PROVE Mirrored(d)'
    <3>1. Mirrored(d)
      BY <2>2 DEF CalmInv, Idle, Waiting, Behind
    <3> QED BY <2>1, <3>1 DEF Mirrored, Mirror, Typed, TypeOK
  <2> QED BY <2>1, <2>2 DEF CalmInv, Idle
<1>2. ASSUME NEW v \in Views, Expire(v) PROVE CalmInv'
  BY <1>2 DEF Expire, CalmInv, RunsAlone, Alone, Ready, Exists, Waiting, Mirrored
<1>3. ASSUME NEW w \in Workers, Abort(w) PROVE CalmInv'
  BY <1>3 DEF Abort, CalmInv
<1> QED BY <1>1, <1>2, <1>3

LEMMA CalmNext == Typed /\ CalmInv /\ [Next]_vars => CalmInv'
<1> SUFFICES ASSUME Typed, CalmInv, [Next]_vars PROVE CalmInv'
  OBVIOUS
<1>1. CASE UNCHANGED vars
  BY <1>1 DEF vars, CalmInv, RunsAlone, Alone, Ready, Exists, Waiting, Mirrored
<1> QED BY <1>1, CalmArrive, CalmInsertFeed, CalmContinue, CalmOthers DEF Next

-----------------------------------------------------------------------------
(* Theorems                                                                *)

\* Every reachable state has the model's types: the rows, the feed items, the
\* cached pages and what each request carries.
THEOREM TypeCorrect == Spec => []TypeOK
<1>1. Spec => []Typed
  BY TypedInit, TypedNext, PTL DEF Spec
<1>2. Typed => TypeOK
  BY DEF Typed
<1> QED BY <1>1, <1>2, PTL

\* However requests interleave, once no receiver is still to purge, a cached page
\* whose key the purge deletes hides items only if its reader queried before
\* they appeared or the purge failed (CacheService.invalidate_feed,
\* FeedService.get_feed).
THEOREM PagesHideByOverlap == Spec => []HidesOnlyByOverlap
<1>1. Spec => [](Typed /\ HideInv)
  BY TypedInit, TypedNext, HideInit, HideNext, PTL DEF Spec
<1>2. Typed /\ HideInv => HidesOnlyByOverlap
  BY DEF HideInv, AllInv, HidesOnlyByOverlap, Purged
<1> QED BY <1>1, <1>2, PTL

\* Only the save of an edit or of a share takes back an answer, an approval or
\* a prayer that was counted, or brings deleted content back
\* (the perform_update and the actions of the three viewsets).
THEOREM UndoneByEdits == Spec => OnlyEditsUndo
<1>1. Spec => []Typed
  BY TypedInit, TypedNext, PTL DEF Spec
<1>2. Typed /\ [Next]_vars => [UndoOnly]_row
  BY UndoStep
<1>3. UndoOnly => \A c \in Contents : Undone(c) =>
          \E w \in Workers : req[w].on = c /\ pc[w] = "save" /\ req[w].op \in {"edit", "share"}
  BY DEF UndoOnly, Undoing
<1> QED BY <1>1, <1>2, <1>3, PTL DEF Spec, OnlyEditsUndo

\* Requests that ran one after the other and to their end leave every content
\* with one feed item that shows its kind, its title and its pin, and no item
\* without content (the receivers of messaging/signals.py).
THEOREM FeedShowsContent == Spec => []FeedMirrors
<1>1. Spec => [](Typed /\ CalmInv)
  BY TypedInit, TypedNext, CalmInit, CalmNext, PTL DEF Spec
<1>2. Typed /\ CalmInv => FeedMirrors
  BY CalmMirrors
<1> QED BY <1>1, <1>2, PTL

=============================================================================

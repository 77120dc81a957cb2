------------------------------ MODULE FaithFeed ------------------------------
(***************************************************************************)
(* Prayer requests, testimonies and scriptures, the feed items that mirror *)
(* them, and the cached pages of a group's feed.                           *)
(*                                                                         *)
(* Creating content is an INSERT, the INSERT of its feed item, and the     *)
(* purge of cached pages; changing it is a load, a save, and a copy of the *)
(* loaded instance to the feed item: each commits alone.  A deletion is a  *)
(* transaction.  A page that has items is never cached (its query prefetches *)
(* a relation that FeedItem does not have, and the view falls back to an   *)
(* uncached query); an empty one is, for five minutes.                     *)
(***************************************************************************)
EXTENDS Integers, FiniteSets

CONSTANTS
    Contents,  \* primary keys of content
    Kinds,     \* kinds of content of this instance
    Workers,   \* request-handling threads
    Ops,       \* what happens in this instance
    MaxPrays,  \* bound: times a prayer request is prayed for
    MayAbort,  \* whether a statement may fail and end its request
    NoContent, NoView

\* The pages a client may ask for, page_size and content_type being its own:
\* "all"      one of the first nine pages, of 25 or 50 items, of every type,
\* "sized"    a page of another size or number, of every type,
\* "requests" content_type=prayer_request,
\* "prayers"  content_type=prayer.
Views    == {"all", "sized", "requests", "prayers"}
\* The pages whose keys invalidate_feed deletes with a cache backend other than
\* django-redis's.
Purged   == {"all"}
Changing == {"edit", "answer", "share", "approve"}
AllOps   == Changing \cup {"create", "pray", "read"}

ASSUME ContentsAssumption == NoContent \notin Contents /\ NoView \notin Views
ASSUME KindsAssumption    == Kinds \subseteq {"prayer", "testimony", "scripture"}
ASSUME WorkersAssumption  == IsFiniteSet(Workers)
ASSUME OpsAssumption      == Ops \subseteq AllOps \cup {"delete"} /\ MayAbort \in BOOLEAN
ASSUME BoundAssumption    == MaxPrays \in Nat

VARIABLES
    row,    \* the row of each content, whatever its table
    feed,   \* the feed items of each content: how many, and what they show
    cache,  \* the views that have a page, an empty one, in the cache
    late,   \* history: views in Purged whose page was stored although an item had
            \* appeared since it was queried, or missed a purge that failed
    calm,   \* history: so far requests ran one at a time and to their end
    pc,     \* the statement each worker executes next
    req,    \* the request each worker serves
    inst    \* the content instance each worker holds

vars == <<row, feed, cache, late, calm, pc, req, inst>>

Row    == [kind : Kinds, urgent : BOOLEAN, answered : BOOLEAN, prayed : 0 .. MaxPrays,
           public : BOOLEAN, approved : BOOLEAN]
NoRow  == [kind |-> "none", urgent |-> FALSE, answered |-> FALSE, prayed |-> 0,
           public |-> FALSE, approved |-> FALSE]
Titles == {"none", "plain", "urgent", "answered", "shared", "approved"}
Item   == [n : Nat, kind : Kinds \cup {"none"}, title : Titles, pinned : BOOLEAN]
NoItem == [n |-> 0, kind |-> "none", title |-> "none", pinned |-> FALSE]
\* missed: an item appeared in the view since the request queried it.
Request == [op : AllOps, on : Contents \cup {NoContent}, view : Views \cup {NoView}, missed : BOOLEAN]
NoReq   == [op |-> "none", on |-> NoContent, view |-> NoView, missed |-> FALSE]
Labels  == {"idle", "insertFeed", "purge", "save", "push", "pray", "query", "store"}

TypeOK ==
    /\ row \in [Contents -> Row \cup {NoRow}]
    /\ feed \in [Contents -> Item]
    /\ cache \subseteq Views /\ late \subseteq Views /\ calm \in BOOLEAN
    /\ pc \in [Workers -> Labels]
    /\ req \in [Workers -> Request \cup {NoReq}]
    /\ inst \in [Workers -> Row \cup {NoRow}]

-----------------------------------------------------------------------------
Exists(c) == row[c] # NoRow
Idle      == \A w \in Workers : pc[w] = "idle"

\* Receivers store "prayer_request", and the filter compares: nothing is a "prayer".
InView(k, v) == v \in {"all", "sized"} \/ (v = "requests" /\ k = "prayer")
Shown(v)     == {c \in Contents : feed[c].n > 0 /\ InView(feed[c].kind, v)}

\* What the receivers put before the title, of a new row and of a changed one.
NewTitle(r) ==
    CASE r.kind = "prayer" /\ r.urgent    -> "urgent"
      [] r.kind = "testimony" /\ r.public -> "shared"
      [] OTHER -> "plain"

Title(r) ==
    CASE r.kind = "prayer" /\ r.answered                -> "answered"
      [] r.kind = "testimony" /\ r.public /\ r.approved -> "approved"
      [] OTHER -> NewTitle(r)

Pinned(r) == r.kind = "prayer" /\ r.urgent /\ ~r.answered

Goto(w, label) == pc' = [pc EXCEPT ![w] = label]

Begin(w, q) ==
    /\ pc[w] = "idle" /\ q.op \in Ops
    /\ req' = [req EXCEPT ![w] = q]
    /\ calm' = (calm /\ Idle)

Finish(w) ==
    /\ pc' = [pc EXCEPT ![w] = "idle"]
    /\ req' = [req EXCEPT ![w] = NoReq]
    /\ inst' = [inst EXCEPT ![w] = NoRow]

-----------------------------------------------------------------------------
(* POST /prayer-requests/, /testimonies/ and /scriptures/                  *)

NewPrayers     == {[NoRow EXCEPT !.kind = "prayer", !.urgent = b] : b \in BOOLEAN}
NewTestimonies == {[NoRow EXCEPT !.kind = "testimony", !.public = b] : b \in BOOLEAN}
NewScriptures  == {[NoRow EXCEPT !.kind = "scripture"]}
NewRows        == NewPrayers \cup NewTestimonies \cup NewScriptures

Create(w) ==
    /\ \E c \in Contents, r \in NewRows :
          /\ r.kind \in Kinds /\ ~Exists(c) /\ feed[c] = NoItem
          /\ \A v \in Workers : req[v].on # c
          /\ Begin(w, [NoReq EXCEPT !.op = "create", !.on = c])
          /\ row' = [row EXCEPT ![c] = r]
          /\ inst' = [inst EXCEPT ![w] = r]
    /\ Goto(w, "insertFeed")
    /\ UNCHANGED <<feed, cache, late>>

\* The receiver inserts the feed item from the instance, also when the content
\* was deleted meanwhile; a page queried before does not have it.
InsertFeed(w) ==
    /\ pc[w] = "insertFeed"
    /\ LET c == req[w].on IN
       /\ feed' = [feed EXCEPT ![c] = [n |-> @.n + 1, kind |-> inst[w].kind,
                                       title |-> NewTitle(inst[w]), pinned |-> Pinned(inst[w])]]
       /\ req' = [v \in Workers |-> [req[v] EXCEPT !.missed =
                     @ \/ (pc[v] = "store" /\ InView(inst[w].kind, req[v].view))]]
    /\ Goto(w, "purge")
    /\ UNCHANGED <<row, cache, late, inst, calm>>

\* Fault: the pages are not purged.
PurgeNothing(w) ==
    /\ pc[w] = "purge"
    /\ Finish(w)
    /\ UNCHANGED <<row, feed, cache, late, calm>>

\* invalidate_feed.
Purge(w) ==
    /\ pc[w] = "purge"
    /\ cache' = cache \ Purged
    /\ late' = late \ Purged
    /\ Finish(w)
    /\ UNCHANGED <<row, feed, calm>>

-----------------------------------------------------------------------------
(* PUT and PATCH, mark-answered, share-public and approve-public           *)

\* What a request makes of the instance it loaded, if the handler lets it.
Changed(op, r) ==
    CASE op = "answer"  -> IF r.kind = "prayer" /\ ~r.answered
                           THEN {[r EXCEPT !.answered = TRUE]} ELSE {}
      [] op = "share"   -> IF r.kind = "testimony" /\ ~r.public
                           THEN {[r EXCEPT !.public = TRUE]} ELSE {}
      [] op = "approve" -> IF r.kind = "testimony" /\ r.public /\ ~r.approved
                           THEN {[r EXCEPT !.approved = TRUE]} ELSE {}
      [] op = "edit" /\ r.kind = "prayer" ->
            {[r EXCEPT !.urgent = p[1], !.answered = p[2]] : p \in BOOLEAN \X BOOLEAN}
      [] op = "edit" /\ r.kind = "testimony" -> {[r EXCEPT !.public = b] : b \in BOOLEAN}
      [] op = "edit" /\ r.kind = "scripture" -> {r}

Load(w) ==
    /\ \E op \in Changing, c \in Contents :
          /\ Exists(c)
          /\ Begin(w, [NoReq EXCEPT !.op = op, !.on = c])
          /\ \E r \in Changed(op, row[c]) : inst' = [inst EXCEPT ![w] = r]
    /\ Goto(w, "save")
    /\ UNCHANGED <<row, feed, cache, late>>

\* Fault: every request saves its whole instance.
SavedWhole(op, r, i) == i

\* What the save makes of row r: an edit writes the whole instance; the others
\* name their columns, share the approval as well.
Saved(op, r, i) ==
    CASE op = "edit"    -> i
      [] op = "answer"  -> [r EXCEPT !.answered = TRUE]
      [] op = "share"   -> [r EXCEPT !.public = TRUE, !.approved = i.approved]
      [] op = "approve" -> [r EXCEPT !.approved = TRUE]

\* Of a row that is gone, an edit inserts it again; the others raise.
Save(w) ==
    /\ pc[w] = "save"
    /\ LET c == req[w].on IN
       \/ /\ Exists(c)
          /\ row' = [row EXCEPT ![c] = Saved(req[w].op, row[c], inst[w])]
          /\ Goto(w, "push") /\ UNCHANGED <<req, inst>>
       \/ /\ ~Exists(c) /\ req[w].op = "edit"
          /\ row' = [row EXCEPT ![c] = inst[w]]
          /\ Goto(w, "insertFeed") /\ UNCHANGED <<req, inst>>
       \/ /\ ~Exists(c) /\ req[w].op # "edit"
          /\ Finish(w) /\ UNCHANGED row
    /\ UNCHANGED <<feed, cache, late, calm>>

\* Fault: the pin of an urgent prayer request outlives its answer.
PushPinned(w) ==
    /\ pc[w] = "push"
    /\ LET c == req[w].on IN
       feed' = IF feed[c].n = 0 THEN feed
               ELSE [feed EXCEPT ![c].title = Title(inst[w]), ![c].pinned = inst[w].urgent]
    /\ Finish(w)
    /\ UNCHANGED <<row, cache, late, calm>>

\* The receiver copies the instance to the feed items.  QuerySet.update sends
\* no signal, so nothing is purged.
Push(w) ==
    /\ pc[w] = "push"
    /\ LET c == req[w].on IN
       feed' = IF feed[c].n = 0 THEN feed
               ELSE [feed EXCEPT ![c].title = Title(inst[w]), ![c].pinned = Pinned(inst[w])]
    /\ Finish(w)
    /\ UNCHANGED <<row, cache, late, calm>>

-----------------------------------------------------------------------------
(* POST pray/ and DELETE                                                   *)

BeginPray(w) ==
    /\ \E c \in Contents :
          /\ row[c].kind = "prayer" /\ ~row[c].answered
          /\ Begin(w, [NoReq EXCEPT !.op = "pray", !.on = c])
    /\ Goto(w, "pray")
    /\ UNCHANGED <<row, feed, cache, late, inst>>

\* Fault: a deleted request gets the count of another.
PrayUnchecked(w) ==
    /\ pc[w] = "pray"
    /\ row' = [row EXCEPT ![req[w].on].prayed = @ + 1]
    /\ Finish(w)
    /\ UNCHANGED <<feed, cache, late, calm>>

\* UPDATE ... SET prayer_count = prayer_count + 1, answered meanwhile or not.
Pray(w) ==
    /\ pc[w] = "pray"
    /\ LET c == req[w].on
       IN row' = IF Exists(c) /\ row[c].prayed < MaxPrays
                 THEN [row EXCEPT ![c].prayed = @ + 1] ELSE row
    /\ Finish(w)
    /\ UNCHANGED <<feed, cache, late, calm>>

\* One transaction: the row, its feed items, and the purge.
Delete ==
    /\ "delete" \in Ops
    /\ \E c \in Contents :
          /\ Exists(c)
          /\ row' = [row EXCEPT ![c] = NoRow]
          /\ feed' = [feed EXCEPT ![c] = NoItem]
          /\ cache' = IF feed[c].n > 0 THEN cache \ Purged ELSE cache
          /\ late' = late \cap cache'
    /\ calm' = (calm /\ Idle)
    /\ UNCHANGED <<pc, req, inst>>

-----------------------------------------------------------------------------
(* GET /feed/?group=                                                       *)

Cached(v) == v \in cache

\* A page in the cache is the answer; otherwise it is queried.
BeginRead(w) ==
    /\ \E v \in Views :
          /\ ~Cached(v)
          /\ Begin(w, [NoReq EXCEPT !.op = "read", !.view = v])
    /\ Goto(w, "query")
    /\ UNCHANGED <<row, feed, cache, late, inst>>

Query(w) ==
    /\ pc[w] = "query"
    /\ IF Shown(req[w].view) = {} THEN Goto(w, "store") /\ UNCHANGED <<req, inst>> ELSE Finish(w)
    /\ UNCHANGED <<row, feed, cache, late, calm>>

Store(w) ==
    /\ pc[w] = "store"
    /\ cache' = cache \cup {req[w].view}
    /\ late' = IF req[w].missed THEN late \cup ({req[w].view} \cap Purged) ELSE late \ {req[w].view}
    /\ Finish(w)
    /\ UNCHANGED <<row, feed, calm>>

\* FEED_TIMEOUT.
Expire(v) ==
    /\ v \in cache /\ cache' = cache \ {v} /\ late' = late \ {v}
    /\ UNCHANGED <<row, feed, calm, pc, req, inst>>

\* A statement fails and the handler answers 500: nothing is undone.
Abort(w) ==
    /\ MayAbort /\ pc[w] # "idle" /\ Finish(w) /\ calm' = FALSE
    /\ late' = IF pc[w] = "purge" THEN late \cup (Purged \cap cache) ELSE late
    /\ UNCHANGED <<row, feed, cache>>

-----------------------------------------------------------------------------
Init ==
    /\ row = [c \in Contents |-> NoRow] /\ feed = [c \in Contents |-> NoItem]
    /\ cache = {} /\ late = {} /\ calm = TRUE
    /\ pc = [w \in Workers |-> "idle"]
    /\ req = [w \in Workers |-> NoReq]
    /\ inst = [w \in Workers |-> NoRow]

Arrive(w)   == Create(w) \/ Load(w) \/ BeginPray(w) \/ BeginRead(w)
Continue(w) == InsertFeed(w) \/ Purge(w) \/ Save(w) \/ Push(w) \/ Pray(w) \/ Query(w) \/ Store(w)

Next ==
    \/ \E w \in Workers : Arrive(w) \/ Continue(w) \/ Abort(w)
    \/ Delete \/ \E v \in Views : Expire(v)

Spec == Init /\ [][Next]_vars

-----------------------------------------------------------------------------
(* Properties                                                              *)

\* Requests that ran one after the other leave every content with one feed
\* item that shows its state: the prefix of the title, and the pin of an urgent
\* prayer request until it is answered; and no item without content.
FeedMirrors ==
    calm /\ Idle =>
        \A c \in Contents :
            feed[c] = IF ~Exists(c) THEN NoItem
                      ELSE [n |-> 1, kind |-> row[c].kind, title |-> Title(row[c]),
                            pinned |-> Pinned(row[c])]

Undone(c) ==
    IF Exists(c) THEN /\ Exists(c)'
                      /\ \/ row[c].answered /\ ~row'[c].answered
                         \/ row[c].approved /\ ~row'[c].approved
                         \/ row[c].prayed > row'[c].prayed
                 ELSE Exists(c)' /\ \A w \in Workers : pc[w] # "idle" \/ req'[w].op # "create"

\* What a request decided is not undone by another that was under way, but for
\* edits, which write back all they loaded, and a second share, which writes
\* back the approval: answers, approvals and prayers counted stay, and deleted
\* content stays deleted.
OnlyEditsUndo ==
    [][\A c \in Contents : Undone(c) =>
          \E w \in Workers : req[w].on = c /\ pc[w] = "save" /\ req[w].op \in {"edit", "share"}]_row

\* Once no receiver is still to purge, a page whose key the purge deletes hides
\* items only if a reader stored it that had queried before they appeared, or
\* the purge itself failed (invalidate_feed_cache_on_new_item,
\* FeedService.get_feed).  Of the other pages nothing is promised: what appears
\* after one was stored empty stays hidden until the timeout.
HidesOnlyByOverlap ==
    \A v \in cache \cap Purged :
        Shown(v) # {} /\ (\A w \in Workers : pc[w] # "purge") => v \in late

=============================================================================

---------------------------- MODULE ContentCounts ----------------------------
(***************************************************************************)
(* One discussion of the messaging application, its comments, the comment  *)
(* count kept in the Discussion row and the copy of it in the FeedItem     *)
(* row that the feed shows.                                                *)
(*                                                                         *)
(* The counts are maintained by post_save and post_delete receivers.  In   *)
(* autocommit each statement of a request or of a receiver commits alone,  *)
(* so a request is a sequence of steps and pc[w] names the statement that  *)
(* worker w sends next.  row[w] is the Discussion instance the worker      *)
(* loaded: the receivers copy it into the feed item, not the table's row.  *)
(* The nightly clean-up deletes inside a transaction and is one step.      *)
(***************************************************************************)
EXTENDS Integers, FiniteSets

CONSTANTS
    Comments,    \* primary keys of comments (a bound on how many are written)
    Workers,     \* request-handling threads
    Ops,         \* what happens in this instance
    MayAbort,    \* whether a worker can be killed between two statements
    NoComment

AllOps == {"create", "comment", "deleteComment", "editComment", "pin", "flag",
           "destroy", "edit", "recalc", "month"}

ASSUME CommentsAssumption == IsFiniteSet(Comments) /\ NoComment \notin Comments
ASSUME WorkersAssumption  == IsFiniteSet(Workers)
ASSUME OpsAssumption      == Ops \subseteq AllOps /\ MayAbort \in BOOLEAN

VARIABLES
    disc,   \* the Discussion row
    feed,   \* its FeedItem row
    cmt,    \* the Comment table
    pc,     \* the statement each worker executes next
    req,    \* what each worker is doing, and to which comment
    row     \* the Discussion instance each worker holds

tables == <<disc, feed, cmt>>
vars   == <<disc, feed, cmt, pc, req, row>>

\* deletedOld: deleted_at is more than 30 days ago; updatedOld: updated_at is.
DiscussionRow == [exists : BOOLEAN, count : Nat, deleted : BOOLEAN, deletedOld : BOOLEAN]
FeedItemRow   == [exists : BOOLEAN, count : Nat, deleted : BOOLEAN]
CommentRow    == [state : {"none", "live", "soft", "gone"}, parent : Comments \cup {NoComment},
                  deletedOld : BOOLEAN, updatedOld : BOOLEAN]
Instance      == [count : Nat, deleted : BOOLEAN]

NoInstance == [count |-> 0, deleted |-> FALSE]
NoReq      == [op |-> "none", comment |-> NoComment]
Labels     == {"idle", "insertFeed", "bump", "refresh", "pushCount",
               "saveComment", "countLive", "saveDiscussion", "pushRow"}

TypeOK ==
    /\ disc \in DiscussionRow
    /\ feed \in FeedItemRow
    /\ cmt \in [Comments -> CommentRow]
    /\ pc \in [Workers -> Labels]
    /\ req \in [Workers -> [op : AllOps \cup {"none"}, comment : Comments \cup {NoComment}]]
    /\ row \in [Workers -> Instance]

-----------------------------------------------------------------------------
Live   == {c \in Comments : cmt[c].state = "live"}
Stored == {c \in Comments : cmt[c].state \in {"live", "soft"}}
Idle   == \A w \in Workers : pc[w] = "idle"

\* What SELECT puts into the worker's Discussion instance.
Loaded == [count |-> disc.count, deleted |-> disc.deleted]

Goto(w, label) == pc' = [pc EXCEPT ![w] = label]

Finish(w) ==
    /\ pc' = [pc EXCEPT ![w] = "idle"]
    /\ req' = [req EXCEPT ![w] = NoReq]
    /\ row' = [row EXCEPT ![w] = NoInstance]

Start(w, op, c, label) ==
    /\ pc[w] = "idle" /\ op \in Ops
    /\ req' = [req EXCEPT ![w] = [op |-> op, comment |-> c]]
    /\ Goto(w, label)

-----------------------------------------------------------------------------
(* POST /discussions/: the row, then the receiver that adds the feed item. *)

CreateDiscussion(w) ==
    /\ ~disc.exists /\ ~disc.deleted
    /\ Start(w, "create", NoComment, "insertFeed")
    /\ disc' = [disc EXCEPT !.exists = TRUE]
    /\ UNCHANGED <<feed, cmt, row>>

InsertFeedItem(w) ==
    /\ pc[w] = "insertFeed"
    /\ feed' = [exists |-> TRUE, count |-> row[w].count, deleted |-> row[w].deleted]
    /\ Finish(w)
    /\ UNCHANGED <<disc, cmt>>

-----------------------------------------------------------------------------
(* POST /comments/                                                         *)

\* The serializer accepts a deleted discussion and a deleted parent.
WriteComment(w) ==
    \E c \in Comments, p \in Stored \cup {NoComment} :
        /\ disc.exists
        /\ cmt[c].state = "none"
        /\ Start(w, "comment", c, "bump")
        /\ cmt' = [cmt EXCEPT ![c] = [state |-> "live", parent |-> p,
                                      deletedOld |-> FALSE, updatedOld |-> FALSE]]
        /\ UNCHANGED <<disc, feed, row>>

\* Faults: no UPDATE is sent; the instance is counted up once more in memory.
BumpSkipped(w) ==
    /\ pc[w] = "bump"
    /\ Goto(w, "refresh") /\ UNCHANGED <<req, row, tables>>
BumpInMemoryToo(w) ==
    /\ pc[w] = "bump"
    /\ disc' = [disc EXCEPT !.count = @ + 1]
    /\ row' = [row EXCEPT ![w].count = disc.count + 2]
    /\ Goto(w, "pushCount")
    /\ UNCHANGED <<req, feed, cmt>>

\* increment_comment_count: UPDATE ... SET comment_count = comment_count + 1 ...
Bump(w) ==
    /\ pc[w] = "bump"
    /\ IF disc.exists
       THEN /\ disc' = [disc EXCEPT !.count = @ + 1]
            /\ Goto(w, "refresh")
            /\ UNCHANGED <<req, row, feed, cmt>>
       ELSE Finish(w) /\ UNCHANGED tables

\* ... then refresh_from_db ...
Refresh(w) ==
    /\ pc[w] = "refresh"
    /\ IF disc.exists
       THEN /\ row' = [row EXCEPT ![w] = Loaded]
            /\ Goto(w, "pushCount")
            /\ UNCHANGED <<req, tables>>
       ELSE Finish(w) /\ UNCHANGED tables

\* ... and the receiver copies what it read to the feed item.
PushCount(w) ==
    /\ pc[w] = "pushCount"
    /\ feed' = IF feed.exists THEN [feed EXCEPT !.count = row[w].count] ELSE feed
    /\ Finish(w)
    /\ UNCHANGED <<disc, cmt>>

-----------------------------------------------------------------------------
(* DELETE and PATCH /comments/{id}/: load a live comment, then save it.    *)

LoadComment(w) ==
    \E c \in Live :
        /\ \/ Start(w, "deleteComment", c, "saveComment")
           \/ ~cmt[c].updatedOld /\ Start(w, "editComment", c, "saveComment")
        /\ UNCHANGED <<row, tables>>

\* Soft delete names its columns, updated_at not among them; an edit writes
\* the whole loaded row, so is_deleted = False with it.
SavedComment(r, deleting) ==
    [r EXCEPT !.state = IF deleting THEN "soft" ELSE "live",
              !.deletedOld = FALSE,
              !.updatedOld = @ /\ deleting]

\* A row that is gone ends either request in an error.
SaveComment(w) ==
    /\ pc[w] = "saveComment"
    /\ LET c == req[w].comment
           deleting == req[w].op = "deleteComment"
       IN cmt' = IF c \notin Stored THEN cmt
                 ELSE [cmt EXCEPT ![c] = SavedComment(@, deleting)]
    /\ Finish(w)
    /\ UNCHANGED <<disc, feed>>

-----------------------------------------------------------------------------
(* Requests that load the discussion, save it, and let the post_save       *)
(* receiver copy the instance to the feed item.                            *)

\* pin, PUT/PATCH and DELETE look for a discussion that is not deleted; a
\* report (flag) and the recalculate_comment_counts command take any.
LoadDiscussion(w) ==
    /\ disc.exists
    /\ \/ \E op \in {"pin", "edit", "destroy"} :
             ~disc.deleted /\ Start(w, op, NoComment, "saveDiscussion")
       \/ Start(w, "flag", NoComment, "saveDiscussion")
       \/ Start(w, "recalc", NoComment, "countLive")
    /\ row' = [row EXCEPT ![w] = Loaded]
    /\ UNCHANGED tables

\* The command compares the live comments with the instance.
CountLive(w) ==
    /\ pc[w] = "countLive"
    /\ IF row[w].count = Cardinality(Live)
       THEN Finish(w)
       ELSE /\ row' = [row EXCEPT ![w].count = Cardinality(Live)]
            /\ Goto(w, "saveDiscussion")
            /\ UNCHANGED req
    /\ UNCHANGED tables

\* Fault: pin and flag save without update_fields, so the whole row.
WrittenWhole(op, r) ==
    IF op = "destroy"
    THEN [disc EXCEPT !.deleted = TRUE]
    ELSE [disc EXCEPT !.count = r.count, !.deleted = r.deleted]

\* What each request writes: pin and flag no column of this model, the
\* command the count, DELETE is_deleted, PUT and PATCH the whole loaded row.
Written(op, r) ==
    CASE op \in {"pin", "flag"} -> disc
      [] op = "recalc"          -> [disc EXCEPT !.count = r.count]
      [] op = "destroy"         -> [disc EXCEPT !.deleted = TRUE]
      [] OTHER                  -> [disc EXCEPT !.count = r.count, !.deleted = r.deleted]

SaveDiscussion(w) ==
    /\ pc[w] = "saveDiscussion"
    /\ IF disc.exists
       THEN /\ disc' = Written(req[w].op, row[w])
            /\ row' = [row EXCEPT ![w].deleted = @ \/ req[w].op = "destroy"]
            /\ Goto(w, "pushRow")
            /\ UNCHANGED <<req, feed, cmt>>
       ELSE Finish(w) /\ UNCHANGED tables

\* update_feed_item_for_discussion: the instance, however old it is.
Pushed(r) == [feed EXCEPT !.count = r.count, !.deleted = r.deleted]

PushRow(w) ==
    /\ pc[w] = "pushRow"
    /\ feed' = IF feed.exists THEN Pushed(row[w]) ELSE feed
    /\ Finish(w)
    /\ UNCHANGED <<disc, cmt>>

-----------------------------------------------------------------------------
(* Thirty days pass, and the task cleanup_soft_deleted_content.            *)

\* No request is that old.
Month ==
    /\ "month" \in Ops /\ Idle
    /\ disc' = [disc EXCEPT !.deletedOld = disc.deleted]
    /\ cmt' = [c \in Comments |-> IF c \in Stored
                                  THEN [cmt[c] EXCEPT !.deletedOld = (cmt[c].state = "soft"),
                                                      !.updatedOld = TRUE]
                                  ELSE cmt[c]]
    /\ UNCHANGED <<feed, pc, req, row>>

\* The discussions the task's first query finds.
DiscussionDue == disc.exists /\ disc.deleted /\ disc.deletedOld

\* Any comment, deleted or not, is deleted with the discussion, and its
\* post_delete receiver asks for instance.discussion, which is gone by then:
\* DoesNotExist, and the transaction rolls back.  What is left is the case
\* of no comments.
CleanDiscussion ==
    /\ DiscussionDue /\ Stored = {}
    /\ disc' = [disc EXCEPT !.exists = FALSE]
    /\ feed' = [feed EXCEPT !.exists = FALSE]
    /\ UNCHANGED <<cmt, pc, req, row>>

\* The comments the second query finds (by updated_at), and those below them.
CommentsDue == {c \in Comments : cmt[c].state = "soft" /\ cmt[c].updatedOld}
Below(S) ==
    {c \in Stored : \A T \in SUBSET Stored :
        S \subseteq T /\ (\A d \in Stored : cmt[d].parent \in T => d \in T) => c \in T}

\* Fault: the column may become negative.
CanTakeOffAnything(n) == n >= 0

\* comment_count is a PositiveIntegerField: the database refuses less than 0.
CanTakeOff(n) == disc.count >= n

\* post_delete receivers: a comment that was not deleted by its author (a
\* reply that goes with its parent) is taken off the count; the feed item follows.
\* An exception of the task's first query keeps it from this one.
CleanComments ==
    LET removed == Below(CommentsDue)
        alive   == Cardinality(removed \cap Live)
    IN  /\ CommentsDue # {} /\ ~DiscussionDue
        /\ CanTakeOff(alive)
        /\ disc' = [disc EXCEPT !.count = @ - alive]
        /\ feed' = IF alive > 0 /\ feed.exists
                   THEN [feed EXCEPT !.count = disc.count - alive] ELSE feed
        /\ cmt' = [c \in Comments |-> IF c \in removed THEN [cmt[c] EXCEPT !.state = "gone"]
                                      ELSE cmt[c]]
        /\ UNCHANGED <<pc, req, row>>

\* The worker is killed or loses its connection; what it committed stays.
Abort(w) == MayAbort /\ pc[w] # "idle" /\ Finish(w) /\ UNCHANGED tables

-----------------------------------------------------------------------------
Init ==
    /\ disc = [exists |-> FALSE, count |-> 0, deleted |-> FALSE, deletedOld |-> FALSE]
    /\ feed = [exists |-> FALSE, count |-> 0, deleted |-> FALSE]
    /\ cmt = [c \in Comments |-> [state |-> "none", parent |-> NoComment,
                                  deletedOld |-> FALSE, updatedOld |-> FALSE]]
    /\ pc = [w \in Workers |-> "idle"]
    /\ req = [w \in Workers |-> NoReq]
    /\ row = [w \in Workers |-> NoInstance]

\* A request arrives, or goes on by one statement.
Arrive(w) == CreateDiscussion(w) \/ WriteComment(w) \/ LoadComment(w) \/ LoadDiscussion(w)
Continue(w) ==
    \/ InsertFeedItem(w)
    \/ Bump(w) \/ Refresh(w) \/ PushCount(w)
    \/ SaveComment(w)
    \/ CountLive(w) \/ SaveDiscussion(w) \/ PushRow(w)
CleanUp == CleanDiscussion \/ CleanComments

Next ==
    \/ \E w \in Workers : Arrive(w) \/ Continue(w) \/ Abort(w)
    \/ Month \/ CleanUp

Spec == Init /\ [][Next]_vars

\* A request that was accepted is served to its end (gunicorn's workers are
\* not starved), and the clean-up runs every night.
Fairness == (\A w \in Workers : WF_vars(Continue(w))) /\ WF_vars(CleanUp)
FairSpec == Spec /\ Fairness

-----------------------------------------------------------------------------
(* Properties.                                                             *)

\* Comments whose increment is still to come.
Uncounted == {w \in Workers : pc[w] = "bump"}

\* decrement_comment_count_on_delete skips a comment that is "Already
\* soft-deleted, count already decremented" (signals.py:94), but soft deletion
\* decrements nothing.  So the count, with the increments on their way, covers
\* every stored comment, soft-deleted ones included, whatever requests race;
\* were it as that comment says, a discussion with a soft-deleted comment would
\* break this at once.  It is why taking replies off cannot make the count
\* negative.  For instances without whole-row saves of the discussion, the
\* command, and aborts.
CountCovers ==
    disc.count + Cardinality(Uncounted) >= Cardinality(Stored)

\* Receivers push counts to the feed item out of order, so it may lag behind;
\* but until the clean-up removes a comment it never shows more than there is.
\* For instances without whole-row saves of the discussion and the command.
FeedNeverAhead ==
    (\A c \in Comments : cmt[c].state # "gone") => feed.count <= disc.count

\* Only a PUT or PATCH that loaded the discussion before its deletion brings
\* it back: pin, report and the command name the columns they save, so no
\* other stale instance undoes a deletion.
UndeletedOnlyByEdit ==
    [][disc.deleted /\ ~disc'.deleted
          => \E w \in Workers : pc[w] = "saveDiscussion" /\ req[w].op = "edit" /\ ~row[w].deleted]_vars

\* The night's work stops at a discussion whose deletion is due and that still
\* has comments: the cascade raises every night.
Stuck == DiscussionDue /\ Stored # {}

\* Deleted comments are eventually removed from the table, or restored by an
\* edit that was under way, unless the deletion of their discussion falls due
\* first.  The docstring of cleanup_soft_deleted_content has no such exception.
CommentsCleaned ==
    \A c \in Comments :
        cmt[c].state = "soft" /\ cmt[c].deletedOld ~> cmt[c].state # "soft" \/ Stuck

=============================================================================

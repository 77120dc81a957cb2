------------------------ MODULE ContentCountsProofs ------------------------
(***************************************************************************)
(* Proofs about the counts of a discussion, for any number of comments and *)
(* workers and any choice of operations.                                   *)
(***************************************************************************)
EXTENDS ContentCounts, FiniteSetTheorems, TLAPS

LEMMA SetsAreFinite ==
    /\ IsFiniteSet(Stored) /\ Cardinality(Stored) \in Nat
    /\ IsFiniteSet(Live) /\ Cardinality(Live) \in Nat
    /\ IsFiniteSet(Uncounted) /\ Cardinality(Uncounted) \in Nat
<1>1. IsFiniteSet(Stored) /\ IsFiniteSet(Live)
  BY CommentsAssumption, FS_Subset DEF Stored, Live
<1>2. IsFiniteSet(Uncounted)
  BY WorkersAssumption, FS_Subset DEF Uncounted
<1> QED BY <1>1, <1>2, FS_CardinalityType

\* A part of a finite set that is taken off leaves the difference.
LEMMA TakenOff ==
    ASSUME NEW S, NEW T, IsFiniteSet(S), T \subseteq S
    PROVE  /\ IsFiniteSet(T) /\ Cardinality(T) \in Nat /\ Cardinality(T) <= Cardinality(S)
           /\ Cardinality(S \ T) = Cardinality(S) - Cardinality(T)
<1>1. IsFiniteSet(T) /\ Cardinality(T) <= Cardinality(S)
  BY FS_Subset
<1>2. S \cap T = T
  OBVIOUS
<1>3. Cardinality(S \ T) = Cardinality(S) - Cardinality(S \cap T)
  BY FS_Difference
<1> QED BY <1>1, <1>2, <1>3, FS_CardinalityType

-----------------------------------------------------------------------------
(* Types.                                                                  *)

RowsOK   == disc \in DiscussionRow /\ feed \in FeedItemRow /\ cmt \in [Comments -> CommentRow]
LocalsOK ==
    /\ pc \in [Workers -> Labels]
    /\ req \in [Workers -> [op : AllOps \cup {"none"}, comment : Comments \cup {NoComment}]]
    /\ row \in [Workers -> Instance]

LEMMA FinishType ==
    ASSUME TypeOK, NEW w \in Workers, Finish(w)
    PROVE  LocalsOK'
BY DEF TypeOK, LocalsOK, Finish, Labels, NoReq, NoInstance, Instance

LEMMA FinishKeeps ==
    ASSUME TypeOK, NEW w \in Workers, Finish(w), RowsOK'
    PROVE  TypeOK'
BY FinishType DEF TypeOK, RowsOK, LocalsOK

LEMMA StartType ==
    ASSUME TypeOK, NEW w \in Workers, NEW op \in AllOps, NEW c \in Comments \cup {NoComment},
           NEW l \in Labels, Start(w, op, c, l)
    PROVE  /\ pc' \in [Workers -> Labels]
           /\ req' \in [Workers -> [op : AllOps \cup {"none"}, comment : Comments \cup {NoComment}]]
BY DEF TypeOK, Start, Goto

LEMMA LoadedType == ASSUME TypeOK PROVE Loaded \in Instance
BY DEF TypeOK, DiscussionRow, Loaded, Instance

LEMMA ArriveType ==
    ASSUME TypeOK, NEW w \in Workers, Arrive(w)
    PROVE  TypeOK'
<1>1. CASE CreateDiscussion(w)
  <2>1. pc' \in [Workers -> Labels] /\ req' \in [Workers -> [op : AllOps \cup {"none"}, comment : Comments \cup {NoComment}]]
    BY <1>1, StartType DEF CreateDiscussion, AllOps, Labels
  <2>2. disc' \in DiscussionRow
    BY <1>1 DEF CreateDiscussion, TypeOK, DiscussionRow
  <2> QED BY <1>1, <2>1, <2>2 DEF CreateDiscussion, TypeOK
<1>2. CASE WriteComment(w)
  <2>1. PICK c \in Comments, p \in Stored \cup {NoComment} :
            /\ Start(w, "comment", c, "bump")
            /\ cmt' = [cmt EXCEPT ![c] = [state |-> "live", parent |-> p,
                                          deletedOld |-> FALSE, updatedOld |-> FALSE]]
            /\ UNCHANGED <<disc, feed, row>>
    BY <1>2 DEF WriteComment
  <2>2. pc' \in [Workers -> Labels] /\ req' \in [Workers -> [op : AllOps \cup {"none"}, comment : Comments \cup {NoComment}]]
    BY <2>1, StartType DEF AllOps, Labels
  <2>3. [state |-> "live", parent |-> p, deletedOld |-> FALSE, updatedOld |-> FALSE] \in CommentRow
    BY DEF CommentRow, Stored
  <2> QED BY <2>1, <2>2, <2>3 DEF TypeOK
<1>3. CASE LoadComment(w)
  <2>1. PICK c \in Live :
            \/ Start(w, "deleteComment", c, "saveComment")
            \/ Start(w, "editComment", c, "saveComment")
    BY <1>3 DEF LoadComment
  <2>2. c \in Comments
    BY DEF Live
  <2>3. pc' \in [Workers -> Labels] /\ req' \in [Workers -> [op : AllOps \cup {"none"}, comment : Comments \cup {NoComment}]]
    BY <2>1, <2>2, StartType DEF AllOps, Labels
  <2> QED BY <1>3, <2>3 DEF LoadComment, TypeOK, tables
<1>4. CASE LoadDiscussion(w)
  <2>1. PICK op \in AllOps, l \in Labels : Start(w, op, NoComment, l)
    BY <1>4 DEF LoadDiscussion, AllOps, Labels
  <2>2. pc' \in [Workers -> Labels] /\ req' \in [Workers -> [op : AllOps \cup {"none"}, comment : Comments \cup {NoComment}]]
    BY <2>1, StartType
  <2>3. row' \in [Workers -> Instance]
    BY <1>4, LoadedType DEF LoadDiscussion, TypeOK
  <2> QED BY <1>4, <2>2, <2>3 DEF LoadDiscussion, TypeOK, tables
<1> QED BY <1>1, <1>2, <1>3, <1>4 DEF Arrive

LEMMA ContinueType ==
    ASSUME TypeOK, NEW w \in Workers, Continue(w)
    PROVE  TypeOK'
<1>0. row[w] \in Instance /\ row[w].count \in Nat /\ row[w].deleted \in BOOLEAN
  BY DEF TypeOK, Instance
<1>a. disc.count \in Nat /\ disc.deleted \in BOOLEAN
  BY DEF TypeOK, DiscussionRow
<1>1. CASE InsertFeedItem(w)
  BY <1>0, <1>1, FinishKeeps DEF TypeOK, InsertFeedItem, RowsOK, FeedItemRow
<1>2. CASE Bump(w)
  <2>1. CASE disc.exists
    <3>1. disc' \in DiscussionRow
      BY <1>2, <2>1 DEF Bump, TypeOK, DiscussionRow
    <3>2. pc' \in [Workers -> Labels]
      BY <1>2, <2>1 DEF Bump, TypeOK, Goto, Labels
    <3> QED BY <1>2, <2>1, <3>1, <3>2 DEF Bump, TypeOK
  <2>2. CASE ~disc.exists
    BY <1>2, <2>2, FinishKeeps DEF TypeOK, Bump, RowsOK, tables
  <2> QED BY <2>1, <2>2
<1>3. CASE Refresh(w)
  <2>1. CASE disc.exists
    <3>1. row' \in [Workers -> Instance]
      BY <1>3, <2>1, LoadedType DEF Refresh, TypeOK
    <3>2. pc' \in [Workers -> Labels]
      BY <1>3, <2>1 DEF Refresh, TypeOK, Goto, Labels
    <3> QED BY <1>3, <2>1, <3>1, <3>2 DEF Refresh, TypeOK, tables
  <2>2. CASE ~disc.exists
    BY <1>3, <2>2, FinishKeeps DEF TypeOK, Refresh, RowsOK, tables
  <2> QED BY <2>1, <2>2
<1>4. CASE PushCount(w)
  <2>1. feed' \in FeedItemRow
    BY <1>0, <1>4 DEF PushCount, TypeOK, FeedItemRow
  <2> QED BY <1>4, <2>1, FinishKeeps DEF TypeOK, PushCount, RowsOK
<1>5. CASE SaveComment(w)
  <2>1. ASSUME NEW r \in CommentRow, NEW d \in BOOLEAN
        PROVE  SavedComment(r, d) \in CommentRow
    BY <2>1 DEF SavedComment, CommentRow
  <2>2. (req[w].op = "deleteComment") \in BOOLEAN
    OBVIOUS
  <2>3. cmt' \in [Comments -> CommentRow]
    BY <1>5, <2>1, <2>2 DEF SaveComment, TypeOK
  <2> QED BY <1>5, <2>3, FinishKeeps DEF TypeOK, SaveComment, RowsOK
<1>6. CASE CountLive(w)
  <2>1. CASE row[w].count = Cardinality(Live)
    BY <1>6, <2>1, FinishKeeps DEF TypeOK, CountLive, RowsOK, tables
  <2>2. CASE row[w].count # Cardinality(Live)
    <3>1. row' \in [Workers -> Instance]
      BY <1>6, <2>2, SetsAreFinite DEF CountLive, TypeOK, Instance
    <3>2. pc' \in [Workers -> Labels]
      BY <1>6, <2>2 DEF CountLive, TypeOK, Goto, Labels
    <3> QED BY <1>6, <2>2, <3>1, <3>2 DEF CountLive, TypeOK, tables
  <2> QED BY <2>1, <2>2
<1>7. CASE SaveDiscussion(w)
  <2>1. CASE disc.exists
    <3>1. disc' = Written(req[w].op, row[w])
      BY <1>7, <2>1 DEF SaveDiscussion
    <3>2. disc' \in DiscussionRow
      BY <1>0, <3>1 DEF Written, TypeOK, DiscussionRow
    <3>3. row' \in [Workers -> Instance]
      <4>1. PICK b \in BOOLEAN : row' = [row EXCEPT ![w].deleted = b]
        BY <1>7, <2>1 DEF SaveDiscussion
      <4> QED BY <4>1 DEF TypeOK, Instance
    <3>4. pc' \in [Workers -> Labels]
      BY <1>7, <2>1 DEF SaveDiscussion, TypeOK, Goto, Labels
    <3> QED BY <1>7, <2>1, <3>2, <3>3, <3>4 DEF SaveDiscussion, TypeOK
  <2>2. CASE ~disc.exists
    BY <1>7, <2>2, FinishKeeps DEF TypeOK, SaveDiscussion, RowsOK, tables
  <2> QED BY <2>1, <2>2
<1>8. CASE PushRow(w)
  <2>1. feed' \in FeedItemRow
    BY <1>0, <1>8 DEF PushRow, Pushed, TypeOK, FeedItemRow
  <2> QED BY <1>8, <2>1, FinishKeeps DEF TypeOK, PushRow, RowsOK
<1> QED BY <1>1, <1>2, <1>3, <1>4, <1>5, <1>6, <1>7, <1>8 DEF Continue

\* The count that CleanComments writes is a natural number because the
\* database's CHECK refuses any other.
LEMMA CleanType ==
    ASSUME TypeOK, CleanComments
    PROVE  TypeOK'
<1> DEFINE removed == Below(CommentsDue)
           alive   == Cardinality(removed \cap Live)
<1>1. alive \in Nat
  BY SetsAreFinite, FS_Subset, FS_CardinalityType
<1>2. disc.count \in Nat /\ disc.count >= alive /\ disc.count - alive \in Nat
  BY <1>1 DEF CleanComments, CanTakeOff, TypeOK, DiscussionRow
<1>3. disc' \in DiscussionRow
  <2>1. disc' = [disc EXCEPT !.count = disc.count - alive]
    BY DEF CleanComments
  <2> HIDE DEF alive
  <2> QED BY <1>2, <2>1 DEF TypeOK, DiscussionRow
<1>4. feed' \in FeedItemRow
  <2>1. feed' = feed \/ feed' = [feed EXCEPT !.count = disc.count - alive]
    BY DEF CleanComments
  <2> HIDE DEF alive
  <2> QED BY <1>2, <2>1 DEF TypeOK, FeedItemRow
<1>5. cmt' \in [Comments -> CommentRow]
  <2>1. cmt' = [c \in Comments |-> IF c \in removed THEN [cmt[c] EXCEPT !.state = "gone"] ELSE cmt[c]]
    BY DEF CleanComments
  <2> HIDE DEF removed
  <2> QED BY <2>1 DEF TypeOK, CommentRow
<1> QED BY <1>3, <1>4, <1>5 DEF CleanComments, TypeOK

\* The rows, the instances and the requests keep their types; in particular
\* the count never becomes negative.
THEOREM TypeCorrect == Spec => []TypeOK
<1>1. Init => TypeOK
  BY DEF Init, TypeOK, DiscussionRow, FeedItemRow, CommentRow, Labels, NoReq, NoInstance, Instance
<1>2. TypeOK /\ [Next]_vars => TypeOK'
  <2> SUFFICES ASSUME TypeOK, [Next]_vars PROVE TypeOK'
    OBVIOUS
  <2>1. ASSUME NEW w \in Workers, Arrive(w) PROVE TypeOK'
    BY <2>1, ArriveType
  <2>2. ASSUME NEW w \in Workers, Continue(w) PROVE TypeOK'
    BY <2>2, ContinueType
  <2>3. ASSUME NEW w \in Workers, Abort(w) PROVE TypeOK'
    BY <2>3, FinishKeeps DEF TypeOK, Abort, RowsOK, tables
  <2>4. CASE Month
    <3>1. disc' \in DiscussionRow
      BY <2>4 DEF Month, TypeOK, DiscussionRow
    <3>2. cmt' \in [Comments -> CommentRow]
      BY <2>4, ZenonT(60) DEF Month, TypeOK, CommentRow
    <3> QED BY <2>4, <3>1, <3>2 DEF Month, TypeOK
  <2>5. CASE CleanDiscussion
    BY <2>5 DEF CleanDiscussion, TypeOK, DiscussionRow, FeedItemRow
  <2>6. CASE CleanComments
    BY <2>6, CleanType
  <2>7. CASE UNCHANGED vars
    BY <2>7 DEF vars, TypeOK
  <2> QED BY <2>1, <2>2, <2>3, <2>4, <2>5, <2>6, <2>7 DEF Next, CleanUp
<1> QED BY <1>1, <1>2, PTL DEF Spec

-----------------------------------------------------------------------------
(* The count covers the stored comments.                                   *)

\* Without these the discussion row is saved only with the columns a request
\* is about, and every comment written is counted.
Careful == "edit" \notin Ops /\ "recalc" \notin Ops /\ MayAbort = FALSE

\* A discussion that is not there has no comments, and whoever is about to
\* save it serves one of the instance's operations that do.
Saving    == {"pin", "flag", "destroy", "edit", "recalc"}
Requested == \A w \in Workers :
                /\ pc[w] \in {"countLive", "saveDiscussion"} => req[w].op \in Ops \cap Saving
                /\ pc[w] = "countLive" => req[w].op = "recalc"
Empty     == ~disc.exists => Stored = {}
CoverInv  == TypeOK /\ Requested /\ Empty /\ CountCovers

\* What a step that neither writes, counts nor removes comments leaves alone.
LEMMA NothingCounted ==
    ASSUME CoverInv, Requested', TypeOK', Stored' = Stored, Uncounted' = Uncounted,
           disc'.count = disc.count, disc.exists => disc'.exists
    PROVE  CoverInv'
<1>1. CountCovers'
  BY DEF CoverInv, CountCovers
<1>2. Empty'
  BY DEF CoverInv, Empty
<1> QED BY <1>1, <1>2 DEF CoverInv

\* How a step of w gets to the statement before a save.
Opens(w) ==
    \E op, c, l : /\ Start(w, op, c, l)
                  /\ l = "saveDiscussion" => op \in Saving
                  /\ l = "countLive" => op = "recalc"
Goes(w) ==
    /\ req' = req
    /\ \E l : /\ Goto(w, l) /\ l # "countLive"
              /\ l = "saveDiscussion" => pc[w] = "countLive"

LEMMA RequestedKept ==
    ASSUME TypeOK, Requested, NEW w \in Workers, Finish(w) \/ Opens(w) \/ Goes(w)
    PROVE  Requested'
<1>1. CASE Finish(w)
  BY <1>1 DEF TypeOK, Requested, Finish
<1>2. CASE Opens(w)
  BY <1>2 DEF TypeOK, Requested, Opens, Start, Goto, Saving
<1>3. CASE Goes(w)
  <2>1. PICK l : Goto(w, l) /\ l # "countLive" /\ (l = "saveDiscussion" => pc[w] = "countLive")
    BY <1>3 DEF Goes
  <2>2. pc'[w] = l /\ \A v \in Workers \ {w} : pc'[v] = pc[v]
    BY <2>1 DEF Goto, TypeOK
  <2>3. \A v \in Workers : req'[v] = req[v]
    BY <1>3 DEF Goes
  <2> QED BY <2>1, <2>2, <2>3 DEF Requested
<1> QED BY <1>1, <1>2, <1>3

LEMMA NotBumping ==
    ASSUME TypeOK, NEW w \in Workers, pc[w] # "bump", NEW l, l # "bump",
           pc' = [pc EXCEPT ![w] = l]
    PROVE  Uncounted' = Uncounted
BY DEF TypeOK, Uncounted

LEMMA StoredKept ==
    ASSUME cmt' = cmt
    PROVE  Stored' = Stored
BY DEF Stored

LEMMA WriteCovered ==
    ASSUME CoverInv, TypeOK', NEW w \in Workers, WriteComment(w)
    PROVE  CoverInv'
<1>1. PICK c \in Comments, p \in Stored \cup {NoComment} :
          /\ disc.exists
          /\ cmt[c].state = "none"
          /\ Start(w, "comment", c, "bump")
          /\ cmt' = [cmt EXCEPT ![c] = [state |-> "live", parent |-> p,
                                        deletedOld |-> FALSE, updatedOld |-> FALSE]]
          /\ UNCHANGED <<disc, feed, row>>
  BY DEF WriteComment
<1>2. Stored' = Stored \cup {c} /\ c \notin Stored
  BY <1>1 DEF Stored, CoverInv, TypeOK
<1>3. Cardinality(Stored') = Cardinality(Stored) + 1
  BY <1>2, SetsAreFinite, FS_AddElement
<1>4. Uncounted' = Uncounted \cup {w} /\ w \notin Uncounted
  BY <1>1 DEF Uncounted, Start, Goto, CoverInv, TypeOK
<1>5. Cardinality(Uncounted') = Cardinality(Uncounted) + 1
  BY <1>4, SetsAreFinite, FS_AddElement
<1>6. CountCovers'
  <2>1. disc'.count = disc.count /\ disc.count \in Nat
    BY <1>1 DEF CoverInv, TypeOK, DiscussionRow
  <2> QED BY <2>1, <1>3, <1>5, SetsAreFinite DEF CoverInv, CountCovers
<1>7. Requested'
  BY <1>1, RequestedKept DEF CoverInv, Opens
<1>8. Empty'
  BY <1>1 DEF Empty
<1> QED BY <1>6, <1>7, <1>8 DEF CoverInv

LEMMA BumpCovered ==
    ASSUME CoverInv, TypeOK', NEW w \in Workers, Bump(w)
    PROVE  CoverInv'
<1>1. Uncounted' = Uncounted \ {w} /\ w \in Uncounted
  BY DEF Bump, Uncounted, Goto, Finish, CoverInv, TypeOK
<1>2. Cardinality(Uncounted') = Cardinality(Uncounted) - 1
  BY <1>1, SetsAreFinite, FS_RemoveElement
<1>3. Stored' = Stored
  BY StoredKept DEF Bump, tables
<1>4. CountCovers'
  <2>1. CASE disc.exists
    <3>1. disc'.count = disc.count + 1 /\ disc.count \in Nat
      BY <2>1 DEF Bump, CoverInv, TypeOK, DiscussionRow
    <3> QED BY <3>1, <1>2, <1>3, SetsAreFinite DEF CoverInv, CountCovers
  <2>2. CASE ~disc.exists
    <3>1. Cardinality(Stored') = 0
      BY <2>2, <1>3, FS_EmptySet DEF CoverInv, Empty
    <3>2. disc'.count \in Nat
      BY DEF TypeOK, DiscussionRow
    <3>3. Cardinality(Uncounted') \in Nat
      BY <1>1, SetsAreFinite, FS_Subset, FS_CardinalityType
    <3> QED BY <3>1, <3>2, <3>3 DEF CountCovers
  <2> QED BY <2>1, <2>2
<1>5. Requested'
  BY RequestedKept DEF CoverInv, Bump, tables, Goes
<1>6. Empty'
  BY <1>3 DEF CoverInv, Empty, Bump, TypeOK, DiscussionRow, tables
<1> QED BY <1>4, <1>5, <1>6 DEF CoverInv

LEMMA CleanCovered ==
    ASSUME CoverInv, TypeOK', CleanComments
    PROVE  CoverInv'
<1> DEFINE removed == Below(CommentsDue)
           alive   == Cardinality(removed \cap Live)
<1>1. removed \subseteq Stored /\ IsFiniteSet(removed)
  BY SetsAreFinite, FS_Subset DEF Below
<1>2. alive \in Nat /\ alive <= Cardinality(removed)
  BY <1>1, TakenOff
<1>3. Stored' = Stored \ removed
  BY <1>1 DEF CleanComments, Stored, CoverInv, TypeOK, CommentRow
<1>4. Cardinality(Stored') = Cardinality(Stored) - Cardinality(removed)
  BY <1>1, <1>3, SetsAreFinite, TakenOff
<1>5. disc'.count = disc.count - alive /\ disc'.exists = disc.exists /\ disc.count \in Nat
  BY DEF CleanComments, CoverInv, TypeOK, DiscussionRow
<1>6. Uncounted' = Uncounted
  BY DEF CleanComments, Uncounted
<1>7. Cardinality(removed) \in Nat
  BY <1>1, FS_CardinalityType
<1>8. CountCovers'
  <2> HIDE DEF alive, removed
  <2> QED BY <1>2, <1>4, <1>5, <1>6, <1>7, SetsAreFinite DEF CoverInv, CountCovers
<1>9. Requested' /\ Empty'
  BY <1>3, <1>5 DEF CleanComments, CoverInv, Requested, Empty
<1> QED BY <1>8, <1>9 DEF CoverInv

LEMMA OthersCovered ==
    ASSUME Careful, CoverInv, TypeOK', NEW w \in Workers,
           \/ CreateDiscussion(w) \/ LoadComment(w) \/ LoadDiscussion(w)
           \/ InsertFeedItem(w) \/ Refresh(w) \/ PushCount(w) \/ PushRow(w)
    PROVE  CoverInv'
<1>1. disc'.count = disc.count /\ (disc.exists => disc'.exists)
  BY DEF CreateDiscussion, LoadComment, LoadDiscussion, InsertFeedItem, Refresh, PushCount,
         PushRow, tables, CoverInv, TypeOK, DiscussionRow
<1>2. Stored' = Stored
  BY StoredKept DEF CreateDiscussion, LoadComment, LoadDiscussion, InsertFeedItem, Refresh,
                    PushCount, PushRow, tables
<1>3. Finish(w) \/ Opens(w) \/ Goes(w)
  BY DEF CreateDiscussion, LoadComment, LoadDiscussion, InsertFeedItem, Refresh, PushCount,
         PushRow, Saving, Opens, Goes
<1>4. Requested'
  BY <1>3, RequestedKept DEF CoverInv
<1>5. pc[w] # "bump" /\ \E l : l # "bump" /\ pc' = [pc EXCEPT ![w] = l]
  BY DEF CreateDiscussion, LoadComment, LoadDiscussion, InsertFeedItem, Refresh, PushCount,
         PushRow, Start, Goto, Finish
<1>6. Uncounted' = Uncounted
  BY <1>5, NotBumping DEF CoverInv
<1> QED BY <1>1, <1>2, <1>4, <1>6, NothingCounted

LEMMA SaveCommentCovered ==
    ASSUME CoverInv, TypeOK', NEW w \in Workers, SaveComment(w)
    PROVE  CoverInv'
<1>2. Stored' = Stored
  BY DEF SaveComment, SavedComment, Stored, CoverInv, TypeOK, CommentRow
<1>3. Uncounted' = Uncounted
  BY NotBumping DEF SaveComment, Finish, CoverInv
<1>4. Requested'
  BY RequestedKept DEF SaveComment, CoverInv
<1> QED BY <1>2, <1>3, <1>4, NothingCounted DEF SaveComment

LEMMA SaveDiscussionCovered ==
    ASSUME Careful, CoverInv, TypeOK', NEW w \in Workers, CountLive(w) \/ SaveDiscussion(w)
    PROVE  CoverInv'
<1>1. CASE CountLive(w)
  <2>1. Stored' = Stored /\ disc' = disc
    BY <1>1, StoredKept DEF CountLive, tables
  <2>2. Uncounted' = Uncounted
    BY <1>1, NotBumping DEF CountLive, Finish, Goto, CoverInv
  <2>3. Requested'
    BY <1>1, RequestedKept DEF CountLive, CoverInv, Goes
  <2> QED BY <2>1, <2>2, <2>3, NothingCounted
<1>2. CASE SaveDiscussion(w)
  <2>1. Stored' = Stored
    BY <1>2, StoredKept DEF SaveDiscussion, tables
  <2>2. Uncounted' = Uncounted
    BY <1>2, NotBumping DEF SaveDiscussion, Finish, Goto, CoverInv
  <2>3. Requested'
    BY <1>2, RequestedKept DEF SaveDiscussion, CoverInv, Goes
  <2>4. req[w].op \in Ops \cap Saving
    BY <1>2 DEF SaveDiscussion, CoverInv, Requested
  <2>5. disc'.count = disc.count /\ (disc.exists => disc'.exists)
    BY <1>2, <2>4 DEF SaveDiscussion, Written, Careful, Saving, tables, CoverInv, TypeOK, DiscussionRow
  <2> QED BY <2>1, <2>2, <2>3, <2>5, NothingCounted
<1> QED BY <1>1, <1>2

\* The comment count covers the comments stored, whatever requests race: it
\* is at least their number less the increments still to come.  The invariant
\* adds that a discussion that is gone has no comments, and who saves.
THEOREM CountIsCovered == Careful => (Spec => []CountCovers)
<1> SUFFICES ASSUME Careful PROVE Spec => []CountCovers
  OBVIOUS
<1>1. Init => CoverInv
  <2> SUFFICES ASSUME Init PROVE CoverInv
    OBVIOUS
  <2>1. TypeOK
    BY DEF Init, TypeOK, DiscussionRow, FeedItemRow, CommentRow, Labels, NoReq, NoInstance, Instance
  <2>2. Stored = {}
    BY DEF Init, Stored
  <2>3. CountCovers
    BY <2>1, <2>2, SetsAreFinite, FS_EmptySet DEF CountCovers, TypeOK, DiscussionRow
  <2> QED BY <2>1, <2>2, <2>3 DEF CoverInv, Empty, Requested, Init
<1>2. TypeOK /\ CoverInv /\ [Next]_vars /\ TypeOK' => CoverInv'
  <2> SUFFICES ASSUME CoverInv, [Next]_vars, TypeOK' PROVE CoverInv'
    OBVIOUS
  <2>1. ASSUME NEW w \in Workers, Arrive(w) PROVE CoverInv'
    BY <2>1, WriteCovered, OthersCovered DEF Arrive
  <2>2. ASSUME NEW w \in Workers, Continue(w) PROVE CoverInv'
    BY <2>2, BumpCovered, OthersCovered, SaveCommentCovered, SaveDiscussionCovered DEF Continue
  <2>3. ASSUME NEW w \in Workers, Abort(w) PROVE CoverInv'
    BY <2>3 DEF Abort, Careful
  <2>4. CASE Month
    <3>1. Stored' = Stored
      BY <2>4, ZenonT(60) DEF Month, Stored, CoverInv, TypeOK, CommentRow
    <3>2. disc'.count = disc.count /\ disc'.exists = disc.exists
      BY <2>4 DEF Month, CoverInv, TypeOK, DiscussionRow
    <3> QED BY <2>4, <3>1, <3>2, NothingCounted DEF Month, CoverInv, Requested, Uncounted
  <2>5. CASE CleanDiscussion
    <3>1. Stored' = Stored /\ Stored = {} /\ disc'.count = disc.count
      BY <2>5, StoredKept DEF CleanDiscussion, CoverInv, TypeOK, DiscussionRow
    <3> QED BY <2>5, <3>1 DEF CleanDiscussion, CoverInv, CountCovers, Requested, Empty, Uncounted
  <2>6. CASE CleanComments
    BY <2>6, CleanCovered
  <2>7. CASE UNCHANGED vars
    BY <2>7 DEF vars, CoverInv, CountCovers, Requested, Empty, Uncounted, Stored, TypeOK
  <2> QED BY <2>1, <2>2, <2>3, <2>4, <2>5, <2>6, <2>7 DEF Next, CleanUp
<1>3. CoverInv => CountCovers
  BY DEF CoverInv
<1> QED BY <1>1, <1>2, <1>3, TypeCorrect, PTL DEF Spec

-----------------------------------------------------------------------------
(* A deletion is final, and the feed never ahead of the count.             *)

LEMMA RequestedStep == TypeOK /\ Requested /\ [Next]_vars => Requested'
<1> SUFFICES ASSUME TypeOK, Requested, [Next]_vars PROVE Requested'
  OBVIOUS
<1>1. ASSUME NEW w \in Workers, Arrive(w) PROVE Requested'
  <2>1. Opens(w)
    BY <1>1 DEF Arrive, CreateDiscussion, WriteComment, LoadComment, LoadDiscussion, Saving, Opens
  <2> QED BY <2>1, RequestedKept
<1>2. ASSUME NEW w \in Workers, Continue(w) PROVE Requested'
  <2>1. Finish(w) \/ Goes(w)
    BY <1>2 DEF Continue, InsertFeedItem, Bump, Refresh, PushCount, SaveComment, CountLive,
                SaveDiscussion, PushRow, Goes
  <2> QED BY <2>1, RequestedKept
<1>3. ASSUME NEW w \in Workers, Abort(w) PROVE Requested'
  BY <1>3, RequestedKept DEF Abort
<1>4. CASE Month \/ CleanUp \/ UNCHANGED vars
  BY <1>4 DEF Month, CleanUp, CleanDiscussion, CleanComments, vars, Requested
<1> QED BY <1>1, <1>2, <1>3, <1>4 DEF Next

LEMMA RequestedInit == Init => Requested
BY DEF Init, Requested

\* Unless a PUT or PATCH writes a whole row it loaded earlier, no interleaving
\* of requests, command, time and clean-up undoes the deletion of a discussion.
THEOREM DeletionIsFinal == Spec => UndeletedOnlyByEdit
<1> DEFINE ByEdit == \E w \in Workers :
                         pc[w] = "saveDiscussion" /\ req[w].op = "edit" /\ ~row[w].deleted
<1>1. TypeOK /\ Requested /\ [Next]_vars => (disc.deleted /\ ~disc'.deleted => ByEdit)
  <2> SUFFICES ASSUME TypeOK, Requested, [Next]_vars, disc.deleted, ~ByEdit PROVE disc'.deleted
    OBVIOUS
  <2>1. ASSUME NEW w \in Workers, Arrive(w) PROVE disc'.deleted
    BY <2>1 DEF Arrive, CreateDiscussion, WriteComment, LoadComment, LoadDiscussion, tables
  <2>2. ASSUME NEW w \in Workers, SaveDiscussion(w) PROVE disc'.deleted
    <3>1. req[w].op \in Ops \cap Saving
      BY <2>2 DEF SaveDiscussion, Requested
    <3>2. req[w].op = "edit" => row[w].deleted
      BY <2>2 DEF SaveDiscussion
    <3> QED BY <2>2, <3>1, <3>2 DEF SaveDiscussion, Written, Saving, tables, TypeOK, DiscussionRow
  <2>3. ASSUME NEW w \in Workers, Continue(w), ~SaveDiscussion(w) PROVE disc'.deleted
    BY <2>3 DEF Continue, InsertFeedItem, Bump, Refresh, PushCount, SaveComment, CountLive,
                PushRow, tables, TypeOK, DiscussionRow
  <2>4. ASSUME NEW w \in Workers, Abort(w) PROVE disc'.deleted
    BY <2>4 DEF Abort, tables
  <2>5. CASE Month \/ CleanUp \/ UNCHANGED vars
    BY <2>5 DEF Month, CleanUp, CleanDiscussion, CleanComments, vars, TypeOK, DiscussionRow
  <2> QED BY <2>1, <2>2, <2>3, <2>4, <2>5 DEF Next
<1>2. Spec => []Requested
  BY RequestedInit, RequestedStep, TypeCorrect, PTL DEF Spec
<1> QED BY <1>1, <1>2, TypeCorrect, PTL DEF Spec, UndeletedOnlyByEdit

\* Instances in which no whole row is saved and the command does not run.
Growing == "edit" \notin Ops /\ "recalc" \notin Ops

NoneGone == \A c \in Comments : cmt[c].state # "gone"
Behind   == feed.count <= disc.count /\ \A w \in Workers : row[w].count <= disc.count
GrowInv  == Requested /\ (NoneGone => Behind)

\* Comments that are gone stay gone, and the clean-up removes at least one.
LEMMA GoneForGood == TypeOK /\ [Next]_vars /\ NoneGone' => NoneGone /\ ~CleanComments
<1> SUFFICES ASSUME TypeOK, [Next]_vars, NoneGone' PROVE NoneGone /\ ~CleanComments
  OBVIOUS
<1>1. ASSUME NEW w \in Workers, Arrive(w) \/ Continue(w) \/ Abort(w) PROVE NoneGone
  <2>1. CASE WriteComment(w)
    BY <2>1 DEF WriteComment, NoneGone, TypeOK
  <2>2. CASE SaveComment(w)
    BY <2>2 DEF SaveComment, Stored, NoneGone, TypeOK
  <2>3. CASE ~WriteComment(w) /\ ~SaveComment(w)
    <3>1. cmt' = cmt
      BY <1>1, <2>3 DEF Arrive, Continue, Abort, CreateDiscussion, LoadComment, LoadDiscussion,
            InsertFeedItem, Bump, Refresh, PushCount, CountLive, SaveDiscussion, PushRow, tables
    <3> QED BY <3>1 DEF NoneGone
  <2> QED BY <2>1, <2>2, <2>3
<1>2. ASSUME Month PROVE NoneGone
  <2>1. \A c \in Comments : cmt[c].state = "gone" => cmt'[c] = cmt[c]
    BY <1>2 DEF Month, Stored
  <2> QED BY <2>1 DEF NoneGone
<1>3. ~CleanComments
  <2> SUFFICES ASSUME CleanComments PROVE FALSE
    OBVIOUS
  <2>1. PICK c \in CommentsDue : TRUE
    BY DEF CleanComments
  <2>2. c \in Comments /\ c \in Below(CommentsDue)
    BY <2>1 DEF Below, CommentsDue, Stored
  <2>3. cmt'[c].state = "gone"
    BY <2>2 DEF CleanComments, TypeOK, CommentRow
  <2> QED BY <2>2, <2>3 DEF NoneGone
<1>4. ASSUME CleanDiscussion \/ UNCHANGED vars PROVE NoneGone
  <2>1. cmt' = cmt
    BY <1>4 DEF CleanDiscussion, vars
  <2> QED BY <2>1 DEF NoneGone
<1> QED BY <1>1, <1>2, <1>3, <1>4 DEF Next, CleanUp

LEMMA GrowStep == Growing /\ TypeOK /\ GrowInv /\ [Next]_vars => GrowInv'
<1> SUFFICES ASSUME Growing, TypeOK, Requested, NoneGone => Behind, [Next]_vars PROVE GrowInv'
  BY DEF GrowInv
<1>1. Requested'
  BY RequestedStep
<1> SUFFICES ASSUME NoneGone' PROVE Behind'
  BY <1>1 DEF GrowInv
<1>b. NoneGone /\ Behind /\ ~CleanComments
  BY GoneForGood
<1>0. /\ disc.count \in Nat /\ feed.count \in Nat /\ feed.count <= disc.count
      /\ \A w \in Workers : row[w].count \in Nat /\ row[w].count <= disc.count
  BY <1>b DEF TypeOK, DiscussionRow, FeedItemRow, Instance, Behind
<1>2. CASE Month \/ CleanUp \/ UNCHANGED vars
  <2>1. CASE Month
    BY <2>1, <1>b DEF Month, Behind, TypeOK, DiscussionRow
  <2>2. CASE CleanDiscussion
    BY <2>2, <1>b DEF CleanDiscussion, Behind, TypeOK, DiscussionRow, FeedItemRow
  <2>3. CASE UNCHANGED vars
    BY <2>3, <1>b DEF vars, Behind
  <2> QED BY <1>2, <1>b, <2>1, <2>2, <2>3 DEF CleanUp
<1>3. ASSUME NEW w \in Workers, Arrive(w) \/ Continue(w) \/ Abort(w) PROVE Behind'
  <2>2. disc'.count \in Nat /\ disc'.count >= disc.count
    <3>1. CASE Bump(w)
      BY <3>1, <1>0 DEF Bump, TypeOK, DiscussionRow, tables
    <3>2. CASE SaveDiscussion(w)
      <4>1. req[w].op \in Ops \cap Saving
        BY <3>2 DEF SaveDiscussion, Requested
      <4> QED BY <3>2, <4>1, <1>0 DEF SaveDiscussion, Written, Saving, Growing, tables,
                                     TypeOK, DiscussionRow
    <3>3. CASE ~Bump(w) /\ ~SaveDiscussion(w)
      BY <1>3, <3>3, <1>0 DEF Arrive, Continue, Abort, CreateDiscussion, WriteComment, LoadComment,
            LoadDiscussion, InsertFeedItem, Refresh, PushCount, SaveComment, CountLive, PushRow,
            tables, TypeOK, DiscussionRow
    <3> QED BY <3>1, <3>2, <3>3
  <2>3. feed'.count <= disc.count
    <3>1. CASE InsertFeedItem(w)
      BY <3>1, <1>0 DEF InsertFeedItem
    <3>2. CASE PushCount(w)
      BY <3>2, <1>0 DEF PushCount, TypeOK, FeedItemRow
    <3>3. CASE PushRow(w)
      BY <3>3, <1>0 DEF PushRow, Pushed, TypeOK, FeedItemRow
    <3>4. CASE ~InsertFeedItem(w) /\ ~PushCount(w) /\ ~PushRow(w)
      <4>1. feed' = feed
        BY <1>3, <3>4 DEF Arrive, Continue, Abort, CreateDiscussion, WriteComment, LoadComment,
              LoadDiscussion, Bump, Refresh, SaveComment, CountLive, SaveDiscussion, tables
      <4> QED BY <4>1, <1>0
    <3> QED BY <3>1, <3>2, <3>3, <3>4
  <2>4. \A v \in Workers : row'[v].count <= disc.count
    <3>1. \/ row' = row
          \/ row' = [row EXCEPT ![w] = NoInstance]
          \/ row' = [row EXCEPT ![w] = Loaded]
          \/ \E b \in BOOLEAN : row' = [row EXCEPT ![w].deleted = b]
          \/ CountLive(w)
      BY <1>3 DEF Arrive, Continue, Abort, CreateDiscussion, WriteComment, LoadComment,
          LoadDiscussion, InsertFeedItem, Bump, Refresh, PushCount, SaveComment, CountLive,
          SaveDiscussion, PushRow, Finish, tables
    <3>2. ~CountLive(w)
      BY DEF CountLive, Growing, Requested, Saving
    <3>3. NoInstance.count = 0 /\ Loaded.count = disc.count
      BY DEF NoInstance, Loaded
    <3> QED BY <1>0, <3>1, <3>2, <3>3 DEF TypeOK, Instance
  <2>5. Behind'
    <3>1. feed'.count \in Nat /\ \A v \in Workers : row'[v].count \in Nat
      <4>1. TypeOK'
        BY <1>3, ArriveType, ContinueType, FinishKeeps DEF Abort, RowsOK, tables, TypeOK
      <4> QED BY <4>1 DEF TypeOK, FeedItemRow, Instance
    <3> QED BY <1>0, <2>2, <2>3, <2>4, <3>1 DEF Behind
  <2> QED BY <2>5
<1> QED BY <1>2, <1>3 DEF Next

\* However requests race, and die half way, the feed item shows at most the
\* discussion's count until a comment is removed from the table.  The invariant says the same of every instance a
\* worker holds, which is where the feed item's count comes from.
THEOREM FeedStaysBehind == Growing => (Spec => []FeedNeverAhead)
<1> SUFFICES ASSUME Growing PROVE Spec => []FeedNeverAhead
  OBVIOUS
<1>1. Init => GrowInv
  BY RequestedInit DEF Init, GrowInv, Behind, NoInstance
<1>2. TypeOK /\ GrowInv /\ [Next]_vars => GrowInv'
  BY GrowStep
<1>3. GrowInv => FeedNeverAhead
  BY DEF GrowInv, NoneGone, Behind, FeedNeverAhead
<1> QED BY <1>1, <1>2, <1>3, TypeCorrect, PTL DEF Spec

=============================================================================

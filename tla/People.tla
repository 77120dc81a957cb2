------------------------------- MODULE People -------------------------------
(***************************************************************************)
(* What a member sets about himself: the profile and the photo with the    *)
(* completeness derived from them, the onboarding progress, the consents.  *)
(*                                                                         *)
(* Most handlers load a row, set some columns and save the whole row.  The *)
(* privacy settings save one column.  Profile edits and photo uploads are  *)
(* transactions that end by recalculating the completeness; the other      *)
(* writers do not recalculate it.  The three parts share no table, so a    *)
(* behaviour is about one of them.                                         *)
(***************************************************************************)
EXTENDS Serving

\* The columns that are told apart: "open" and "shown" are the visibilities of
\* the profile and the photo, "approved" is the moderation of the photo, "dated"
\* whether the consent to data processing has its time.  Requests about other
\* columns set none of them, and save them all.
Tables  == {"profile", "photo", "progress", "privacy"}
Columns == [t \in Tables |-> CASE t = "profile"  -> {"open"}
                              [] t = "photo"    -> {"has", "shown", "approved"}
                              [] t = "progress" -> {"done"}
                              [] t = "privacy"  -> {"marketing", "processing", "dated"}]
Consents == {"marketing", "processing"}

VARIABLES
    part,      \* which part of the member's data this behaviour is about
    db,        \* the member's row in each table
    tracker,   \* the completeness: what it counted when it was last saved, of one
               \* column of the profile and two of the photo
    logged,    \* consents with an entry "given" in the consent log
    unlogged,  \* history: consents given without an entry: the request died before
               \* it made it, or it was the administrators' form, which makes none
    crossed,   \* history: tables ("tracker" too) that two requests were at together
    chosen,    \* history: while a table is not crossed, the values asked for last
    told,      \* history: nothing overlapped, or was saved since the completeness was
    inst       \* the rows each worker has loaded

peopleVars == <<part, db, tracker, logged, unlogged, crossed, chosen, told, pc, req, inst>>

Nothing == [c \in {} |-> FALSE]   \* no columns
Missing == Nothing                \* a row that has not been created

\* The photo starts visible and approved, everything else off.
Fresh == [t \in Tables |-> IF t = "progress" THEN Missing
                           ELSE [c \in Columns[t] |-> c \in {"shown", "approved"}]]

Rows(t)  == [Columns[t] -> BOOLEAN] \cup {Missing}
Sets(cs) == UNION {[c -> BOOLEAN] : c \in SUBSET cs}
Member   == {m \in [Tables -> UNION {Rows(t) : t \in Tables}] : \A t \in Tables : m[t] \in Rows(t)}
NoInst   == [t \in Tables |-> Missing]

Kinds      == {"none", "edit", "photo", "save", "settings", "refresh", "consent"}
Demand     == [kind : Kinds, at : SUBSET (Tables \cup {"tracker"}),
               set : (UNION {Sets(Columns[t]) : t \in Tables}) \cup Sets({"open", "shown"})]
NoDemand   == [kind |-> "none", at |-> {}, set |-> Nothing]
Statements == {"idle", "save", "log", "setOpen", "setShown", "readProfile", "readPhoto", "tell"}

PeopleTypeOK ==
    /\ part \in {"member", "onboarding", "privacy"}
    /\ db \in Member /\ chosen \in Member
    /\ tracker \in [open : BOOLEAN, has : BOOLEAN, approved : BOOLEAN]
    /\ logged \subseteq Consents /\ unlogged \subseteq Consents
    /\ crossed \subseteq Tables \cup {"tracker"} /\ told \in BOOLEAN
    /\ pc \in [Workers -> Statements] /\ req \in [Workers -> Demand]
    /\ inst \in [Workers -> Member]

-----------------------------------------------------------------------------
\* Fault: the columns that are not given are lost.
OverOnly(row, set) == IF set = Nothing THEN row ELSE set

Over(row, set) ==
    [c \in DOMAIN row \cup DOMAIN set |-> IF c \in DOMAIN set THEN set[c] ELSE row[c]]

\* What a recalculation makes of a profile and a photo: the moderation counts
\* for a photo there is.
Reckon(p, f) == [open |-> p.open, has |-> f.has, approved |-> f.has /\ f.approved]

\* A transaction keeps the row it has saved locked until it commits.
Locked(w)  == IF pc[w] \in {"readProfile", "readPhoto", "tell"}
              THEN req[w].at \cap {"profile", "photo"} ELSE {}
Free(t, w) == \A v \in Workers \ {w} : t \notin Locked(v)

Start(w, kind, at, set, label) ==
    /\ pc[w] = "idle"
    /\ Goto(w, label)
    /\ req' = [req EXCEPT ![w] = [kind |-> kind, at |-> at, set |-> set]]
    /\ crossed' = crossed \cup {t \in at : \E v \in Workers : t \in req[v].at}
    /\ UNCHANGED <<part, tracker, logged, unlogged>>

\* What is no longer known of a table once two requests are at it together.
Forget ==
    /\ chosen' = [t \in Tables |-> IF t \in crossed' THEN Missing ELSE chosen[t]]
    /\ told' = (told /\ "tracker" \notin crossed')
    /\ UNCHANGED db

Load(w, t) == inst' = [inst EXCEPT ![w][t] = db[t]] /\ Forget

Respond(w) ==
    /\ Goto(w, "idle")
    /\ req' = [req EXCEPT ![w] = NoDemand]
    /\ inst' = [inst EXCEPT ![w] = NoInst]

\* The row of t becomes `row`, by a request that asked for the columns in `set`.
Write(t, row, set) ==
    /\ db' = [db EXCEPT ![t] = row]
    /\ chosen' = [chosen EXCEPT ![t] = IF t \in crossed THEN @ ELSE Over(@, set)]

-----------------------------------------------------------------------------
(* The requests                                                            *)

\* PUT and PATCH of the profile.
BeginEdit(w) ==
    /\ part = "member"
    /\ \E set \in Sets(Columns.profile) : Start(w, "edit", {"profile", "tracker"}, set, "save")
    /\ Load(w, "profile")

\* The community preferences.  A request that leaves the privacy level out asks
\* for "community": its default is saved, over "private" too.
BeginPreferences(w) ==
    /\ part = "member"
    /\ \E set \in [{"open"} -> BOOLEAN] : Start(w, "save", {"profile", "tracker"}, set, "save")
    /\ Load(w, "profile")

\* The administrators' forms for the profile, the photo and the consents: every
\* column they show is posted, but "dated" is shown only to be read.  The last
\* form is refused if processing is on without its time.
BeginForm(w) ==
    /\ part = "member"
    /\ \E t \in {"profile", "photo"} : \E set \in [Columns[t] -> BOOLEAN] :
          Start(w, "save", {t, "tracker"}, set, "save") /\ Load(w, t)

BeginConsentForm(w) ==
    /\ part = "privacy"
    /\ \E set \in [Consents -> BOOLEAN] :
          /\ set.processing => db.privacy.dated
          /\ Start(w, "save", {"privacy"}, set, "save")
    /\ Load(w, "privacy")

\* The administrators' actions on photos: one UPDATE of the moderation column.
BeginModerate(w) ==
    /\ part = "member"
    /\ \E set \in [{"approved"} -> BOOLEAN] :
          Start(w, "settings", {"photo", "tracker"}, set, "setShown")
    /\ Forget /\ UNCHANGED inst

BeginUpload(w) ==
    /\ part = "member"
    /\ Start(w, "photo", {"photo", "tracker"}, [has |-> TRUE, approved |-> TRUE], "save")
    /\ Load(w, "photo")

\* A member without a photo is answered at once.
BeginDelete(w) ==
    /\ part = "member" /\ db.photo.has
    /\ Start(w, "photo", {"photo", "tracker"}, [has |-> FALSE, approved |-> TRUE], "save")
    /\ Load(w, "photo")

BeginRefresh(w) ==
    /\ part = "member"
    /\ Start(w, "refresh", {"tracker"}, Nothing, "readProfile")
    /\ Forget /\ UNCHANGED inst

\* The privacy settings: one visibility or both.
BeginSettings(w) ==
    /\ part = "member"
    /\ \E set \in Sets({"open", "shown"}) :
          Start(w, "settings", {"profile", "photo", "tracker"}, set, "setOpen")
    /\ Forget /\ UNCHANGED inst

\* A step is not recorded; only the minutes spent are, in a save of the row.
BeginStep(w) ==
    /\ part = "onboarding"
    /\ Start(w, "save", {"progress"}, Nothing, "save")
    /\ LET row == IF db.progress = Missing THEN [done |-> FALSE] ELSE db.progress
       IN /\ db' = [db EXCEPT !.progress = row]
          /\ inst' = [inst EXCEPT ![w].progress = row]
          /\ chosen' = [chosen EXCEPT !.progress =
                            IF "progress" \in crossed' THEN Missing
                            ELSE IF @ = Missing THEN row ELSE @]
    /\ UNCHANGED told

\* get_or_create: a missing row is created complete, and another one is saved
\* only if it is not complete yet.
BeginComplete(w) ==
    /\ part = "onboarding" /\ db.progress # Missing /\ ~db.progress.done
    /\ Start(w, "save", {"progress"}, [done |-> TRUE], "save")
    /\ Load(w, "progress")

CreateComplete(w) ==
    /\ part = "onboarding" /\ db.progress = Missing /\ pc[w] = "idle"
    /\ Write("progress", [done |-> TRUE], [done |-> TRUE])
    /\ UNCHANGED <<part, tracker, logged, unlogged, crossed, told, pc, req, inst>>

\* Consents of other types change no column, yet the row is saved.
Answers == {Nothing} \cup [{"marketing"} -> BOOLEAN]
           \cup {[processing |-> b, dated |-> TRUE] : b \in BOOLEAN}

BeginConsent(w) ==
    /\ part = "privacy"
    /\ \E set \in Answers : Start(w, "consent", {"privacy"}, set, "save")
    /\ Load(w, "privacy")

-----------------------------------------------------------------------------
(* The statements                                                          *)

TableOf(w) == CHOOSE t \in Tables : t \in req[w].at

\* The consents that the request gives.
Given(w) == {c \in DOMAIN req[w].set \cap Consents : req[w].set[c]}

\* The whole row.  In a transaction it is not visible yet.
Save(w) ==
    LET t == TableOf(w)  row == Over(inst[w][t], req[w].set)
    IN /\ pc[w] = "save" /\ Free(t, w)
       /\ \/ /\ req[w].kind \in {"edit", "photo"}
             /\ inst' = [inst EXCEPT ![w][t] = row]
             /\ Goto(w, "readProfile")
             /\ UNCHANGED <<db, chosen, told, req, unlogged>>
          \/ /\ req[w].kind = "save"
             /\ Write(t, row, req[w].set) /\ Respond(w) /\ told' = FALSE
             /\ unlogged' = unlogged \cup Given(w)
          \/ /\ req[w].kind = "consent"
             /\ Write(t, row, req[w].set) /\ Goto(w, "log")
             /\ inst' = [inst EXCEPT ![w] = NoInst] /\ UNCHANGED <<told, req, unlogged>>
       /\ UNCHANGED <<part, tracker, logged, crossed>>

\* Fault: only consents to data processing are logged.
LogProcessing(w) ==
    /\ pc[w] = "log" /\ Respond(w)
    /\ logged' = logged \cup (Given(w) \cap {"processing"})
    /\ UNCHANGED <<part, db, tracker, unlogged, crossed, chosen, told>>

\* ConsentLog.objects.create
Log(w) ==
    /\ pc[w] = "log" /\ Respond(w)
    /\ logged' = logged \cup Given(w)
    /\ UNCHANGED <<part, db, tracker, unlogged, crossed, chosen, told>>

\* One column of a row: save(update_fields) of the two visibilities, one after
\* the other, or the UPDATE of the moderation.
SetOpen(w) ==
    /\ pc[w] = "setOpen" /\ Goto(w, "setShown")
    /\ IF "open" \in DOMAIN req[w].set
       THEN LET set == [open |-> req[w].set.open]
            IN Free("profile", w) /\ Write("profile", Over(db.profile, set), set) /\ told' = FALSE
       ELSE UNCHANGED <<db, chosen, told>>
    /\ UNCHANGED <<part, tracker, logged, unlogged, crossed, req, inst>>

SetShown(w) ==
    /\ pc[w] = "setShown" /\ Respond(w)
    /\ IF DOMAIN req[w].set \cap Columns.photo # {}
       THEN LET set == [c \in DOMAIN req[w].set \cap Columns.photo |-> req[w].set[c]]
            IN Free("photo", w) /\ Write("photo", Over(db.photo, set), set) /\ told' = FALSE
       ELSE UNCHANGED <<db, chosen, told>>
    /\ UNCHANGED <<part, tracker, logged, unlogged, crossed>>

\* calculate_completeness reads what is committed, and the row of its own
\* transaction.
ReadProfile(w) ==
    /\ pc[w] = "readProfile" /\ Goto(w, "readPhoto")
    /\ inst' = IF req[w].kind = "edit" THEN inst ELSE [inst EXCEPT ![w].profile = db.profile]
    /\ UNCHANGED <<part, db, tracker, logged, unlogged, crossed, chosen, told, req>>

ReadPhoto(w) ==
    /\ pc[w] = "readPhoto" /\ Goto(w, "tell")
    /\ inst' = IF req[w].kind = "photo" THEN inst ELSE [inst EXCEPT ![w].photo = db.photo]
    /\ UNCHANGED <<part, db, tracker, logged, unlogged, crossed, chosen, told, req>>

\* Fault: the removal of a photo does not recalculate.
TellButRemoval(w) ==
    /\ pc[w] = "tell" /\ Respond(w)
    /\ tracker' = IF req[w].kind = "photo" /\ ~inst[w].photo.has THEN tracker
                  ELSE Reckon(inst[w].profile, inst[w].photo)
    /\ told' = ("tracker" \notin crossed)
    /\ CASE req[w].kind = "edit"    -> Write("profile", inst[w].profile, req[w].set)
         [] req[w].kind = "photo"   -> Write("photo", inst[w].photo, req[w].set)
         [] req[w].kind = "refresh" -> UNCHANGED <<db, chosen>>
    /\ UNCHANGED <<part, logged, unlogged, crossed>>

\* The tracker is saved, and the transaction, if there is one, commits.
Tell(w) ==
    /\ pc[w] = "tell" /\ Respond(w)
    /\ tracker' = Reckon(inst[w].profile, inst[w].photo)
    /\ told' = ("tracker" \notin crossed)
    /\ CASE req[w].kind = "edit"    -> Write("profile", inst[w].profile, req[w].set)
         [] req[w].kind = "photo"   -> Write("photo", inst[w].photo, req[w].set)
         [] req[w].kind = "refresh" -> UNCHANGED <<db, chosen>>
    /\ UNCHANGED <<part, logged, unlogged, crossed>>

\* Fault: an edit or an upload that fails keeps what it has saved.
FailSaves(w) ==
    /\ MayAbort /\ pc[w] # "idle" /\ Respond(w)
    /\ db' = [t \in Tables |-> IF t \in Locked(w) THEN inst[w][t] ELSE db[t]]
    /\ unlogged' = IF pc[w] = "log" THEN unlogged \cup Given(w) ELSE unlogged
    /\ UNCHANGED <<part, tracker, logged, crossed, chosen, told>>

\* A statement fails and the handler answers 500; a transaction is rolled back.
Fail(w) ==
    /\ MayAbort /\ pc[w] # "idle" /\ Respond(w)
    /\ unlogged' = IF pc[w] = "log" THEN unlogged \cup Given(w) ELSE unlogged
    /\ UNCHANGED <<part, db, tracker, logged, crossed, chosen, told>>

-----------------------------------------------------------------------------
PeopleInit ==
    /\ part \in {"member", "onboarding", "privacy"}
    /\ db = Fresh /\ chosen = Fresh
    /\ tracker = [open |-> FALSE, has |-> FALSE, approved |-> FALSE]
    /\ logged = {} /\ unlogged = {} /\ crossed = {} /\ told = FALSE
    /\ pc = [w \in Workers |-> "idle"]
    /\ req = [w \in Workers |-> NoDemand]
    /\ inst = [w \in Workers |-> NoInst]

Arrive(w) == \/ BeginEdit(w) \/ BeginPreferences(w) \/ BeginForm(w) \/ BeginUpload(w)
             \/ BeginConsentForm(w) \/ BeginModerate(w)
             \/ BeginDelete(w) \/ BeginRefresh(w) \/ BeginSettings(w) \/ BeginStep(w)
             \/ BeginComplete(w) \/ CreateComplete(w) \/ BeginConsent(w)
Continue(w) == \/ Save(w) \/ Log(w) \/ SetOpen(w) \/ SetShown(w)
               \/ ReadProfile(w) \/ ReadPhoto(w) \/ Tell(w)

PeopleNext == \E w \in Workers : Arrive(w) \/ Continue(w) \/ Fail(w)

PeopleSpec == PeopleInit /\ [][PeopleNext]_peopleVars

-----------------------------------------------------------------------------
(* Properties                                                              *)

\* A table that no two requests were at together holds, in every column, the
\* value that was asked for last: requests about other tables, a request that
\* fails half-way and the saves of whole rows undo nothing (ProfileService,
\* PrivacyService, the onboarding and consent serializers).
SettingsStand ==
    \A t \in Tables \ crossed : db[t] = chosen[t]

\* If nothing overlapped, the completeness tells what the profile and the photo
\* show, from a recalculation up to the next save of a writer that does not
\* recalculate (ProfileCompletenessService, its callers).
TrackerTells ==
    told => tracker = Reckon(db.profile, db.photo)

\* However requests overlap, a consent that is on was given by a request that
\* made its entry in the log, is about to, or died before it could, or by an
\* administrator's form, which makes none: a stale save never switches on what
\* nobody gave (ConsentUpdateSerializer.save, PrivacyProfileAdmin).
ConsentHasRecord ==
    \A c \in Consents :
        db.privacy[c] =>
            c \in logged \cup unlogged \/ \E w \in Workers : pc[w] = "log" /\ c \in Given(w)

=============================================================================

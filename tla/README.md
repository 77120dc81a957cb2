# Formal model of the Vineyard Group Fellowship backend

This directory holds a TLA+ development of the backend in `src/`: a Django REST
application on PostgreSQL, served by gunicorn (two processes of four threads)
with Celery beat for nightly tasks. Three things in that setting make the code hard
to test, and they are what the modules are about.

* **Autocommit.** No setting makes a request a transaction (`ATOMIC_REQUESTS`
  is unset), so every SQL statement of a handler, of a `save()` and of a signal
  receiver commits alone, but for the few services that open a transaction
  (registration, profile edits, photo uploads) and `delete()`, which runs its cascade
  and the receivers in one. Two requests interleave between any two statements, and
  a request that dies leaves what it wrote.
* **Whole-row saves.** `Model.save()` without `update_fields` writes every column of
  the instance the handler loaded, however old it is, and INSERTs the row again
  if it is gone.
* **Checks on loaded instances.** Limits, flags, statuses and rights are compared
  in Python with what an earlier statement read.

Each module therefore has the same shape: the tables as variables; `pc[w]`, the
statement worker `w` sends next; `req[w]`, the request it serves; `row[w]`, `memb[w]`,
`inst[w]` or `todo[w]`, the instances it holds. One action is one statement together
with the Python around it. `Abort` ends a request between two statements. A definition
whose comment starts with *Fault* is a defect the code does not have; no specification
uses it, and putting it in place of the definition after it breaks a property.

Properties that hold only while requests do not overlap say so with a history
variable: `calm` (so far one request at a time, each to its end), `alone` and `fresh`
(the last writer of a flag was overlapped by nothing), `crossed` and `told` (per
table), `spoilt` (per item), `late` (per cached page). They are narrow on purpose:
the behaviours with overlap are in the same state graph, and the other properties of
the run bound what they may do.

## Inventory

| Part | State | Operations | What is hard | Correct when |
|---|---|---|---|---|
| Groups (`group/`) | Group, co-leaders, GroupMembership | create, join, leave, approve, reject, edit, photo, archive | counts and rights read before they are used, stale whole-row saves, two inserts that belong together | seats stay within bounds, the leader keeps the seat, a leave or an archiving is undone only by a request that had read the row before; one request at a time is atomic |
| Discussions and comments (`messaging/signals.py`, `tasks.py`) | Discussion, Comment, FeedItem | write, edit, delete comments; pin, report, edit, delete discussions; recalculation; nightly clean-up | receivers that update counters in statements of their own, cascades that run receivers | counts cover the comments, the feed is not ahead, deletions are undone by stale edits only and are cleaned up |
| Private messaging (`messaging/views.py`, `utils.py`) | Conversation, participants, PrivateMessage | start, inquiry, send, close, reopen, read, edit, delete | look-then-create, saves that resurrect rows, timestamps written late | few duplicates, messages between two participants, closed means closed |
| Reactions, reports, moderation (`messaging/views.py`, `signals.py`) | Reaction, ContentReport, counters and flag of the content, FeedItem | react (toggle, retype), report, review, admin deletion | look-then-write against unique constraints, counters kept by receivers, recount and save in two statements | counters never exceed the rows and equal them after calm; the flag tells the reports |
| Prayers, testimonies, scripture and the feed (`messaging/views.py`, `services/feed_service.py`) | their tables, FeedItem, cached pages | create, edit, answer, share, approve, pray, delete, read a page | feed items written by receivers after the row, pages stored after a purge | the feed mirrors the content; decisions are undone by edits only; a page that the purge reaches hides nothing without an overlap |
| Notifications (`messaging/services/notification_service.py`) | NotificationPreference, NotificationLog | notify on new content, change preferences | the limit is counted before the e-mail is logged; preferences are read before it is sent | the limit is overshot by less than the number of requests; an opt-out takes effect unless a stale save undoes it |
| Accounts (`authentication/`) | User, UserProfileBasic, mailed links | register, verify, re-send, administrators' form and actions | queries before the INSERT, stateless links, a thread that mails before the commit | accounts are whole and unique; a disabled account stays disabled |
| Sessions and tokens (`authentication/view_modules/tokens.py`, `authentication.py`, `admin.py`) | OutstandingToken, BlacklistedToken, UserSession, exchange codes | login, exchange, refresh, logout, administrators' form and deletion | tokens read and consumed in several calls, rotation racing logout and the form | bounded re-use, sessions keep their own tokens, no request revives an ended session |
| Onboarding, profiles, privacy | profile, photo, visibility, completeness, progress, consents and their log | edit, upload, settings, preferences, recalculate, moderate, steps, consent, administrators' forms | stale whole-row saves beside one-column saves and transactions, a derived row saved last | what was asked for stands, the completeness tells the rows, a consent that is on has its record or came from an administrator |
| Bible lookup, password flows, core, monitoring, geocoding, deployment | caches, metrics | external calls, reports | - | see "Not modelled" |

The parts meet in the database. Messaging reads group memberships for its
permissions; the receivers of the content tables write the feed, the counters and the
notification log in the request that changed the content; the clean-up task deletes
rows that requests still hold instances of; sessions name tokens by `jti` only; an
administrator's change of an account ends what its tokens may do. No part sends
messages to another one; there is one cache and one task queue.

`PROJECT.json` lists every part with its status and every hazard at its line.

## Modules

| Module | What it is |
|---|---|
| `GroupService` | the group tables and every endpoint of `GroupViewSet`, statement by statement |
| `GroupAbstract` | what the group service promises: each request as one atomic operation (creating and editing have two effects) |
| `GroupSerial` | the refinement mapping from `GroupService` to `GroupAbstract` |
| `ContentCounts` | a discussion, its comments and its feed item, with receivers, command and clean-up |
| `Conversations` | private messaging, every endpoint of `ConversationViewSet` |
| `Engagement` | reactions and reports, with the counters and the flag their receivers keep |
| `FaithFeed` | prayer requests, testimonies and scriptures, their feed items, the cached pages |
| `Notifications` | e-mails about new content: preferences, quiet hours, hourly limit, log |
| `Serving` | the workers and what each serves: what `Accounts` and `People` have in common |
| `Accounts` | registration, verification links, what administrators do to accounts |
| `Sessions` | refresh tokens, device sessions, exchange codes |
| `People` | a member's profile and photo with the completeness, onboarding, consents |
| `...Proofs` | theorems about the module they are named after, with their proofs; `GroupServiceProofs` has those about `GroupSerial` too, `AccountsProofs` those about `People` |
| `MC...` | instances for TLC: the sets of operations and the symmetries |

The modules that share a table share it through what each may see of the other.
`Engagement` has the edits that overwrite its counters and deletions by administrators;
`ContentCounts` has the reports that save a discussion; `Sessions` has the
administrator who disables an account; `FaithFeed` leaves out reactions and comments,
whose receivers update other columns of the same feed items.

### GroupService

`grp`, `co` and `mem` are the tables; a group that does not exist has leader
`NoUser`, and `mem` is a function because `(group, user)` is unique. Membership rows
have primary keys (`Ids`) so that a rejection or a save by key can hit or miss a
newer row of the same user; a key is reused only when no row and no instance holds
it. `Begin` covers routing, authentication and what the serializer checks without
the tables. `IsFull` counts in the table but compares with the limit of the loaded
instance, as `Group.is_full` does. `SaveGroup` writes the instance whole, with the
fields a client may send chosen freely among the valid ones. `Archive` names its
columns. Abstractions: every group is visible to every user (the queryset hides some,
which only removes behaviours); the queries of `_is_group_leader` are one step, as
is the second load of `perform_update` with its permission check; text, photo and
location are left out; rows are changed by requests only (no admin site).

### ContentCounts

One discussion is enough because receivers touch only the rows of their own discussion, with
one exception the model keeps: a due discussion whose removal fails keeps the task from the
comments (`CleanComments` needs `~DiscussionDue`), that night and every later one (`Stuck`).
`Bump`, `Refresh` and `PushCount` are the three statements behind a comment. `Written` says
which columns each kind of save names, `Pushed` what the receiver copies from the instance
in memory. `Month` is the passage of thirty days and waits until no request is under way,
since none lasts that long; the fifteen minutes in which an author may edit a comment become
"not older than a month". The clean-up deletes in a transaction, receivers included, so it
is one step. The weekly recount task is not an action because it raises before it writes
anything.

### Conversations

`Matching` is the lookup of both `start` and `group_inquiry`, which ignores the
status. `Load` stands for `get_object` with the checks on what it loaded. `SaveRow`
covers close, reopen and the inherited PUT and PATCH (all serializer fields are
read-only, so an edit writes back what it loaded). After a DELETE, a stale `SaveRow`
inserts the row again, without participants and messages. Messages are numbered in
the order of their INSERTs, which stands for `created_at`. Users who share a group
are not a state here: any two may write to each other.

### Engagement

`Matches` is the lookup of `ReactionViewSet.create`, with and without the deprecated field
`discussion` or `comment` (`legacy`): without it the filter is `comment IS NULL`. The
request then deletes what it found, retypes it, or inserts (`Delete`, `Retype`, `Insert`);
each receiver is `Count` (an `F()` update), `Refresh` and `Show`, the copy to the feed item.
What kind of content it is decides which of these exist: prayer requests have no counter, so
the receiver raises after the row was stored (`Insert` ends there), and the deletion of such
a reaction is rolled back; comments have no feed item. A deletion runs its receivers in its
transaction, so it is one step, and it is rolled back where the counter would fall below
zero. A report is loaded or inserted, then a receiver loads the content (`LoadContent`),
counts the open reports (`CountReports`) and saves two columns of the loaded instance
(`SaveFlags`); where `SaveReport` inserts again a report that was deleted since, only a
pending one is counted. `BeginEdit` and `SaveItem` are the whole-row save of a PATCH of the
content. One bound is not a CONSTANT: once an edit has written back a wrong count
(`spoilt`), no further edit of that item begins, which ends an otherwise endless drift of a
counter. Reports name the reporter and the content, so a reporter's second report meets the
unique constraint as in the code.

### FaithFeed

The three tables are one, told apart by `kind`; texts, dates and counters other than
`prayed` are left out, and the title of a feed item is the prefix that the receivers put
before it. `Create`, `InsertFeed` and `Purge` are a creation; `Load`, `Save` and `Push` a
change, where `Changed` says what each endpoint does to the instance (and when it refuses)
and `Saved` which columns its save names. Two things in the cache's favour come from the
code as it is, not from its comments. A page with items is never cached: its query
prefetches a relation that `FeedItem` does not have, the service raises, and the view falls
back to an uncached query. And a purge by pattern needs django-redis's backend, where the
production and development settings choose Django's own: it falls back to deleting the keys
of pages 1 to 9 without filter and with 25 or 50 items (`Purged`). The client chooses the
page size and the filter, so `Views` has the pages the purge reaches, those of another size,
and the two filters for prayers; the others are left to their timeout (`Expire`). The
receivers store `prayer_request`, which the filter `prayer` never finds (`InView`). `cache`
is the set of views whose stored page is an empty one. Which items fall on which page is not
modelled: a page is empty or not.

### Notifications

`todo` is the loop over the members of a group. `ReadPrefs` is a `get_or_create` and
the checks on what it returned, `CountRecent` the query of `_is_rate_limited`, `Send` the
e-mail, `Log` the row. `recent[u]` counts the rows of status 'sent' younger than an
hour; `Age` takes one out; rows of other statuses are never read. `hour` is the hour of
the day that quiet hours are compared with, and the window may span midnight. A PATCH loads the
row (`BeginPatch`) and later saves every column of it (`SavePatch`); `out` are the members whose
opt-out no such save has undone, and `after` counts the e-mails they got since. Who is in
the group does not change while the loop runs: the members are loaded by one query.

### Accounts

`BeginRegister` and `CheckEmail` are the two validators, `InsertUser`, `InsertProfile`,
`Mail` and `Commit` the transaction of the service; rows of an open transaction are in
`held`, invisible to queries but not to unique columns. The thread that mails the link is
started inside the transaction, so a link may exist for an account that is not committed and
never will be. A link names an account and works for a day; `links` is therefore a set, and
following one leaves it there. A token is a hash without a key (`utils/auth.py:116`), so a
link need not have been mailed to exist (`OtherLink`). POST loads the account twice
(`BeginPost`, `Validate`), GET once (`BeginGet`). `OpenForm` and `CloseForm` are the
administrators' change form, which writes both boxes as they were shown when it was opened.
Keys are not reused while a link or a request names one.

### Sessions

A session row names its token by `jti`, and that is all that ties the tables. `held` are
the tokens that a response delivered; any of them may be presented at any time. `source`
and `root` record what each token was issued for. A rotation
saves named columns of the session it found (`MoveSession`); the administrators' form saves the
whole row that it loaded (`BeginAmend`, `SaveForm`) and inserts it again if it was deleted.
`calm` excludes that form and an administrator's `Delete`, which leave the session's token
as it is. The device views of `profiles/views.py` are no actions: they name `UserSession`,
`RefreshToken` and `timezone`, which the file never imports, and raise NameError (`:428`) before
anything is read or written; so does the cleanup (`:869`). The admin action
`terminate_sessions` sets a field the model does not have and raises as well. Access tokens are
not stored and not modelled.

### People

The three parts share no table and no request, so `part`, chosen in `Init`, says which one a
behaviour is about. `Columns` names the columns that are told apart: the visibilities of
profile and photo, which the privacy settings save by name, whether there is a photo and its
moderation (`BeginModerate`), two consents, and whether the consent to data processing has
its time. All other columns are only ever written by saves of the whole row. The
completeness counts one column of the profile and, of the photo, that there is one and that
it is approved (`Reckon`); the e-mail verification, which it takes from the member in
memory, is left out. A missing photo row is the row of defaults. `BeginForm` and
`BeginConsentForm` are the administrators' pages; the latter is refused by `clean()` when it
switches data processing on without a time, and makes no entry in the log (`unlogged`).
Edits and uploads are transactions: they lock the row they saved (`Locked`, `Free`) and show
it to others only when they commit (`Tell`). `BeginPreferences` writes the visibility even
if the request leaves it out, because its default is saved. Minutes, single steps and
feedback are left out: no step is recorded, only the minutes are. What other modules call
`Begin`, `Finish` and `Abort` is `Start`, `Respond` and `Fail` here, and the specification
is `PeopleSpec`, so that one proof module can extend `Accounts` and `People`.

## Runs

| Run | Instance | Shows |
|---|---|---|
| `group_races` | 2 workers, 3 users (1 may lead), 1 group, limit 2, no edits and rejections | approvals overshoot the limit by at most one seat per other worker; no race touches the leader's seat; a leave is undone only by a decision that had read the request before, an archiving only by a save that had loaded the group before |
| `group_serial` | 1 worker, 3 users (2 may lead), every endpoint | requests take effect atomically (`GroupAbstract`); approvals fit |
| `counts_all` | 2 workers that may die, 2 comments, everything | types; only a PUT or PATCH that loaded a discussion before its deletion brings it back |
| `counts_cover` | 2 workers, 2 comments, the deletion of their discussion, fair | the count covers the stored comments; the feed is never ahead; deleted comments leave the table unless their discussion falls due, which stops the task |
| `conv_races` | 3 workers, 2 users, 2 conversations, 1 message | duplicates bounded, messages between two participants, rows left by stale saves consistent |
| `engagement_races` | 2 workers that may die, 1 member, a discussion and a prayer request, 2 reactions of 2 types, an administrator | reactions are never overcounted; calm sequences count exactly, feed included; a report or decision nothing overlapped repairs the flag |
| `engagement_toggle_violated` | 1 worker, only reactions | reacting to one content takes away the reaction to another |
| `faith_feed` | 2 workers that may die, 1 content of 3 kinds, 4 kinds of page, 1 prayer counted | the feed mirrors the content; only edits undo decisions; a page the purge reaches hides items by overlap or a failed purge only |
| `notify_limits` | 2 workers, 2 members, 1 kind, limit 2, a day of 3 hours, quiet from 2 to 1 | the limit is exceeded by less than the number of workers; an opt-out stays and lets through at most one e-mail per worker, unless a save of other columns undoes it |
| `accounts_races` | 2 workers that may die, 3 accounts, 2 addresses, 2 names | accounts are whole and unique; outside overlap only an administrator enables a disabled account |
| `sessions_races` | 2 workers that may die, 1 user, 3 tokens, 2 sessions, 1 code, an administrator | re-use is bounded; sessions keep their own tokens; only the form revives a session; sign-ins, rotations and logouts without overlap keep tokens and sessions in step |
| `people_rows` | 2 workers that may die, an administrator | what was asked for stands; the completeness tells the rows; a consent that is on was given by a request with its entry, or by an administrator's form |

### Bounds, and why they are enough

Two workers show every race between two requests, and with `Abort` and a fresh request
per worker also sequences of many. Beyond that:

* *Groups.* `OvershootBounded` counts the members and the seats about to be taken, so with a
  limit of two and two workers it allows three, and two approvals of one joiner in a full
  group of two already exceed it: three users are enough for it to fail, as it does when the
  check admits one member more. `LeaveStands` and `ArchivedStands` need one joiner and one
  stale save. `group_races` leaves out edits (a transfer of leadership breaks
  `LeaderSeatKept`, see below; an upload is the same stale save) and rejections (they only
  grow the state space; `group_serial` has them and the theorems cover all endpoints).
* *Counts.* With two comments the feed can be one behind and one wrong, and one can be
  the reply that a cascade takes along. `counts_cover` leaves out whole-row edits, the
  command and deaths, each of which breaks the count by design of the code, and has the deletion
  of the discussion, which stops the clean-up.
* *Conversations.* Two conversations and two workers about to insert more exceed the bound
  on duplicates. Three workers are what it takes to write to a conversation that a second
  deleted and a third saved again; the message can then be in either, so one is enough. Two
  messages written in the opposite order are not in the run; that the time shown is that of
  a message of the conversation is proved for any number (`LastTimeIsOwn`). Inquiries take
  the same steps as `start`, and edits save a loaded instance as close and reopen do; the
  run leaves them out, the theorems do not.
* *Engagement.* One member suffices for collisions, because the constraint is per member
  and content; two kinds of content are the pair that the lookup confuses. A second
  member would only add rows that no request of the first looks at; that the counters
  add up for any number is proved.
* *Feed.* Contents do not meet but in the cache, where one hidden item is as good as two.
  The four kinds of page are those the purge and the filter tell apart. `MaxPrays` is one: a
  lost increment shows at the first.
* *Notifications.* The limit of two is reached by two workers with one to overshoot; the
  three hours of the day are one outside and two inside a quiet window that spans midnight.
  `MaxAfter` is above the claimed bound, so the claim can fail. Two workers are what it
  takes to lose an opt-out: one that saves it and one that had loaded the row before.
* *Accounts.* Three accounts with two names and two addresses collide in either column or
  in both, and a key can be free again.
* *Sessions.* A token used three times needs three successors, one more than workers: with
  one code and three tokens that happens if the code is not consumed. Two sessions
  are what it takes to mix families.

Workers, keys and users that are exchanged by the symmetry sets occur in no constant on
their own; runs with liveness use none. `CHECK_DEADLOCK` is left on everywhere.

### Fairness

`FairSpec` of `ContentCounts` assumes that each accepted request goes on to its end,
which gunicorn's threads give it, and that the clean-up runs again and again, which
Celery beat's nightly schedule does. Nothing is assumed about the requests clients send. Only
`counts_cover` uses fairness.

## Disagreements found

`engagement_toggle_violated` checks a sentence of the repository that the code does not
keep: `ReactionViewSet.create` (`messaging/views.py:401`) says it removes a reaction of
the same type, and it removes the member's reaction to *other* content
(`views.py:420`). `PROJECT.json` quotes it.

The following were met while modelling. The models contain them (an action does what the
code does); they have no run of their own.

* Groups. A photo upload that overlaps an archive un-archives the group
  (`group/views.py:527`). After a transfer of leadership the former leader keeps leader
  rights through the membership's role (`:144`). A former member cannot join again: the
  INSERT meets the old row (`:384`). Two concurrent creations give a user two active
  groups (`:286`). A request that dies leaves a group without its leader's membership.
* Comments. `signals.py:94` skips a comment that is "Already soft-deleted, count already
  decremented", but soft deletion decrements nothing: the count keeps covering it
  (`CountCovers` would fail at once if it were as the comment says). The clean-up of a
  deleted comment takes along replies that nobody deleted (`messaging/tasks.py:45`). A
  deleted discussion with a comment is never removed: the receiver of the cascade raises
  (`signals.py:763`) and the rest of the clean-up waits for it, that night and every later
  one. A pin pushes a deleted discussion back into the feed item. A comment on a testimony
  or a scripture is stored and counted, then a receiver reads `discussion.group` and the
  client gets a 500 (`signals.py:259`).
* Conversations. An inquiry is written into a closed conversation (`views.py:1288`).
* Reactions. DELETE always answers 500, in a permission check that reads `obj.author`. A
  reaction to a prayer request is stored and then answered 500.
* Feed. Pages with items are never cached. `invalidate_feed` (`cache_service.py:104`) says
  it invalidates "all feed pages"; a page with a filter, or of a size other than 25 and 50,
  is left to its timeout. The filter (`views.py:58`) "Allows both 'prayer' and
  'prayer_request' to work", but both become 'prayer', while the receivers store
  'prayer_request' (`signals.py:366`): neither finds a prayer request (the feed service
  compares exactly, but fails when it finds any).
* Notifications. The receivers for "just answered" and "just approved" compare the row with
  itself and never send. An opt-out is lost for good when a PATCH of other columns had
  loaded the row before: its save switches the e-mails on again.
* Accounts. After an administrator's "verify e-mails" on an inactive account no link
  activates it, though POST answers that one can log in.
* Sessions. Exchange tokens are "single-use" (`authentication/services.py:29`,
  `view_modules/tokens.py:215`); they are without overlap only, and else good for one use by
  each request that runs meanwhile (`SingleUseBounded`); so is a refresh token, in spite of
  its rotation. The device views of `profiles/views.py` raise NameError before they write
  (`:428`), so no device can be signed out; the views of `view_modules/sessions.py` and the
  admin action answer 500 before they write, too.
* People. `ConsentLog` "Maintains immutable record of consent changes"
  (`privacy/models.py:296`), but the administrators' form (`privacy/admin.py:11`) changes
  consents without an entry. A preferences request without `privacy_level` makes a private
  profile "community". The consent POST answers 500 though it is done, because of a field
  that `AuditLog` does not have. The erasure logs `data_processing` as withdrawn, leaves the
  flag on and then answers 500. GET of the onboarding flow and the second feedback of a step
  answer 500.
* Passwords. Every password endpoint calls the service under a name or with arguments it
  does not have, so none changes anything.

## Proofs

Every theorem is checked by TLAPS for any numbers of users, groups, comments,
conversations, items, tokens, accounts and workers, from the named assumptions on the
constants. Where the property is not inductive, the invariant adds what the requests
under way carry.

**GroupServiceProofs.** `TypeCorrect`: the type invariant is inductive as it stands.
`OvershootIsBounded`: the property counts, besides the members, the workers that have
counted and not yet written, for without them the bound is not inductive: active members plus `Seating` workers never exceed the
largest limit plus the number of other workers. A worker joins `Seating` only when it has
just counted fewer members than the limit of its instance, and then every other worker may
at worst be seating too; each seat taken moves one unit from the second number to the first.
`SeatIsKept` needs `NoTransfer` (no edits): the invariant `SeatInv` says that a membership
with the role leader is the active one of the group's leader, and of each request
(`Harmless`) that the group it loaded still names the leader and that the membership it
holds is not his. An approver holds the key of a row that is not a leader's, and a leader's
row is inserted with a key that nobody holds. `LeavesStand` proves `LeaveStands`: a decision
carries a membership that it read while it was pending (`DecidesPending`), and no other
statement turns an inactive row into anything else. `ArchivingStands` proves
`ArchivedStands`: rows that do not exist are not archived (`NoGhosts`), and only `SaveGroup`
writes the column back. Both hold for every endpoint and any number of workers.

The same module proves the refinement, for one worker (`OneWorker`) and every choice of the
other constants and of the endpoints. `SerialInv` says of each statement that what the
request checked before still holds (`Checked`): the instance it loaded is the row of the
table, the membership it decides on is still pending, the group still has room, the creator
still has no active group. With that every step of the handlers maps to one operation of
`GroupAbstract`, or to a stutter (`MappedStep`), which is `SerialImplementsAbstract`. The
abstract operations then give `ApprovalsFit`. With two workers neither
holds, because two approvals may count the same free seat, and an edit may
write back an instance that was loaded before an archiving.

**ContentCountsProofs.** `TypeCorrect`: with the CHECK constraint as the only reason why a
decrement cannot go below zero. `CountIsCovered`: needs `Careful` (no whole-row edit, no
command, no deaths); the invariant adds which requests can be at a save (`Requested`) and
that a discussion that is gone has no comments (`Empty`). `DeletionIsFinal`: an action
property from `Requested` alone, for every choice of operations. `FeedStaysBehind`: until
a comment is removed, every instance a worker holds shows at most the discussion's count,
and so does the feed item that is copied from one; comments that are gone stay gone
(`GoneForGood`).

**ConversationsProofs.** `TypeCorrect`: the invariant adds what each statement relies on a
request to carry; the one UPDATE of `MarkRead` and the cascade of `Delete` keep the
positions of the messages. `ClosedSaysByWhom`: every row of the table and every instance a
worker holds was made by one request, so saving any over any other is harmless to this
relation. `DuplicatesAreBounded`: a worker is about to add a conversation only if it found
none, and then all workers together are at most as many as the bound; each
`AddParticipants` turns one of them into one conversation. The invariant adds that a
conversation without participants is known to the request that inserted it alone, and
that no stale save changes the kind of one that has participants.
`MessagesStayBetweenTwo` proves `MessagesBetweenTwo`: a request about to insert a message
names a conversation whose member the sender is, or one that lost its participants, and no
message lies in a conversation that is still to get them (`MsgInv`); a pair of participants
is two different users because the request was checked for that. `LastTimeIsOwn` proves
`LastIsOwn`: not only the times in the table but those that requests are still to write
(`touch`, `saveRow`) are of messages of the same conversation, and a conversation that is
about to get its participants shows none (`TimeInv`).

**EngagementProofs.** `TypeCorrect` (`Typed`): `Carried` says which rows and content a
request at each statement names. `ReactionsCovered` proves `NeverOvercounted`: a counter is
at most the rows minus the increments still to come (`Covered`), and each increment to
come belongs to a row (`Pointed`), so that deleting the row of a request that has not
counted yet cannot leave the counter above. `FlagsFollowReports` proves `FlagsTellReports`:
a worker that nothing overlapped holds, between its count and its save, the number of
open reports (`AloneInv`); an edit that nothing overlapped holds the row as it is.
`CountedWhenCalm` proves `ReactionsCounted`: while `calm`, at most one worker is at work,
and `InStep` says by how much counter and feed lag behind the rows at each statement; at
rest it is nothing (`Settled`).

**FaithFeedProofs.** `TypeCorrect`: `Carries` says what a statement relies on its request to
carry. `PagesHideByOverlap` proves `HidesOnlyByOverlap`: of the pages whose keys the purge
deletes, a reader between its query and its store hides nothing either, unless it was
overtaken (`missed`), so that storing its page is harmless (`StoreInv`). `UndoneByEdits`
proves `OnlyEditsUndo`: of the requests that save, an edit and a share write columns as they
loaded them earlier; answering and approving only turn one on, praying only counts up, and
only an edit inserts a row that is gone. `FeedShowsContent` proves `FeedMirrors`: while
`calm`, a worker at work is alone and its instance is, or is made of, the row in the table
(`RunsAlone`), and a feed item differs from its content only if a request under way is still
to write it (`Waiting`).

**NotificationsProofs.** `TypeCorrect`. `LimitHolds`: the log plus the workers told to mail
stay below the limit plus the workers (`LimitInv`), as with seats. `OptOutHolds`: as long as
no save of other columns undoes it, the switch of a member who opted out is off, and e-mails
since then plus the workers that found it on are at most all workers (`OptOutInv`, `OutOf`).

**AccountsProofs.** `TypeCorrect`. `AccountsAreWhole` proves `RegistrationWhole`: rows that are
not committed take part in the unique columns (`HeldApart`), and a transaction that is at
its commit has made the profile (`Carried`). `OnlyFormsReenable` proves
`OnlyAdministratorsReenable`: while nothing overlapped, a worker under way is alone and,
about to activate an account, names one that is not verified yet (`CalmInv`); what a
registration inserts is inactive (`NeverActive`), so what is left is the form.

The same module proves the theorems about `People`. `PeopleTypeCorrect`: requests hold the
whole rows that a later statement saves (`Served`), and the progress row, which requests
create, stays once one of them is at it (`Created`). `WhatWasAskedStands` proves
`SettingsStand`: at most one request is at a table that is not crossed (`Lone`), so what its
worker holds of that table is the row, or the row with the columns asked for (`Current`).
`CompletenessTells` proves `TrackerTells`: what a recalculation has read so far is what the
tables say, unless something overlapped it (`Reading`). `ConsentsWereGiven` proves
`ConsentHasRecord`: not only the stored row but also every instance about to be saved over
it has an entry for each consent it shows, made, about to be made, lost with its request, or
never made by an administrator's form (`Recalled`), so that a stale save brings back no
consent that nobody gave.

**SessionsProofs.** `TypeCorrect`. `SingleUse`: a token that is not blacklisted and a code
that is unused have no successors (`Spent`), and the successors plus the requests that may
still issue one are at most the workers (`Bounded`). `FamiliesKeptApart`: of all the pairs
of session and token that a row or a request under way names, an administrator's form
included (`Named`), two belong to the same session exactly if the tokens descend from the
same sign-in; a token about to be inserted is nobody's kin (`Apart`), one about to be moved
to a session is of its family (`Fits`). `EndedForGood` proves `NoRevival`: no statement
makes a row active but an INSERT and the administrators' form. `TablesInStep` proves
`SessionsTrackTokens`: while sign-ins, rotations and logouts run alone, each statement
leaves the two tables apart at most at the tokens its request carries (`Between`, `Books`),
and a request that ends closes the gap; that no second session names a token comes from the
families.

Only model-checked: the liveness property, `CommentsCleaned`, which is out of reach of these
provers. Every invariant and every other temporal property of the passing runs is the
subject of a theorem. Those that carry a hypothesis have the one of their run: `Careful` and
`Growing` say which operations `ContentCounts` is run with, `NoTransfer` which the group
service is, and `OneWorker` that requests are served one at a time.

## Not modelled

* *Password reset and change*: no endpoint reaches the service it means to call, so there
  is no state change to model.
* *Export, erasure and retention* (privacy): they raise before or in the middle of what
  they should do, and of the tables modelled here touch none but for one
  entry, a withdrawal, in the consent log. `GDPRConsentManager` and the consent methods of
  `PrivacyProfile` change consents too, but nothing calls them.
* *Lockout and the breach check*: the login path does not reach the attempt counters, and
  the result of the check is not used.
* *Comments on content other than discussions*: stored and counted once, after which the
  receiver raises; nothing else follows.
* *Serializers, querysets and permissions that only read*, the moderation dashboards and
  the reports of the monitoring app: they change nothing. They are a large part of
  the implementation, and the main reason why the map covers a modest share of it.
* *Device views* (`profiles/views.py`), `view_modules/sessions.py` and the admin action
  `terminate_sessions`: they raise before they write.
* *E-mail verification in the completeness*: read from the member the request loaded, and
  changed in no part that People models.
* *E-mail, geocoding and bible services*: external. *Middleware, metrics, settings,
  deployment, templates, migrations*: no state of the modelled parts depends on them; the
  number of workers and the schedule of the tasks are used as facts.

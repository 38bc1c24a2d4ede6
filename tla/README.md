# Scholr in TLA+

Scholr is a NestJS server with which the students of a university lend each other
books. This directory models the parts of it in which several calls, jobs and the
clock meet: TLA+ modules, configurations for TLC, and proofs for TLAPS.

- `tlc -config X.cfg M` checks a run (the table below names both).
- `tlapm X_proof.tla` checks the proofs of a module.

## The system

One Node process serves HTTP calls and web sockets, runs the workers of three BullMQ
queues, and a cron job. It keeps its state in PostgreSQL (through Prisma) and Redis. A
handler is an `async` function: at each `await` any other handler may run, and other
instances of the server may run at any time. Almost every handler reads, checks and then
writes by id in a later statement, without a lock and outside a transaction. So the
questions to ask of it are about what happens *between* its statements.

| component | state | operations | interacts with |
|---|---|---|---|
| Borrow requests (`borrow-requests.service.ts`) | `borrow_requests`, status of `books`, `chats` | create, accept, reject, returnBook | books, daily job, `notifications` queue |
| Books (`books.service.ts`) | `books` | create, update (with a status), remove (cascades to requests, chats, reviews), images, search | everything that hangs on a book |
| Daily job (`notification.processor.ts`, 08:00) | `status`, `dueDate`, `lastNotifiedAt` | remind at 3 days and 1 day, mark OVERDUE, tell both parties | borrow requests, books |
| Queue jobs (`notification.processor.ts`, `notifications.service.ts`) | `notifications`, jobs, `pushToken` | five handlers, `sendPush` | all that enqueue |
| Reports (`reports.service.ts`) | `reports`, `reportCount`, `isHidden`, `accountStatus`, `admin_actions` | create, handleAction (REMOVE, WARN, SUSPEND, DISMISS) | books, chats, users, `moderation` queue |
| Moderation (`moderation.processor.ts`) | refresh tokens | `suspend.user` deletes a token | reports, auth |
| Reviews (`reviews.service.ts`) | `reviews`, `averageRating`, `reviewCount` | create with its recalculation | borrow requests |
| Admin (`admin.service.ts`) | as reports | toggleBookHidden, updateUserStatus, dashboards | reports |
| Auth (`auth.service.ts`) | refresh tokens in Redis, users | register, logins, refresh, logout | moderation |
| Chats (`chat.gateway.ts`, `chats.service.ts`) | `messages`, `lastMessage`, rooms | join, send, mark read, typing | `notifications` queue |
| Users, history, Cloudinary, guards, wiring | | profile, queries, uploads | |

Hard to get right, and hard to test, are: a check gone stale when its write comes (borrow
requests, books, reports); two statements that belong together and are not in one
transaction (ratings, counts and hiding); a cascade that removes what a call is about to
write; a job that works from a snapshot; jobs carried out late, again, or not at all; dates
compared with `===` after rounding. `PROJECT.json` lists each at its line.

What makes each component correct: a borrow request is decided once, loans have chats, books
do not get stuck, a copy is lent to one person (borrow requests); reminders come in time and
once, nothing is overdue early (daily job); notifications are saved before they are pushed,
retries bounded (queue); content is hidden by many reporters and only by many, counts lose
nothing, the log tells the truth (reports); one review per party and a rating that covers all
of them (reviews); an ended session stays ended, a replaced
token stays dead (auth); receipts are true, a message reaches a recipient who is away, and is
missed only by one connected outside the chat's room (chats).

## The modules

| module | models | how |
|---|---|---|
| `BorrowRequests` | borrow requests and book writes, concurrently, with the daily job's marks | a **slot** is a call being served; `call[s]` is its next statement with what it has read. Each action is one SQL statement or one `$transaction` with the checks up to the next `await`. `Stops` covers refusals, database errors, swallowed queue errors and crashes |
| `RequestLife` | abstract: the life of each request | one atomic step per decision; implemented by `BorrowRequests` when each owner has one call in flight |
| `LendingLedger` | abstract: endpoints as atomic steps on books, requests, chats | implemented by `BorrowRequests` when nothing overlaps |
| `DueReminder` | the daily job against the clock | `todo` is the snapshot; `current`, `step` the loan and statement at hand; ticks of a fraction of a day |
| `Reports` | reports, auto-hiding, administrator actions on one target | a call is the list of statements left to run |
| `Reviews` | reviews and the recalculated rating | a rating is kept as the set of reviews it was computed from: average and count are functions of it |
| `Notifications` | queue, handlers and `sendPush` | one worker; attempts, stalls, the users' push tokens |
| `Chat` | one chat: `send_message` and POST, the chat's room, the offline test, `mark_read` | `send[m]` is the next statement of the handler that sends `m`; `net[k]` how far socket `k` has come; restarts clear handlers and rooms and leave rows and jobs |
| `Messaging` | `Chat` composed with `Notifications` | the gateway's `notificationQueue.add` is the queue's `Added`; worker and gateway die together |
| `Sessions` | one account: register, logins, refresh, logout, suspension and its job | a token is the second it was signed in (it carries nothing else that is unique); `Keeps` is every write to its key in Redis |
| `MC*` | instances for TLC | |
| `*_proof` | theorems | |

`PROJECT.json` maps each definition to its lines. Every definition named by a mutant (the
operator just above it, such as `CanAskBorrowed` above `CanAsk`) stays unused: it is the same
code with a plausible mistake, kept to show that the property can fail.

Abstractions common to all modules: ids are model values; texts, pages and descriptive columns
are left out; a PostgreSQL statement, and a Prisma `$transaction([...])`, is atomic; a unique
index refuses the second row. `prisma/schema.prisma` is the reference for the tables, as
production runs `prisma db push`; the SQL under `prisma/migrations` is older (it still has
reviews unique per book and reviewer).

State and code, for the core module:

| `BorrowRequests` | code |
|---|---|
| `book`, `status`, `chats` | `books.status`, `borrow_requests.status`, rows of `chats` |
| `CreateReadsBook`, `CreateFindsPending`, `CreateInserts` | the three statements of `create` |
| `AcceptReads`/`AcceptCommits`, `RejectReads`/`RejectCommits`, `ReturnReads`/`ReturnCommits` | the checked read, and the write or transaction, of each endpoint |
| `AddsJob` | `notificationQueue.add` after the commit |
| `EditReads`/`EditWrites`, `RemoveReads`/`RemoveDeletes`, `ListsBook` | `BooksService` |
| `SweepReads`, `SweepMarks`, `SweepStops` | `handleDueSoonAndOverdue`; which accepted loans are due is left open here and fixed in `DueReminder` |
| `overtaken` | history, no code: the loans returned while a sweep held them |

And for `Chat`:

| `Chat` | code |
|---|---|
| `SendChecks`, `SendCreates`, `SendUpdatesLast`, `SendEmits`, `SendLooks`, `SendAddsJob` | `handleSendMessage`, one action per `await` (and the broadcast); a message of `RestMessages` is sent by `ChatsService.sendMessage` and is over after `lastMessage` is written |
| `SendStops` | the `catch` of `handleSendMessage`, or a statement of `sendMessage` that throws |
| `MarkChecks`, `MarkUpdates`, `MarkEnds` | `handleMarkRead` |
| `Connects`, `JoinsChat`, `Disconnects` | `handleConnection`, `handleJoinChat`, a socket that closes |
| `last` | `chats.lastMessage`, as the message whose text it repeats. Nothing reads this column: the chat list shows the newest message (`chats.service.ts:28` and `:50`), so no property is about it |
| `heard` | no state of the code: the messages whose `new_message` went to a socket of the recipient |
| `ServerDies`, `ChatDeleted` | a restart; the cascade of a deleted book |

## What is model-checked

| run | module, configuration | result |
|---|---|---|
| `lending_overlapping` | `MCBorrowRequests`, `BorrowRequests_OwnerOnce` | holds |
| `lending_serial` | `MCBorrowRequests`, `BorrowRequests_Serial` | holds |
| `lending_double_submit` | `MCBorrowRequests`, `BorrowRequests_DoubleSubmit` | violated |
| `lending_overdue_return` | `MCBorrowRequests`, `BorrowRequests_Overdue` | violated |
| `lending_late_request` | `MCBorrowRequests`, `BorrowRequests_LateRequest` | violated |
| `due_reminder` | `MCDueReminder`, `DueReminder` | holds |
| `reports` | `MCReports`, `Reports` | holds |
| `reviews` | `MCReviews`, `Reviews` | holds |
| `notifications` | `MCNotifications`, `Notifications` | holds |
| `chat` | `MCChat`, `Chat` | holds |
| `messaging` | `MCMessaging`, `Messaging` | holds |
| `sessions` | `MCSessions`, `Sessions` | holds |

**Lending.** The two passing runs differ in what may overlap, because the code promises
different things then. In `lending_overlapping` an owner has one call in flight, and two more
slots serve borrowers, two of them or twice the same one; the sweep runs and the owner sets the
book AVAILABLE by hand. Then every request lives as `RequestLife` says. The reason is that only
the owner decides on a request, so the owner's own call is the only one that could make its check
stale. Owners are limited to one call because two decisions of one owner at once do undo each
other (see "What the checks found").

`JobsAgreeWithRows` and `DecisionIsFinal` each have one exception, which the code needs:
a loan returned after the sweep has read it and before the sweep marks it ends as OVERDUE, though
its borrower is told 'Return Confirmed'. `overtaken` records exactly these loans, so any other
contradiction between what is queued and what the row says would be found.

What involves the calls of *two* borrowers, or two of one, fails: `lending_late_request`
finds a book lent twice, as `accept` does not look at the book again; `lending_double_submit`
finds two pending requests of one borrower, as nothing but the look-up forbids them. With nothing
overlapping (`lending_serial`, two borrowers, two requests each) each endpoint is an atomic step of
`LendingLedger`, in which a book reads BORROWED exactly while it is lent and nobody else can
ask for it. `lending_overdue_return` finds that an
overdue loan can never be returned: `returnBook` takes ACCEPTED only. (With OVERDUE accepted
too, the property holds on the same instance.)

One book is enough: no statement of these handlers touches two books, and what a call does
to one book does not depend on another. Two borrowers are needed for competing requests, two
requests of one borrower for asking again; `TwoRequests` bounds `lending_overlapping` to two
requests in all, of one borrower or of both (`lending_serial` has four), as no statement but
`updateMany`, which treats all others alike, touches more than one request.

**Daily job.** Ticks of six hours, the job in the second tick of the day; loans of four days
instead of fifteen, long enough for both reminders and a day without any in between; 24 ticks, so
that loans accepted in the first days fall due and have their morning after it. `QuietTicks` is
the first multiple of six above twenty hours: runs are 24 hours apart, so both bounds keep the
same notices. Two loans exercise a run cut between loans.

**Reports.** Threshold 2 (3 in the code) with three reporters, so that the threshold is
reached, exceeded and undercut again by a dismissal; two calls at a time, two administrator
calls. `byHand`, `raced`, `lost` and `discounts` are history variables. They say how far
the code's promise goes: `VisibilityFollowsReports` holds unless an administrator chose, a call
broke off between counting and hiding (or showing), or a report was about to hide at the moment a
dismissal was about to show. That last overlap does leave a book hidden with too low a count or
shown with too high a one.

**Reviews.** Two loans of one lender, so that two calls recalculate the same user, three slots.
`behind` records why a rating may be out of date; `RatingIsRepaired` says that a recalculation
that ran alone leaves no other reason, also after a crash or a cascade. Overlapping
recalculations may lose a review (the older aggregate written last), but not the only one:
`ReviewedIsRated`. A call whose own review was deleted, with its book, before it aggregates can
write an older rating over a newer one as well; `behind` records that too.

**Notifications.** Two jobs (one with a request to look up, one without), the code's three
attempts, one stall each (BullMQ's default limit).

**Chat.** Chats have no state in common, so one is enough. A message by socket and one by POST,
from the two participants: each handler's announcement depends on no other message, and the one by
POST gives `mark_read` of the other side something to mark. The recipient has two sockets, so that
one may join or leave while the other stays. `presence` remembers in which states the recipient
was seen between the check and the look-up of sockets: away, connected (`online`), or in the
chat's room (`joined`). `MessagesAreAnnounced` is exact for those who were away, or connected, all
that time. `HeardOrQueued` is about the two looks of the handler, at the chat's room when the event
goes out and at the user's sockets afterwards: whatever happens between them, a message is missed
only by a recipient who was connected outside the chat's room, and told twice only to one who left
the room. That those outside the room may miss it is how the code is; the property shows
that the race between the two looks loses nothing else: a recipient who comes back after the
event has connected before joining. `due` is history as well.

**Messaging.** One message by socket with two attempts and one stall: enough for a retry, a
repeated run and a final failure (`Notifications` has the code's three attempts and two jobs, and
in `Messaging` messages compete for nothing but the worker). `NotifiedAreTheAway` relates the two ends, the gateway's look at the sockets and the
list of notifications, for a recipient who was away (or connected) all the time;
`EveryMessageGetsThrough` follows a message from its row to the recipient's notification across
`SendAddsJob`, retries and restarts. It excludes handlers that break off after the row is
written: such a message is stored and announced to nobody.

**Sessions.** Keys in Redis and rows of users belong to one account, so one account is enough.
Three calls at a time, three seconds, tokens that live two of them: tokens of one second, of
different seconds and expired ones all occur. `out`, `retired`, `alone` and `holds` are history
variables that say how far the code's promise goes: a session ended while a login or refresh is
past its check may be stored after all, and a caller whose call overlaps another may be answered
a token that is no longer the stored one: the properties exempt exactly these overlaps.
`RetiredStaysRetired` is about tokens that left Redis after their second was over, with no call
about to store the same one; `Signed` shows why: until then a login makes the same token again.

Deadlock is not checked: every instance has finitely many requests, jobs or ticks, and stops
when they are used up.

### Fairness

`FairSpec` of `BorrowRequests`: a call in flight runs its next statement or stops (weak
fairness; an `await` on the database ends). Strong fairness of the return's two actions says
that the parties try again until a call goes through; it is an assumption about people, made to
rule out that OVERDUE lasts only because nobody tries. `FairSpec` of `Notifications`: the worker
goes on with its job (weak), and BullMQ passes no job over for ever (strong). A push that never
answers would break the first; the Expo client is assumed to end its calls. `MessagingFairSpec`
adds that a handler of the gateway that has begun runs its next statement or stops (weak, as
above); nothing is assumed of users, sockets or restarts. Restarts are bounded only while
the worker has a job (`MaxStalls`).

## What is proved

Every invariant and every action property of the passing runs, and both refinements, are
theorems: for any values of the constants that meet the assumption of their module, and any
further one the tables name.

### Lending (`BorrowRequests_proof`)

| theorem | says | assuming |
|---|---|---|
| `TypeCorrect` | `TypeOK` | |
| `NothingIsOrphaned`, `LoansHaveChats` | `NoOrphans`, `ChatBacksLoan` | |
| `QueuedStaysTrue` | `JobsAgreeWithRows` | `OneCallPerOwner` |
| `DecisionsAreFinal` | `DecisionIsFinal` | `OneCallPerOwner` |
| `BorrowedBooksComeBack` | `NoStuckBook` | `OneCallPerOwner`, BORROWED never set by hand |
| `ImplementsLife` | `BorrowRequests` implements `RequestLife` | `OneCallPerOwner` |
| `LedgerIsSound` | the ledger's three invariants | |
| `SerialCallsAreAtomic` | `BorrowRequests` implements `LendingLedger` | `NothingOverlaps` |
| `SerialLendingIsSound` | `AtMostOneLoan`, `LentBookIsBorrowed` | `NothingOverlaps` |
| `SerialLentReadsBorrowed` | `LentBookIsBorrowed` | `NothingOverlaps` |

The assumptions are conditions on the constants, and they are needed: without `OneCallPerOwner`
`NoStuckBook` fails (two slots of the owner suffice), without `NothingOverlaps` `AtMostOneLoan`
does (`lending_late_request`). Nothing in the server enforces either: they say which clients the
theorem is about. `OneCallPerOwner` leaves borrowers free to overlap their own calls, with each
other and with a return of the owner. That a borrower has one pending request for a book is not
among the theorems, since it is false then (`lending_double_submit`).

The invariants are not inductive: whether a commit is safe depends on what its call read
earlier. `RowsInv`, which needs no assumption, adds that what a return or the sweep has read as
lent keeps its chat until it is deleted. `LifeInv` adds `CallStillApplies(s)` for every slot: what
the call has read is still true enough (the request to be decided is still PENDING or deleted, the
loan to be returned was lent, the job to be added is true), and `SweptWereLent`: a loan the sweep
holds is lent, deleted, or has been noted as `overtaken`. The proof splits on
the actions (`EveryMove` says once what each can do to `status`), and for the other
slots uses `BystanderStillApplies`: a step of one call does not decide the request that another
call, of another owner, is about to decide. `RequestLife` is then implemented step by step, reads and jobs being
stutters. `SerialInv` is the sharper version for a single slot, and the ledger's
invariants are carried over to the code's model by the refinement.

### Daily job (`DueReminder_proof`)

| theorem | says | assuming |
|---|---|---|
| `ReminderTypeCorrect`, `NeverOverdueEarly`, `NoticeIsWrittenOnce` | `TypeOK`, `NotOverdueEarly`, `NoSecondNotice` | |
| `BothRemindersInTime` | `RemindedInTime` | `LoanDays > 3` |
| `OverdueLoansAreHandled` | `OverdueIsHandled` | `LoanDays > 0` |

They hold for any length of a day in ticks, any hour of the job, and any hour at which a loan
is accepted. `accept` lends for fifteen days (`borrow-requests.service.ts:94`), which meets both
assumptions; a loan of three days or less may skip a reminder. The argument is arithmetic: the
moments at which rounding up leaves exactly three days (or one) fill a day, and a day holds
exactly one morning (`MorningsApart`, `MorningEveryDay`, `DaysLeftMeans`). `ReminderJobInv` then says loan by loan
which mornings are over (`Reached`) and which notices must be out by then; a loan not yet looked
at counts as one whose morning is still to come, so that a run cut in the middle is covered.

The proof also shows what the code's guards do *not* do. `lastNotifiedAt` plays no part in
`NoSecondNotice`: runs are a day apart and the quiet period is shorter (`QuietNever`), so the
check of `notification.processor.ts` never skips a loan the job would otherwise treat. It is the
comparison of the days left, and the change of status, that prevent a second notice.

### Reports (`Reports_proof`)

| theorem | says |
|---|---|
| `ReportTypeCorrect`, `ManyHide`, `NoReportIsMiscounted`, `LogTellsTheTruth`, `VisibilitySettles` | `TypeOK`, `HiddenOnlyByMany`, `CountIsExact`, `LoggedMeansDone`, `VisibilityFollowsReports` |

For any finite sets of reporters and of calls at a time, any threshold and number of actions.
A call is what it has left to run, so the first part of the proof is about programs: `Program`
and the `...Leads` lemmas say what follows each statement. `CountIsExact` needs the calls that have
inserted and not yet counted (`Counting`); `VisibilityFollowsReports` needs the
calls about to hide and those about to show, and `SeenInv`: as long as nobody interferes, a
count across the threshold is either shown already or somebody is about to show it, and never do
two calls pull in opposite directions.

### Reviews (`Reviews_proof`)

| theorem | says |
|---|---|
| `ReviewTypeCorrect`, `ReviewIsWrittenOnce`, `LoneRecalculationRepairs`, `OverlapsLeaveARating` | `TypeOK`, `OneReviewPerParty`, `RatingIsRepaired`, `ReviewedIsRated` |

`RatingInv(u)` follows the calls that recalculate `u` between their aggregate and their update,
and what each has computed. The first attempt at this proof failed for a good reason:
`ReviewedIsRated` was false with three loans, where TLC's instance has two. A call whose review
is deleted before it aggregates may compute that nobody has rated the user, and write so after a
newer call has written its rating. The history now has "delete" for that.

### Sessions (`Sessions_proof`)

| theorem | says |
|---|---|
| `SessionTypeCorrect`, `EmailHasOneAccount`, `EndedSessionStaysEnded`, `RetiredTokenStaysRetired`, `LoneCallerHoldsTheStoredToken` | the five invariants of `Sessions` |

For any number of calls at a time and any life of a token. Each invariant is about the token
that is stored, and becomes inductive when the tokens that calls in flight are about to store
are included: none after a session has ended (`EndedInv`), none that was retired (`RetiredInv`),
the caller's own if it is alone (`AloneInv`).

### Queue, chat, and both together

| theorem | says |
|---|---|
| `QueueTypeCorrect`, `CompletedJobsAreSaved`, `RetriesDoNotPushAgain`, `RowsAreBounded` | the four invariants of `Notifications` |
| `ChatTypeCorrect`, `TheAwayAreNotified`, `OnlyOutsideTheRoomMisses`, `ReadMeansRead` | the four invariants of `Chat`: `TypeOK`, `MessagesAreAnnounced`, `HeardOrQueued`, `ReceiptsAreTrue` |
| `EachKeepsItsOwnSpec` | every behaviour of `Messaging` is one of `Chat` and one of `Notifications` |
| `TheAwayAndOnlyTheyAreNotified` | `NotifiedAreTheAway` |

For every set of jobs, messages and sockets. `QueueInv` counts: a job has at most a row for each
failed attempt, each stall and the attempt
under way, and a push for each stall and the attempt that completes; only the job at hand is
active. `ChatInv` says what a handler in flight may rely on: its history names the state its
recipient is in right now (the look-up then decides as the history says); a recipient who did not
hear the message and was not seen outside the room is still away (`MissedWhileAway`, which
`FromAwayToOnline` keeps: nobody gets from away into the room in one step); and what its reader
has to mark is still stored and unmarked or has been marked.

`Messaging` is proved by composition. A step of the whole is a step or a stutter of each part
(`EachKeepsItsOwnSpec`), so `ChatInv` and `QueueInv` hold of it as they are; `BridgeInv` adds what
neither can say alone: the gateway's jobs are the ones the queue knows, and what the queue does
not know has left no notification. `Notifications_proof` is instantiated for the queue of
messages; its assumption is proved from those of `Chat` and `Messaging` (`QueueAssumptions`).

### Assumptions on the constants

They are of three kinds. What a table guarantees: owners, requesters and recipients are users,
lender and borrower differ, and a chat has two participants. What the code sets: a positive threshold,
number of attempts, life of a token and length of a day; a cron tick within the day and a quiet period
no longer than it. And what the notation needs: the value for "none" is none of the ids, calls and
reporters are finitely many. TLC evaluates each of them in its runs.

### Only model-checked

Liveness: `JobsSettle` and `EveryMessageGetsThrough` (and the violated `OverdueIsReturned`).
Proofs about fairness and `ENABLED` are beyond the prover used here, as is induction over data;
no theorem needs the latter. That the three `violated` runs fail is of course shown by TLC's
counterexamples.

## What the checks found

1. An OVERDUE loan cannot be returned (`borrow-requests.service.ts:194`).
2. A request checked before and inserted after a loan leads to a second loan (`:89`).
3. A request sent twice at once is made twice, in spite of 'You already have a pending request
   for this book' (`:38` to `:52`).

Noticed while reading or modelling, without a run of their own: accept and reject of one
request from two devices of its owner leave the book BORROWED with nobody holding it
(`borrow-requests.service.ts:156`; two slots with the same caller in `MCBorrowRequests` show
`NoStuckBook` violated); a loan returned while the daily job is under way becomes OVERDUE, after which it can never be
returned again (`notification.processor.ts:223`; `SweepMarks` after `ReturnCommits`, the exception
of `JobsAgreeWithRows` and `DecisionIsFinal`); a
recipient who is online but has not joined the chat's room gets neither the event nor a push
(`chat.gateway.ts:164`, the exception of `HeardOrQueued`); `chats.lastMessage` is written and never read; a message sent by POST is announced to nobody (`chats.service.ts:193`);
`send_message` answers SEND_MESSAGE_FAILED when the queue refuses the job of a message that is
stored; a hidden message is still listed by `getMessages`; when hiding, all reports of a message
count, when showing again only the pending ones (`reports.service.ts:292` and `:318`);
overlapping reviews lose one from
the rating until the next review (`reviews.service.ts:161`); a refresh past its comparison, or a
later login, gives a suspended user a session again after `suspend.user` (the guard still refuses
every other call); a refresh answers success also when Redis did not store its token; a return of the borrower that was checked
before the owner's return makes a book available that is lent again by then; competing requesters
rejected by an accept are not told; dismissing a report twice counts down twice; dismissing one
report shows what another report's REMOVE has hidden; deleting a book leaves ratings that
count its reviews; a crash after OVERDUE is written loses the notices for good; an OVERDUE book
can still be asked for.

## Not modelled

Search, listings, dashboards and history only read. Profiles, titles and images are columns
nothing else depends on (the race for the primary image is listed as a hazard). Cloudinary and
Google are services behind one call. Guards check a single call without state: who may call is
a guard of the actions. Passwords, token formats and e-mail domains are out of scope of `Sessions`.

## Plan

1. An abstract specification of one session per account, and which interleavings of `Sessions`
   implement it.
2. `Lending`: `BorrowRequests` composed with `DueReminder` (due dates decide what the sweep
   reads) and with `Notifications` (which job is carried out when), with proofs by composition
   as in `Messaging`.
3. Step properties of `Reports` and `Reviews` worth a theorem of their own: what a single
   statement may never do to a count or a rating.

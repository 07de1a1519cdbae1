# Formal models of the collection, the scheduler and their surroundings

This directory holds TLA+ specifications of the Android flashcard client in
`src/` (a fork of AnkiDroid), TLC configurations that check them on small
instances, and TLAPS proofs of the results that matter most.  Everything is
translated from the Java source; `PROJECT.json` maps each definition to the
lines it stands for.

Paths below are relative to
`src/AnkiDroid/src/main/java/com/ichi2/` unless they start with `src/`.

## 1. The system

### 1.1 Components

| Component | Source | State it keeps | Operations |
|---|---|---|---|
| V2 scheduler | `libanki/sched/SchedV2.java` | the columns `did odid type queue due odue ivl factor reps lapses left` of `cards`; `revlog`; daily counts inside each deck; in memory: `mToday`, `mDayCutoff`, the four queues, the three counts, the current card | answer, fill queues, build and empty filtered decks, suspend, bury, forget, reschedule, reposition, rollover, undo of a review |
| V1 scheduler | `libanki/sched/Sched.java` | the same columns, other conventions (relearning is type 2, one kind of burying) | overrides of the above |
| Queues and counts | `libanki/sched/{CardQueue,LrnCardQueue,SimpleCardQueue,Counts}.java` | ids (and due times) of the cards to come | fill, peek, remove, clear |
| Collection | `libanki/Collection.java` | the `col` row, `mUndo`, the open scheduler, `mMod`/`mDty`, the schema time | open, save, close, add/remove notes and cards, undo, integrity fix |
| Decks, models, tags | `libanki/{Decks,Models,Tags}.java` | JSON trees held in memory, `mChanged` | edit, rename, remove, flush |
| Cards and notes | `libanki/{Card,Note}.java` | an in-memory copy of a row | load, flush, clone |
| Database | `libanki/DB.java`, `libanki/Storage.java` | SQLite connection, `mMod` | transactions, schema upgrade |
| Background tasks | `async/{CollectionTask,TaskManager,BaseAsyncTask}.java` | `sLatestInstance`, `mPreviousTask`, the list of tasks to cancel | launch, wait, cancel, undo of bulk edits |
| Collection sync | `libanki/sync/{Syncer,RemoteServer,HttpSyncer,FullSyncer}.java`, `async/Connection.java` | update sequence numbers, graves, chunk cursors | meta, start, applyChanges, chunk, applyChunk, sanity check, finish, abort; full up- and download |
| Media sync | `libanki/sync/{MediaSyncer,RemoteMediaServer}.java`, `libanki/Media.java` | media database: checksum and dirty flag per file, last USN | scan, fetch changes, download, upload |
| Import and export | `libanki/importer/*`, `libanki/AnkiPackageExporter.java` | id maps from source to destination | import notes, cards, media; export |
| Finder | `libanki/Finder.java` | none | search to SQL |
| Collection holder | `anki/CollectionHelper.java`, `anki/BackupManager.java` | the single open collection, a lock flag | open, close, lock, back up |
| Screens | `anki/*.java`, `anki/dialogs`, `anki/multimediacard`, `widget` | views | user interaction |
| Reviewer screen and page | `anki/AbstractFlashcardViewer.java`; `src/AnkiDroid/src/main/assets/scripts/card.js` in a WebView | current card, side shown, blocked controls, content rendered last; in the page: resized, anchored, hidden until typeset | show, flip, answer, dismiss, redraw, survive a lost renderer; signals from the page |
| Content provider | `anki/provider/CardContentProvider.java` | none of its own | queries, inserts and answers from other applications |
| Rendering, text, sound | `libanki/{Sound,LaTeX,template,Utils}`, `libanki/hooks` | none | pure functions and I/O |

### 1.2 How they interact

* A screen runs on the main thread.  Work on the collection is a
  `CollectionTask`, run one after the other by Android's serial executor; a
  task additionally waits for the one that was running when it was created.
  Its result is posted to the main thread, where its status becomes FINISHED.
  The main thread nevertheless calls into the scheduler on its own
  (`discardCurrentCard`, `getCard` from the content provider's binder threads).
* The scheduler reads and writes `cards` with SQL.  A `Card` object is a copy
  of a row; `flush` writes it back whole, so a stale copy overwrites what SQL
  changed meanwhile.
* Filtered decks borrow cards: `odid` and `odue` remember the deck and the due
  date, `emptyDyn` gives them back.  A *preview* deck (option "resched" off)
  also overwrites `queue`.
* `Collection.mUndo` holds up to twenty closures, each with copies of cards as
  they were before an operation.  Operations that do not register themselves
  (rebuilding or emptying a filtered deck, the rollover) may run between an
  operation and its undo.
* A sync runs in `Connection`, another `AsyncTask` of the same executor, behind the lock flag of
  `CollectionHelper`; it merges two collections inside one database
  transaction, then closes the collection without saving.  Media follow in the
  same task, with a database of their own and no transaction.
* The screen of a review and the page that shows a card exchange no objects.
  The screen loads a page and calls `onPageFinished()` in it; the page navigates
  to `signal:` addresses, which do not say which card they come from.

### 1.3 What is hard, and what must hold

| Where | Difficulty | What makes it correct |
|---|---|---|
| card rows | one column `due` with three units; queue, type, due and deck must agree after any sequence of some fifteen operations | a card is never lost, has one home, and answering it never raises |
| filtered decks | state is moved aside and restored later, whatever happened meanwhile | they are only a view: schedules are unchanged by them |
| undo | a snapshot is written back after unrelated operations | links, counts and the log stay consistent |
| queues in memory | ids cached before the database changed | no card twice, none skipped, counts as the database says |
| background tasks | a task may be created while another waits | tasks run one at a time, in order, none waits for itself |
| collection sync | a lost answer, a crash between the server's and the client's commit, a cancel | replicas converge, nothing edited is lost |
| media sync | concurrent clients, partial uploads, deletions against additions | every file ends everywhere or nowhere; the loop ends |
| decks | deck tree rebuilt from names, removal in a sync | no card without a deck, parents exist |

`PROJECT.json` lists the hazards line by line.

## 2. How the project is laid out

| Modules | Subject |
|---|---|
| `CardRows`, `SchedV2Cards`, `CardSchedule`, `SchedV2Cards_proofs` | the life of a card row under the V2 scheduler, its refinement of the abstract schedule, proofs |
| `CollectionUndo`, `CollectionUndo_proofs` | EXTENDS `SchedV2Cards`: the undo list, the review log and the daily counts beside the rows; proofs |
| `BackgroundTasks`, `BackgroundTasks_proofs` | tasks and syncs on the serial executor and the main thread |
| `Syncer`, `CollectionSync`, `CollectionSync_proofs` | the collection sync message by message; what it promises; that the promise keeps replicas together |
| `Syncer_proofs`, `SyncerSafety_proofs` | that `Syncer` implements `CollectionSync`; the other invariants of `Syncer` |
| `MediaSync`, `MediaSync_proofs` | the media sync, with concurrent clients and sessions cut short |
| `ReviewerPage`, `ReviewerPage_proofs` | the screen of a review and the page it shows |
| `MC...` | the instances TLC checks, with the `.cfg` files |

What else could be modelled along the same lines: the scheduler's queues and
counts in memory, the import of a package as an initial state of
`SchedV2Cards`, moving between scheduler versions, the tree of decks.

## 3. What is modelled

### 3.1 `CardRows` - a row and what is done to it

A row is a record with the scheduling columns `did odid type queue due odue ivl
left lapses`.  The module has no variables: each operator is what one method
does to one row, and yields the new row or, where the wall clock or the random
fuzz decides, the set of rows that may be written.

| Code | Operators |
|---|---|
| `_restoreQueueSnippet`, `_restoreQueueWhenEmptyingSnippet` | `RestoreQueue`, `RestoreQueueWhenEmptying` |
| `_moveToDyn`, `emptyDyn`, `remFromDyn`, `_removeFromFiltered`, `_restorePreviewCard` | `MoveToDynRow`, `EmptyDynRow`, `RemFromDynRow`, `RemoveFromFiltered`, `RestorePreviewRow` |
| `suspendCards`, `buryCards`, `unburyCards`, `_burySiblings` | `HoldRow`, `RestoreRow`, `SiblingToBury` |
| `forgetCards`, `reschedCards`, `sortCards` | `ForgetRow`, `ReschedRow`, `PlaceRow`, `ShiftRow`, `Least` |
| `_answerCard` and below | `AnswerRows` and below, one operator per method |

Abstractions, each with its reason:

* **`due`** keeps its three units.  A time in seconds is `Seconds(day)`, one
  value per day above `SecBase`, which stands for the constant 1000000000 the
  code compares with; no operation distinguishes two times of a day.  Places in
  a filtered deck all are `FilteredDue`, -100000.
* **`left`** counts the remaining steps.  Its "steps until the cutoff, times
  1000" part only feeds a count and is left out.
* **Learning steps.** A step may end before the cutoff (queue 1, seconds) or
  after it (queue 3, days); both outcomes are possible for every step.
* **Intervals.** `_nextRevIvl` works with floating point and fuzz; what the
  rest of the code relies on is the bound `_constrainedIvl` enforces, which is
  `ConstrainedIvls`.  `_earlyReviewIvl` and `_nextRevIvl` with a hard factor not
  above 1 start from 0 instead of the previous interval, as in the code.
* `factor`, `reps`, `mod`, `usn`, the review log and the daily counts decide
  nothing about the columns above and are left out of this module.

### 3.2 `SchedV2Cards` - the table as a state machine

`rows` is the table, `today` is `mToday`.  One action per operation: `Answer`,
`BurySiblings`, `RebuildDyn`, `EmptyDyn`, `SuspendCards`, `UnsuspendCards`,
`BuryCards`, `BuryNote`, `UnburyCardsForDeck`, `ForgetCards`, `ReschedCards`,
`RepositionCards`, `SortDeck`, `ChangeDeck`, `NewDay`.

* `Answer` is the whole of `answerCard`: siblings buried, the card rescheduled,
  its row flushed.  `answerCard` is not in a transaction of its own, so the
  process may die after the siblings were buried: that is a `BurySiblings` step,
  which is also what `getCard` does through `setCurrentCard` when it hands out a
  card.  Every other operation is one SQL statement or runs in one transaction
  of its `CollectionTask`, hence one action.
* The cards a search of a filtered deck finds are any set of cards that satisfy
  the condition `_fillDyn` appends (`Gatherable`).
* A card is answered only when one of the queues could hand it out
  (`Fetchable`), with the buttons `answerButtons` offers (`Buttons`).
* `sortCards` gives the notes of its cards successive positions in any order
  (`Placings`); with `shift` the other new cards from the start on are moved
  behind them (`Repositioned`).  `SortDeck` is `randomizeCards` and
  `orderCards`, which sort a whole deck without a shift.  `forgetCards` places
  cards behind the last of the new queue; the model lets it start anywhere,
  which covers whatever else is in the collection.

### 3.3 `CardSchedule` - what the scheduler promises

A card has a home deck, a schedule (stage, due date, interval, lapses) and is
active, suspended or buried.  Filtered decks, queues and units do not exist.
Studying changes the schedule of one active card by one legal stage and may bury
siblings; suspending, burying and giving back never touch a schedule; planning (forget,
reschedule) makes a card active with a schedule set by hand; arranging
(reposition, sort) changes the places of new cards, held back or not; moving
changes the home.
`SchedV2Cards!ImplementsSchedule` says the table implements it: home is `odid`
or `did`, the due date is `odue` while the card is in a filtered deck.

### 3.4 `CollectionUndo` - the undo list beside the table

Extends `SchedV2Cards` with `undos` (`mUndo`), `log` (how many `revlog` entries
each card has) and `counts` (`newToday` and `revToday` of each ordinary deck;
those of a filtered deck are written but never read, and left out).

| Code | Actions and operators |
|---|---|
| `markUndo`, `markReview`, `Undoable.revertToProvidedState` | `MarkUndo`, `ReviewEntry` (`ReviewOn`), `Entry`: an entry has copies of rows |
| `answerCard` with `markReview`, the log and `_updateStats` | `AnswerCard`, `CountedAnswer`, `UpdateStats` |
| `CollectionTask.DismissNote` (suspend or bury a card or its note) | `Dismiss`; `DismissFails` when its transaction is rolled back after `markUndo` |
| `SuspendCardMulti`, `RescheduleRepositionReset`, `ChangeDeckMulti` | `SuspendCardMulti`, `EditCards`, `ChangeDeckMulti` |
| `nonTaskUndo` and the `undo` methods | `Undo`, with `ReviewUndone`, `LogDeleted`, `CountsUndone` for `undoReview`, and `UndoDismiss`, `UndoSuspendCardMulti`, `UndoEditCards`, `UndoChangeDeckMulti` |
| `clearUndo` | `ClearUndo` |
| filtered decks, fetching, unburying, sorting a deck | `WithoutUndo`: they leave no entry |
| `_updateCutoff` | `RolloverCounts` |

* Copying the cards of a bulk edit may be cancelled; the edit then goes on
  without an entry, which `EditCards` allows.
* `DismissNote`, the bulk edits and their undo fetch the next card inside their
  transaction, which buries its siblings (`NextShown`); undoing a review or a
  dismissal shows the card it brings back.
* `undoReview` gives *every* buried sibling the queue of its type, also one that
  an earlier review buried; `UndoChangeDeckMulti` loads the rows as they are
  now and sets only `did`.
* `day` and `counts` inside a review entry are not in the code: they record,
  for `UndoneReviewIsNotCounted`, what the undo should bring back.
* The constant `UndoableMoves` switches `ChangeDeckMulti` on.  With it, and
  filtered decks, `FilteredLink` fails (4.4), so the run that checks everything
  else about filtered decks leaves it off.

### 3.5 `BackgroundTasks` - tasks off the main thread

Two threads: `worker`, the one thread of Android's serial executor, which takes
tasks from `queue`, and `main`.  Every task, a `CollectionTask` or a sync
(`Connection`), is an `AsyncTask`, whose record in `async` has its status, the
state of its future and whether it was cancelled.

| Code | Actions |
|---|---|
| `AsyncTask` and `FutureTask` (external) | `Execute`, `Cancel`, `TakeNext`, `RunReturns`, `Finish` |
| `TaskManager.launchCollectionTask`, constructor of `CollectionTask` | `LaunchCollectionTask` from the main thread, `BodyLaunches` from a running task (`getCard` starts `Reset`) |
| `Connection.launchConnectionTask`, `cancel` | `LaunchConnectionTask`, `Joined`; `CancelSync` |
| `actualDoInBackground`, `doInBackgroundSync` | `Begin`, `SyncBegins` |
| `doInBackground` returning | `BodyEnds` |
| `onPostExecute`, `onCancelled` | `FinishPosted`, `FinishCancelled` in `Finish` |
| `safeCancel`, from `cancelAllTasks` and `cancelCurrentlyExecutingTask` | `SafeCancel` |
| `waitToFinish`, `waitForAllToFinish` | `StartWaiting`, then `Look`, `Await`, `Awaited` per round |

* What Android does is modelled from how the code uses it.  A task posts its
  result from inside its future, so the main thread may finish it a moment
  before the future is done; more often the future is done, or cancelled, and
  the status still RUNNING.  `cancel(true)` marks a task whose future is done
  as cancelled all the same: `finish` then calls `onCancelled`.  A task
  cancelled while it runs runs on to its end.
* `waitToFinish` reads `sLatestInstance` once to see whether it has to wait
  (`Look`) and again to wait (`Await`); a task may start in between.
* `waitForAllToFinish` is four rounds with a time limit, which may run out in
  any of them.  In `SyncBegins` the wait is one step: the serial executor runs
  nothing else meanwhile.  Nothing says that no task is left when
  `waitForAllToFinish` returns: it sees only tasks that have started, as its own
  comment concedes.
* `heard` records how each listener was answered, `seen` which task ran when
  the main thread began to wait; neither is in the code.

### 3.6 `Syncer` - the collection sync

Clients and one server each hold a collection: rows of the three tables sent in
chunks (`revlog`, `cards`, `notes`), the small objects sent whole (decks,
models), the log of deletions, `conf`, and the row's `mod`, `scm` and `usn`.  A
row is when and by whom it was written, and its update sequence number; `shape`
tells note types with other fields or templates apart.  `disk` is what survives
a kill, `mem` what the open collection shows: the open transaction of a sync, and
between syncs the decks, models and `col` row not saved yet.

| Code | Actions and operators |
|---|---|
| `Card.flush`, `addNote`, `remCards`, `Decks.save` and `rem`, `modSchema` | `EditRow`, `Review`, `AddCard`, `RemCard`, `EditSmall`, `RemDeck`, `EditConf`, `ModSchema`, `ImportModel` |
| `sync` up to the meta data: no changes, full sync, basic check | `Meta` |
| `removed`, `start`, `remove` | `Start` |
| `changes`, `applyChanges`, `mergeChanges` | `Changes`; `SchemaClash`, `ServerClash`, `AskAfterAbort` where a note type has another shape |
| `chunk`, `applyChunk`, `newerRows`, `mergeRevlog` | `Download`, `Upload`; `ChunkRows`, `Ended`, `MergeChunk` |
| `sanityCheck`, `sanityCheckError` | `SanityCheck`, `SanityError` |
| `finish` on either side | `ServerFinish`, `ClientFinish` |
| exceptions, cancelling, kills; the rollback | `Fail`, `Drop` |
| `FullSyncer.upload`, `download`, `Collection.beforeUpload` | `FullUpload`, `FullDownload` |

* The server is the server half of `Syncer` (`mCol.getServer()`).  Assumed of
  it: a session is one transaction, and it serves one session at a time
  (`ServerFree`).
* `Worthwhile` leaves out syncs that have nothing to exchange; they move
  modification times only.
* A clock ticks with every edit; several edits may fall into one second
  (`Tick`), which is the resolution of `mod`.
* The sanity check compares counts, of rows and of due cards; the latter can
  tell collections with different rows apart, and need not, so that
  `SanityError` may or may not occur where only rows differ.
* `newerRows` compares the time of a local row with column 4 of the one received.
  In a chunk of notes that is the `usn`, far below any time, so that a note this
  side is to send is never replaced (4.5).  `NewerRows`, and `Age` in
  `CollectionSync`, say so; cards are compared by their time.
* An import may give a note type another shape without a full sync
  (`ImportModel`), the case `mergeModels` is prepared for.

`CollectionSync` says what this promises, in terms of `file`, the collection on
each client's disk, and the server's: the two exchange all they have for each
other at once; who wins is `ClientTakes` and `ServerTakes`; the server commits
(`ServerCommits`), and the client commits its half (`ClientCommits`) or loses it
(`ClientDrops`).  `Syncer!KeepsPromise` maps `Syncer` to it.

### 3.7 `MediaSync` - the media sync

Each client has a directory (`disk`), a row per file with the checksum it knows
and the dirty mark (`rows`), and what its media database remembers (`meta`:
`lastUsn`, and whether the directory was ever scanned).  `session` is where
`MediaSyncer.sync` stands.  Nothing is rolled back: the statements of the media
database are durable one by one.

| Code | Actions and operators |
|---|---|
| `Media.addFile`, `removeFile`, `findChanges` | `AddFile`, `RemoveFile`, `CheckMedia`; `LoseFile` is a file manager |
| `begin`, and the first scan | `Begin` |
| `mediaChanges` and the loop over them | `GetChanges`, with `Fetched`, `Deleted`, `Resolved` |
| `_downloadFiles`, `addFilesFromZip`, `setLastUsn` | `Download`, `DownloadFails`, `Downloaded` |
| `mediaChangesZip`, `uploadChanges`, `markClean` | `Upload`, with `Missing`, `Split`, `Processed`, `UsnAfter` |
| the recursive `sync()` | `Restart` |
| `mediaSanity`, `forceResync` | `Sanity` |
| cancelling, lost requests, kills | `Interrupt`, `InterruptChanges`, `InterruptDownload`, `UploadUnanswered` |

* The server is external.  Assumed of it: it numbers the changes it receives one
  by one, lists, hands out and processes as many at a time as it likes, in the
  order of the zip, and does not hand out a file that is deleted.
* `mediaChangesZip` notes a file that is missing as removed, leaves it out of
  the zip, and still returns it in the list whose first `processedCnt` names are
  marked clean.  A removal may be marked clean that way without having been
  sent.  `mislaid` (history) collects those files and the properties except
  them.
* `unsent` (history) is for `AddsAreFavoured`.

### 3.8 `ReviewerPage` - the screen of a review and its page

The screen: `mCurrentCard`, `sDisplayAnswer`, the Show Answer button, the
content rendered last (`mCardContent`), `mInAnswer`, the collection tasks that
wait to run (`waiting`) or have reported (`reports`), the clicks posted to the
ease buttons.  The WebView: the page loaded and not yet committed (`load`), the
committed page, and its navigations not yet seen (`signals`).

| Code | Actions and operators |
|---|---|
| `displayCardQuestion`, `displayCardAnswer`, `updateCard`, `redrawCard` | `QuestionScreen`, `displayCardAnswer`, `Show`, `Redrawn` |
| `answerCard`, `mAnswerCardHandler`, `blockControls`, `NextCardHandler`, `closeReviewer` | `answerCard`, `Launch`, `TaskDone`, `DisplayNext`, `NoMoreCards`, `Closed` |
| click listeners, `onKeyUp`, `executeCommand`, `flipOrAnswerCard`, `performClickWithVisualFeedback` | `TapFlip`, `TapEase`, `KeyShowsAnswer`, `KeyFlipsOrAnswers`, `PostedClick` |
| `dismiss`, `undo`, `performReload`, the reschedule and reset dialogs of `Reviewer` | `Dismiss`, `Undo`, `performReload`, `Reschedule` |
| `onRenderProcessGone` | `RendererGone` |
| `filterUrl` | one action per signal, `TypeFocusReceived` to `ReloadReceived` |
| `card.js`: `window.onload`, `resizeImages`, `onPageFinished`, `_runHook` | `OnLoad`, `resizeImages`, `OnPageFinished`, `HooksSettled`, `Typeset`, `ChainFails` |
| `card.js`: `taFocus`, `taBlur`, `taKey`, `showAnswer`, `buttonAnswerEase1` to `4`, `reloadPage` | `taFocus`, `taBlur`, `taKey`, `CalledByTemplate` |

* The WebView is external: it commits what was loaded last, which drops the page
  before and its signals; it calls `onPageFinished` perhaps several times for a
  page, before or after `window.onload`; it may lose its renderer at any time.
* Which card is next is the scheduler's business: cards are numbered as they are
  shown, and a card shown again has a new number.
* Only `executeCommand` and `answerCard` ask whether the controls are blocked.
  The menu and the dialogs launch their tasks all the same, and the listener of
  `RescheduleCards` and `ResetCards` does not block: several tasks may be under
  way.  They run and report in the order they were launched, and each report,
  whatever it is of, shows a card and gives the controls back.
* `handed` (history) counts how often the card on screen has been handed to
  `AnswerAndGetCard` since it was shown.
* `answerCard` may return at once for an ease the card has no button for.

## 4. What is checked

### 4.1 Runs

| Run | Instance | Shows |
|---|---|---|
| `one_card` | one card, two ordinary decks, a filtered deck, a preview deck, days 1 to 3, two learning steps, one relearning step, leech at two lapses | all properties below over every sequence of operations |
| `siblings` | two sibling cards, one ordinary and one preview deck, days 1 and 2 | burying siblings, by fetching, answering and by hand, changes no schedule and leaves both restorable |
| `undo_filtered` | one card, one ordinary, one filtered and one preview deck, an undo list of two | undo entries written back after filtered decks were rebuilt, emptied or previewed, after a rollover, or after a failed or cancelled operation |
| `undo_siblings` | two sibling cards, one ordinary deck, an undo list of one | undoing leaves both cards restorable; a review undone at once leaves no trace in the table |
| `undo_moves` | one card, two ordinary decks, an undo list of two, two reviews a day | daily counts of both decks when reviews and moves are undone in any order |
| `tasks` | any three of two collection tasks and two syncs | launching, cancelling and waiting in any interleaving; every task is answered |
| `sync` | two clients, a note with one or two cards, a log, a deck, a model, chunks of two rows; two edits, one failure, one full upload | every interleaving of edits, sessions, chunks, lost answers, kills and full syncs |
| `page` | two cards, two tasks under way, two calls of `onPageFinished` per page, and of a signal on its way, a posted click and the second of those calls one at a time | the screen and its page agree, one answer each time a card is shown, the review goes on |
| `media` | two clients, two files, two contents, three edits, one session cut short | concurrent uploads, restarts, failed sanity checks and cuts end in agreement |
| `undo_move`, `sync_forced`, `media_lost` | the same modules where a property does not hold | violations, see 4.4 |

### 4.2 Properties

* `TypeOK` - the columns keep their ranges.
* `FilteredLink` - a card is in a filtered deck iff it remembers its home, and
  has an original due date only there; what *Check database* would repair.
* `QueueIsRestorable` - outside preview decks the queue of an active card is the
  one the SQL snippets compute; otherwise suspending and unsuspending, or
  burying and unburying, would change it.
* `DueCardIsFetchable` - a card whose time has come can be handed out by a
  queue: no day number in the seconds queue or the reverse.
* `AnswerNeverThrows` - no answer the reviewer offers meets the
  `RuntimeException`s of `_answerCard` and `_earlyReviewIvl`.
* `ImplementsSchedule` - refinement of `CardSchedule`.
* `EmptyingRestoresCard` - what emptying a preview deck gives back does not
  depend on the answers given in it.
* `UndoTypeOK` - every row in an undo entry is one the table could hold, and the
  list stays within its bound.
* `UndoableReviewHasLog` - `undoReview` deletes the last log entry of the card
  whichever review wrote it; each review in the undo list still has one of its
  own, so no undo removes the entry of a review that stands.
* `UndoRestoresTable` - undoing a review at once brings back every row, the
  answered card's and its siblings', as they were while the card was shown.
* `UndoneReviewIsNotCounted` - a review undone on the day it was made leaves the
  daily counts of all ordinary decks as they were before it.
* `CancellableTasksAreListed` - `sTasks` holds exactly the tasks that run or are
  to run and are not cancelled: `cancelAllTasks` misses none.
* `WaitToFinishWaits` - when `waitToFinish` returns true, the task that was
  running when it was called no longer is.
* `EveryTaskIsAnswered` - whatever is launched, from wherever, cancelled or
  awaited, every task launched ends and its listener hears of it: no task waits
  for itself or for one behind it, nor for one that needs the main thread while
  the main thread waits.

* `NothingLeftBehind` - what neither side has marked for the other is the same on
  both, and a note at least on both or on neither: no addition or deletion falls
  between two syncs, and no edit but that of a note edited on two devices (4.5).
* `KeepsPromise` - a session, with its chunks and its rollbacks, is one exchange
  as in `CollectionSync`, or none.
* `NoResurrection` - a deleted card, note or log does not come back from a device
  that edited it or had not heard of the deletion.
* `CommittedSound` - no commit of either side has a card without its note or a
  note without cards, whatever halves two devices delete or add.
* `NoChangesIsTrue` - when equal modification times end a sync, the server has
  nothing for the client.
* `NewestWins` - short of a full sync, no commit replaces a row other than a note
  by an older one, or drops any row nobody deleted; only a deck with a grave
  may come back as an older one, after a kill between the grave and
  `Collection.save` (`Decks.rem`).
* `Converges` (of `Syncer`) - every client ends with all the others have and
  nothing unsent, but for changes a killed process forgot, a note type the
  server refuses, and the text of a note edited on two devices (4.4, 4.5).
* `PageMatchesScreen` - what the learner sees, or will once it is committed, is
  the side of the card the buttons act on.
* `AnsweredOnce` - a card is handed to `AnswerAndGetCard` at most once each time
  it is shown, although other tasks under way give the controls back.
* `AnchoredAfterResize` - the page stands at the answer after the last resize of
  its images, and once `onPageFinished` has run.  That the images are resized is
  not part of it: in a window that has no size at any of the calls they are not
  (4.5).
* `HiddenCardIsRevealed` - content hidden until it is typeset comes to light.
* `NextCardIsShown` - an answer is followed by the page of a later card, or the
  end of the review.
* `KnownFilesAgree` - a clean row of a file whose last change on the server the
  client has recorded has the server's checksum: nobody would ever correct it.
* `Converges` (of `MediaSync`) - once users stop, all rows agree with the server:
  restarts and resyncs come to an end.
* `SyncTypeOK` and the `TypeOK` of `MediaSync` and `ReviewerPage` - ranges; and
  that server and client agree on which session is open, and that no client
  knows a number the server has not given.

Each has a *slip* next to the definition it mutates: a plausible bug of that
code under which TLC finds the property violated.

### 4.3 Bounds

`MaxDay` bounds the day number, `IvlCeiling` the intervals, `MaxLapses` the
lapses, `MaxPos` new-queue positions, `MaxAhead` how far a learning step
reaches; `MaxLog` bounds the reviews of a card and `MaxCount` the daily counts.
`UndoSizeMax` is the code's 20, made 1 or 2.  Days 1 to 3 suffice for due,
overdue and not yet due, and for a rollover that finds cards in every queue; two
lapses reach the leech and one beyond it; an undo list of two has an entry that
is dropped and one that is undone after a later one.  Two cards are one sibling
relation; more cards of a note repeat what happens to the second.  The runs with
two cards use symmetry: every card is of the same note, so nothing tells them
apart.  The proofs do not depend on the values.

Of tasks, each is launched once.  Two tasks are one that runs and one that is
queued, launched by it or cancelled; with two syncs one is awaited by the other.
The constraint `FewLaunches` leaves out the fourth launch.  It cuts no behaviour
a liveness property needs: launching is never forced.

Two edits are a conflict when two clients make them, or an edit and a deletion
by one; the initial collection gives both something to edit and to delete.  One
failure is a lost answer, a cancel or a kill between any two messages; a second
one would meet a client that is in step again, or behind in the same way.  Three
rows to send with chunks of two reach a table that ends with a chunk and one
that is cut.  Whatever a third client does reaches the other two through the
server; `CollectionSync_proofs` has any number.  In `media`, three edits are two
concurrent additions and a deletion; two files are one that is sent and one that
is not.  In `page`, a second card is needed to answer the wrong one, a second
task to have one that gives back the controls another has blocked, a second call
of `onPageFinished` to have two chains of promises at once.  The constraint
`OneAtATime` keeps apart a signal on its way, a posted click and that second
call; none of the three ever has to happen, so no liveness is lost.  A card is
here a showing of one: two are an answered card and the next.

The modules of the scheduler have safety properties only: studying is the user's
choice and nothing is assumed to happen.  `BackgroundTasks` assumes that the
worker goes on whenever it can (weak fairness: the executor runs what it is
given, and a body is a finite computation), that the main thread goes on when
what it waits for has come (weak fairness of each of its waiting steps), and
that a posted result is finished in the end (strong fairness of `Finish`: the
looper's queue is first come, first served, but between two messages the main
thread may be waiting elsewhere).  Launching, cancelling and waiting need never
happen, nor need a time limit run out before what is awaited is done.

`Syncer` assumes that a sync that has begun goes on, and that a client with
something to exchange is synced in the end (the app syncs when it starts;
strong fairness, because another client's session or a conflict may keep it
waiting now and then), and that a full download that is offered is made (weak).
Uploads, edits and failures need never happen.  `MediaSync` assumes that each
client's session goes on and is begun again (weak); `ReviewerPage` that the
collection task ends and its result is shown, that the WebView commits what it
loaded and calls `onPageFinished` at least once, and that promises settle (weak
each).  The learner need never touch anything.  The screen may close, and the
users of `Syncer` may run out of edits with nothing left to exchange; these two
specifications stop there, hence `CHECK_DEADLOCK FALSE`.

### 4.4 What disagrees with the code

`undo_move`: *Check database* (`libanki/Collection.java:1747`) repairs "cards
with odid set when not in a dyn deck".  Move a card with *Change Deck*, rebuild a
filtered deck that gathers it, undo: `UndoChangeDeckMulti`
(`async/CollectionTask.java:648`) sets only `did`, and the card is in an
ordinary deck with `odid` set.

`sync_forced`: `_forceFullSync` says "roll back and force full sync"
(`libanki/sync/Syncer.java:319`).  When `mergeChanges` meets a note type of
another shape (lines 232 to 235), the server is told to abort and the schema is
marked changed inside the open transaction; `sync` does not return but asks the
aborted session for a chunk, and the exception rolls the mark back.  No full
sync is offered, and the next sync fails in the same way.  After a failed sanity
check the mark does survive, because `Connection` makes it again.

`media_lost`: "if both sides are marked for sending and one side has been
deleted, favour the add" (`libanki/sync/MediaSyncer.java:50`), "local add
overrides remote delete" (line 166).  A file that was added on two devices with
different contents is marked clean on the second (line 158) before the server's
content is there.  When the first deletes it in this moment, the download fails;
the next sync finds a clean row for a file the server has deleted, and deletes
the file the user added, which no server ever had.

### 4.5 Known divergences without a run

* `SchedV2Test.java:1207` says that emptying the filtered deck should restore the
  card.  `_moveToDyn` leaves a due date that is not positive in place, a preview
  answer overwrites it with a time in seconds, and `emptyDyn` restores `odue`
  only when it is positive.  A review card due on day 0 (rescheduled by 0 days
  on the day its collection was created; imported overdue cards can be lower
  still) comes back due in seconds in the review queue, and never comes up.  The
  runs open their collection on day 1.
* A review of a card in a filtered deck is counted after the card went home, in
  its home deck; `undoReview` (`libanki/sched/SchedV2.java:3170`) takes it off
  the filtered deck, and one undone after the rollover off the new day.
* `undoReview` (line 3169) restores siblings with `queue=type`.  A learning card
  timed in days that was buried as a sibling in a preview deck ends in the
  seconds queue with a day number, against the comment on line 2516.  Without
  preview decks only new and review cards are buried as siblings and
  `queue=type` is right, which `undo_siblings` shows.
* A sync should wait for the task before it (`async/Connection.java:327`).  When
  that was cancelled and has ended, and the main thread has not heard of it,
  `get` throws at once, `waitToFinish` returns false
  (`async/TaskManager.java:104`), and the sync ends in a generic error although
  nothing runs.
* "If the deck has any pending changes, flush them first and bump mod time"
  (`libanki/sync/Syncer.java:141`): rows written by a process that was killed
  before it saved stay unsent while the modification times are equal, and the
  sync ends with no changes, until something else is edited.  `Converges` excepts
  them (`Forgotten`).  It excepts as well a note type of another shape that the
  server refuses (`Refused`): the request fails, and no full sync is asked for.
* `mergeNotes` calls `newerRows(notes, "notes", 4)` (`libanki/sync/Syncer.java:897`)
  as `mergeCards` does for cards, but in a chunk of notes column 4 is the `usn`
  (line 544) and the time is column 3.  Line 880 so compares a time with a number
  far below it, and a note that waits to be sent is never replaced.  Edited on
  two devices, a note stays different on them after both have committed and
  nothing is marked any more; the sanity check counts and does not notice.  A
  third device takes what the server kept, which may be the older.
* A task launched from a menu while an answer waits shows a card and unblocks the
  controls before that answer is recorded.  The card may be the same one
  (`undo` and `performReload` launched before the answer), and then it can be
  answered again, under another showing.  The confirmations of the delete,
  reschedule and reset dialogs act on `mCurrentCard` as it is by then
  (`AbstractFlashcardViewer.java:1389`, `Reviewer.java:519` and `536`).
* `resizeImages` returns at once in a window without size (`card.js:28`), also when
  `onPageFinished` calls it (line 199); if every call meets such a window, the
  images stay as they are.
* `flipOrAnswerCard` ("if a card is displaying the question, flip it, otherwise
  answer it", `anki/AbstractFlashcardViewer.java:1641`) posts the click of the
  ease button to run 20 ms later (line 2815), and the click does not ask whether
  the answer is still on screen: it may answer the next card unseen.  Signals of
  a page carry no card and may do the same.
* `card.js:229` calls `_runHook(onShownHook)` while the chain is built, not when
  the card is shown.  A page that is reloaded while its text box has the focus
  never gives the Show Answer button back (`AbstractFlashcardViewer.java:3477`).
* `Connection` (line 475) looks for `MEDIA_SANITY_FAILED`, which `MediaSyncer`
  does not return: a failed sanity check of media is reported as success.  An
  empty download would make `_downloadFiles` ask for ever
  (`MediaSyncer.java:241`).  The removal of a missing file noted while a zip is
  packed may be marked clean without having been sent (`Media.java:900`,
  `mislaid`), and a download interrupted between a file and its row leaves a
  file nothing looks at until a scan.

## 5. What is proved

### 5.1 The scheduling columns

`SchedV2Cards_proofs` proves, for every value of the constants,

    PositiveDues => (Spec => []P)

for `TypeOK`, `FilteredLink`, `QueueIsRestorable`, `DueCardIsFetchable` and
`AnswerNeverThrows`.  `PositiveDues` says that no rescheduling reaches day 0, the
condition the first case of 4.5 shows to be needed.  The argument: `IInv` states
for each row that

* its columns are in range (`Rows`),
* filtered deck, `odid` and `odue` belong together, and the home is an ordinary
  deck (`RowLinked`),
* the due date that counts is positive, is in seconds only in a learning stage,
  and is at hand in `odue` while `due` is a place in a filtered deck (`RowDues`),
* outside preview decks the queue of a card not held back is the restored one
  (`RowQueued`).

The four invariants alone are not inductive: emptying a deck restores from
columns they do not constrain while the card is away.  Each operator of
`CardRows` has a lemma that it preserves the row invariant; `StepIInv` has one
case per action; `Invariance` is the temporal step.

Where a row is chosen from positions of the new queue, `PlacingsOK` bounds the
positions (from the finiteness of the card set) and `PlaceRowOK` and
`ShiftedRowOK` carry the invariant over a reposition and its shift.

The same module proves the two properties about what filtered decks do to a
card, both from `IInv`:

* `ImplementsSchedule`, the refinement of `CardSchedule`.  Each operator has a
  lemma about the row as the abstract view sees it (`EmptiedCard`,
  `GatheredCard`, `PreviewedCard`: nothing changes; `HeldCard`, `RestoredCard`,
  `PlannedCard`, `ArrangedCard`, `MovedCard`), and `AnswerOutcome` says which
  stages, lapses and queues an answer may leave.  One lemma per abstract action
  (`StudyStep`, `SuspendStep`, ...) puts the rows together, one per group of
  concrete actions (`AnswerView`, `FilterView`, `HoldView`, `EditView`,
  `RolloverView`) applies them, and `StepView` collects those.  `IInv` is needed
  for the due date: that `odue` has it while `due` is a place in a filtered deck
  is `RowDues`.  `ViewInv` adds the bound of the model on lapses.
* `EmptyingRestoresCard`: a row in a preview deck has an `odue` (`RowDues`), and
  between two rows with the same `odid`, `odue` and stage emptying cannot tell
  (`OwedAlike`).  Every action keeps those or takes the card out of preview
  decks; a deck built anew gives the card the `odue` it had (`OwedRebuilt`).

### 5.2 The undo list

`CollectionUndo_proofs` proves all six properties of `UndoSpec` that runs check,
for any cards, decks, bounds and size of the list.  An entry is a copy of rows
made earlier, written over a table that has gone on.  So what is proved of a row
has to hold of the row by itself: then it holds of every copy, and of any
mixture of old copies and new rows.

* `RowsFollow` and `UndosFollow` say what a step does: each new row is made in at
  most two writes (`Writes`) of the row before or of a copy in the list, and each
  entry was there or is made of rows of the table.  Each action has a lemma.
  An invariant of rows is then proved by one lemma, that a single write keeps it.
* `UndoIInv` has `Housed`, the part of `FilteredLink` no undo can break, and what
  entries are made of (`EntryOK`).  It gives `UndoTypeOK` for every value of the
  constants, and `FilteredLink` if `UndoableMoves => FilteredDecks = {}`, which
  excludes just the case that `undo_move` refutes.
* `LogInv` gives `UndoableReviewHasLog`: the reviews of a card in the list are
  not more than its log entries.  Dropping the oldest entry, clearing and undoing
  in any order keep this; no other assumption.
* `SoundInv` gives `QueueIsRestorable`, under `Plain`: no preview deck, no move
  undone behind a filtered deck, and `PositiveDues`.  `Sound` is `RowOK`
  (5.1), of every row and copy, and that a sibling is buried only as a new card
  or a review; that is what makes the `queue=type` of `undoReview` right.  With a
  preview deck it is not (4.5).
* `BuriedInv` adds that a card buried as a sibling is still one the options bury
  today.  It gives `UndoRestoresTable`, under `Plain` and without filtered decks:
  `undoReview` gives back every buried sibling, whichever review buried it, and
  showing the card again buries exactly those.  With filtered decks TLC finds it
  false: emptying one may leave a buried sibling with a day that has not come,
  which is not buried again.
* `ChainInv` gives `UndoneReviewIsNotCounted`, without filtered decks: the reviews
  of today in the list form a chain, each made on the counts the one before it
  left, and the last one left the counts of now.  A property of the last entry
  alone is not inductive, for undoing it uncovers the one before.  With filtered
  decks it is false (4.5): a review is counted in the deck the answer sends the
  card to and taken off the deck it was in.

### 5.3 Background tasks

`BackgroundTasks_proofs` proves `TypeOK`, `CancellableTasksAreListed` and
`WaitToFinishWaits` of `Spec` for any sets of tasks, assuming only that
collection tasks, syncs and null are told apart (`TasksAssumption`).  `IInv`
adds, for each task:

* one that was not launched has left no trace (`PendingOK`),
* one in the queue is there once, has not run, and has posted nothing unless it
  was cancelled (`QueuedOK`, `Distinct`),
* one that runs has posted nothing and is not done (`RunningOK`),

and, of the threads, that a running collection task is `sLatestInstance`
(`WorkerOK`), and that the task seen running when a wait began does not start
again and, while it runs, is what the main thread waits for (`SeenOK`).  None of
the three properties is inductive without them: that a task leaves the list
when its body ends is right only because it is in the queue no more, and that
the second look at `sLatestInstance` does no harm only because no other task can
have started.  There is one lemma per action (`LaunchStep` to `CancelSyncStep`),
`StepIInv` collects them.

### 5.4 The collection sync

In three modules, for any clients, objects, size of chunk and number of edits
and failures.  Assumed of the constants (`SyncerAssumption`): objects are finitely
many, no object is of two tables, and the initial collection has no card without
its note and no note without a card.

**What the promise gives** (`CollectionSync_proofs`).  `NothingLeftBehind` is not
inductive: what a client has not sent and what the server has not given it must
be ordered too, or a merge loses one of them.  `IInv` adds, for a client whose
schema is the server's and for what it is owed (`InStep`, `ObjectInStep`): an
object without marks is not newer than the server's; one the client is to
send, of which the server has no news, is not older; and, of every collection,
that its rows were known before its next update sequence number (`ColOK`), and
that on the server an object that came back is as new as its grave
(`ServerOK`).  "Newer" is by `Age`, which is the time of a row but the same for
every note, as the code compares them: so a clean note is on both sides or on
neither, and nothing is said of its text.  `ServerAfterOK` and `ClientAfterOK` carry this over the exchange,
`ExchangedInStep` says the two results are in step, `OthersStayInStep` that no
other client falls out of it.

**That `Syncer` keeps the promise** (`Syncer_proofs`).  While a session is open
neither the client's file nor the server's collection changes.  So what either
side holds in memory is told from those two and from how far the session is:
`RowInSession` says for each object whether its row is as after the deletions
(`StartedRow`), as after the exchange (`ExchangedRow`), or on its way, by the
tables and chunks still to go; the graves are those of the exchange from the
start (`Opened`).  Between sessions memory differs from the file by what
`Collection.save` will write (`Resting`), and a session's numbers are those it
began with (`Begun`).  Of the sanity check it needs that a row whose grave is
sent is gone or was written again (`WholeRows`).  One lemma per action proves
the invariant and that the step is one of `CollectionSync` or shows nothing
(`Follows`); from it come `SyncTypeOK`, `KeepsPromise` and, through the
refinement, `NothingLeftBehind`.

**The other invariants of `Syncer`** (`SyncerSafety_proofs`).

* `NoResurrection`: what has a grave has no row, what the server has buried a
  client that has the object is still to hear of, and what a client has buried
  the server has or is to hear of (`P!Gone`).  This speaks of all objects ever
  written, because ids are not given twice (`Named`, with `born`).
* `CommittedSound`: the sanity check is between every merge and its commit
  (`AllSound`); users add and delete whole notes (`WellWritten`).
* `NewestWins`: what a client is owed replaces no row of its file that counts as
  newer (`P!OwedOnward`, by `Age`).  The proof corrected the property: as first stated, it also
  excluded a deck that comes back older, with its grave, after a kill had
  forgotten that it was deleted.  The kill is a step of the code; the bounds of
  the run are too small to reach the case.
* `NoChangesIsTrue`: the modification time of a commit is later than all others;
  equal times mean equal `conf` and a client that has heard of all the server has
  (`Mods`), also while the client's half of a session is not committed.

### 5.5 The media sync

`MediaSync_proofs` proves `TypeOK` and `KnownFilesAgree` of `Spec`, assuming that
there are finitely many files (`MediaAssumption`).  `IInv` adds, per client:
outside a download session and database know the same number (`UsnOK`); in a
download only the files still to be fetched disagree with what the session
knows, and the database does not know of their change yet (`DownloadOK`); a row
to be sent has the checksum of the file, if that is there (`DirtyOK`); and a file
never changed on the server does not exist there (`ServerOK`).  `DownloadOK` is
why it does no harm to agreement that rows are marked clean before their file
arrives.  `ServerProcessed` and `SentContent` carry the argument over a partial
upload.

### 5.6 The reviewer's page

`ReviewerPage_proofs` proves `TypeOK`, `PageMatchesScreen`, `AnsweredOnce` and
`AnchoredAfterResize` for any bounds.  That the controls are blocked while a task
is under way is not true and not used: a task launched earlier gives them back.
`Handshake` says instead that from the time a card is handed to
`AnswerAndGetCard` the controls are blocked for as long as that card is on screen:
only `displayNext` gives them back, and it shows another card (or the same once
more) in the same step.  `ContentIsCurrent`, that `mCardContent` is the side on
screen, is what keeps a redraw or a crash from loading a stale side.
`AnchoredAfterResize` is inductive with the types: whatever resizes the images
sets the anchor again in the same step.

### 5.7 Only model-checked

Every invariant, action property and refinement the passing runs check is proved.
Liveness is not: `EveryTaskIsAnswered`, both `Converges`, `HiddenCardIsRevealed`
and `NextCardIsShown`.  They rest on fairness, and so on ENABLED, which is out of
the prover's reach.

The proofs are about the modules, whose bounds (`MaxDay`, `MaxOps`, ...) are
constants of any value; that a definition is what the code does is not a theorem.
Where a theorem has a condition (`PositiveDues`, `Plain`, no filtered decks, no
undoable moves), 4.4, 4.5 or 5.2 names the behaviour that makes it necessary.

## 6. Not modelled

The scheduler's queues and counts in memory, the V1 scheduler's own conventions,
moving between versions, the interval arithmetic (floating point), the tree of
decks, import and export, the collection holder.  Of background tasks, progress
messages, exceptions thrown by a body, a collection that cannot be opened, and
`CollectionLoader` are left out; what a task does to the collection is in the
other modules.  Of the daily counts, `lrnToday` and `timeToday` are left out,
and of the undo list the entries for deleted notes, which bring back whole rows
that nothing could change meanwhile, and for marked notes, which write no
scheduling column.  Of the sync, tags and deck options (they travel as decks
do), clocks that differ, logging in, and the wire format.  Of media, the size
limits of a zip and invalid file names.  Of the reviewer, sound, timers,
whiteboard, the text typed, the tasks that only write a card again
(`mUpdateCardHandler`), and the menus but for what they launch.  Screens, rendering, statistics, search
and the database engine hold no protocol of their own or are pure I/O.

Of the JavaScript beside the Java source, `card.js` is the one script of the
project's own with state, and is in `ReviewerPage`; `mathjax/conf.js` is a table
of settings, and the rest, MathJax and its speech rule engine, is vendored,
minified third-party code.  `ReviewerPage` has its promises settle or fail.
`PROJECT.json` gives the reason for each component.

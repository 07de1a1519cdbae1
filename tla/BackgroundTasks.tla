--------------------------- MODULE BackgroundTasks ---------------------------
(***************************************************************************)
(* The tasks that work on the collection off the main thread, and the main *)
(* thread that launches, cancels, awaits and hears of them.                *)
(*                                                                         *)
(* A CollectionTask or a sync (Connection) is an Android AsyncTask: all of *)
(* them run one after the other on one serial executor, the worker of this *)
(* module.  A task posts its result to the main thread's looper, where it  *)
(* is finished: only then is its status FINISHED, although its future has  *)
(* been done, or cancelled, for a while.                                   *)
(***************************************************************************)
EXTENDS Integers, Sequences

CONSTANTS
    CollectionTasks,
    Syncs,            \* tasks of Connection
    NoTask            \* null

ASSUME TasksAssumption ==
    /\ CollectionTasks \cap Syncs = {}
    /\ NoTask \notin CollectionTasks \cup Syncs

VARIABLES
    async,            \* the AsyncTask in each task
    previous,         \* mPreviousTask
    sTasks,           \* the tasks cancelAllTasks looks through
    sLatestInstance,  \* the task that started last
    sInstance,        \* the last sync
    queue,            \* of the serial executor
    worker,           \* the thread of the serial executor
    looper,           \* tasks whose result awaits the main thread
    main,             \* what the main thread is doing
    heard             \* how the listener of each task was answered

vars == <<async, previous, sTasks, sLatestInstance, sInstance, queue, worker,
          looper, main, heard>>

Tasks == CollectionTasks \cup Syncs

Finished(t) == async[t].status = "finished"
Done(t) == async[t].future # "new"   \* get() returns, or throws
In(t, s) == \E i \in DOMAIN s : s[i] = t
Idle == [task |-> NoTask, at |-> "idle"]
At(t, place) == worker = [task |-> t, at |-> place]

\* `seen` is not in the code: the task that was running when the main thread
\* began to wait.
Free == [at |-> "free", on |-> NoTask, rounds |-> 0, timed |-> FALSE, ok |-> TRUE,
         seen |-> NoTask]
MainIsFree == main.at = "free"

Init ==
    /\ async = [t \in Tasks |-> [status |-> "pending", future |-> "new", cancelled |-> FALSE]]
    /\ previous = [t \in CollectionTasks |-> NoTask]
    /\ sTasks = {}
    /\ sLatestInstance = NoTask /\ sInstance = NoTask
    /\ queue = <<>> /\ worker = Idle /\ looper = <<>>
    /\ main = Free
    /\ heard = [t \in Tasks |-> "nothing"]

-----------------------------------------------------------------------------
(* AsyncTask.                                                              *)

Execute(t) ==
    /\ async[t].status = "pending"
    /\ async' = [async EXCEPT ![t].status = "running"]
    /\ queue' = Append(queue, t)

\* cancel(true).  A task that never ran gets its (null) result posted at once;
\* one that has run is marked cancelled too, though its future no longer is.
Cancel(t) ==
    /\ async' = [async EXCEPT ![t].cancelled = TRUE,
                              ![t].future = IF @ = "new" THEN "cancelled" ELSE @]
    /\ looper' = IF Done(t) \/ worker.task = t THEN looper ELSE Append(looper, t)

-----------------------------------------------------------------------------
(* Launching.                                                              *)

\* launchCollectionTask, on any thread: the scheduler's getCard calls it from a
\* running task.
LaunchCollectionTask(t) ==
    /\ Execute(t)
    /\ previous' = [previous EXCEPT ![t] = sLatestInstance]
    /\ sTasks' = sTasks \cup {t}
    /\ UNCHANGED <<sLatestInstance, sInstance, worker, looper, main, heard>>

\* launchConnectionTask: the main thread stops until the sync before has run, or
\* was cancelled.
LaunchConnectionTask(s) ==
    /\ MainIsFree /\ async[s].status = "pending"
    /\ main' = [Free EXCEPT !.at = "join", !.on = s]
    /\ UNCHANGED <<async, previous, sTasks, sLatestInstance, sInstance, queue,
                   worker, looper, heard>>

Joined ==
    /\ main.at = "join"
    /\ sInstance # NoTask => Finished(sInstance) \/ Done(sInstance)
    /\ Execute(main.on)
    /\ sInstance' = main.on
    /\ main' = Free
    /\ UNCHANGED <<previous, sTasks, sLatestInstance, worker, looper, heard>>

-----------------------------------------------------------------------------
(* Cancelling.                                                             *)

\* safeCancel, from cancelAllTasks, which goes through a copy of sTasks, or from
\* cancelCurrentlyExecutingTask: of any task that is not finished, for one may
\* end after the copy was made.
SafeCancel(t) ==
    /\ MainIsFree
    /\ async[t].status = "running"
    /\ Cancel(t)
    /\ sTasks' = sTasks \ {t}
    /\ UNCHANGED <<previous, sLatestInstance, sInstance, queue, worker, main, heard>>

\* Connection.cancel, from the dialog that shows the progress of the sync.
CancelSync ==
    /\ MainIsFree
    /\ sInstance # NoTask
    /\ Cancel(sInstance)
    /\ UNCHANGED <<previous, sTasks, sLatestInstance, sInstance, queue, worker, main, heard>>

-----------------------------------------------------------------------------
(* The worker.                                                             *)

TakeNext ==
    /\ worker = Idle /\ queue # <<>>
    /\ worker' = IF Done(Head(queue)) THEN Idle
                                      ELSE [task |-> Head(queue), at |-> "begin"]
    /\ queue' = Tail(queue)
    /\ UNCHANGED <<async, previous, sTasks, sLatestInstance, sInstance, looper, main, heard>>

\* Slip: the task makes itself the latest one before it waits for the latest.
BeginAwaitingLatest(t) ==
    /\ At(t, "begin")
    /\ Finished(t) \/ Done(t)
    /\ sLatestInstance' = t
    /\ worker' = [worker EXCEPT !.at = "body"]
    /\ UNCHANGED <<async, previous, sTasks, sInstance, queue, looper, main, heard>>

\* Slip: setLatestInstance is not called.
BeginUnnoticed(t) ==
    /\ At(t, "begin")
    /\ worker' = [worker EXCEPT !.at = "body"]
    /\ UNCHANGED <<async, previous, sTasks, sLatestInstance, sInstance, queue, looper, main,
                   heard>>

\* actualDoInBackground: the task before is awaited; whether it failed or was
\* cancelled is ignored.
Begin(t) ==
    /\ At(t, "begin")
    /\ previous[t] # NoTask => Finished(previous[t]) \/ Done(previous[t])
    /\ sLatestInstance' = t
    /\ worker' = [worker EXCEPT !.at = "body"]
    /\ UNCHANGED <<async, previous, sTasks, sInstance, queue, looper, main, heard>>

\* doInBackgroundSync: waitToFinish(5) is false if the latest task was cancelled
\* and is not finished, or is not done for five seconds.  Then only a full
\* download goes on.  (That the collection cannot be opened is left out.)
SyncBegins(s) ==
    LET last == sLatestInstance
        ok == last # NoTask => Finished(last) \/ async[last].future = "done"
    IN  /\ At(s, "begin")
        /\ \E place \in IF ok THEN {"body"} ELSE {"body", "refused"} :
              worker' = [worker EXCEPT !.at = place]
        /\ UNCHANGED <<async, previous, sTasks, sLatestInstance, sInstance, queue,
                       looper, main, heard>>

BodyLaunches(t) ==
    /\ worker.at = "body" /\ worker.task \in CollectionTasks
    /\ LaunchCollectionTask(t)

\* Slip: the task is not taken off the list.
BodyEndsListed ==
    /\ worker.at \in {"body", "refused"}
    /\ looper' = Append(looper, worker.task)
    /\ worker' = [worker EXCEPT !.at = "posted"]
    /\ UNCHANGED <<async, previous, sTasks, sLatestInstance, sInstance, queue, main, heard>>

\* doInBackground returns; AsyncTask posts the result.
BodyEnds ==
    /\ worker.at \in {"body", "refused"}
    /\ sTasks' = sTasks \ {worker.task}
    /\ looper' = Append(looper, worker.task)
    /\ worker' = [worker EXCEPT !.at = "posted"]
    /\ UNCHANGED <<async, previous, sLatestInstance, sInstance, queue, main, heard>>

\* FutureTask.run returns to the executor.
RunReturns ==
    /\ worker.at = "posted"
    /\ async' = [async EXCEPT ![worker.task].future = IF @ = "new" THEN "done" ELSE @]
    /\ worker' = Idle
    /\ UNCHANGED <<previous, sTasks, sLatestInstance, sInstance, queue, looper, main, heard>>

-----------------------------------------------------------------------------
(* The main thread hears of a task: AsyncTask.finish.                      *)

FinishCancelled(t) ==
    /\ async[t].cancelled
    /\ heard' = [heard EXCEPT ![t] = "onCancelled"]
    /\ sTasks' = sTasks \ {t}
    /\ UNCHANGED previous

FinishPosted(t) ==
    /\ ~async[t].cancelled
    /\ heard' = [heard EXCEPT ![t] = "onPostExecute"]
    /\ previous' = [k \in DOMAIN previous |-> IF k = t THEN NoTask ELSE previous[k]]
    /\ UNCHANGED sTasks

Finish ==
    /\ MainIsFree /\ looper # <<>>
    /\ FinishCancelled(Head(looper)) \/ FinishPosted(Head(looper))
    /\ looper' = Tail(looper)
    /\ async' = [async EXCEPT ![Head(looper)].status = "finished"]
    /\ UNCHANGED <<sLatestInstance, sInstance, queue, worker, main>>

-----------------------------------------------------------------------------
(* The main thread waits.  waitToFinish reads sLatestInstance to see       *)
(* whether it has to wait, and again to wait for it.                       *)

StartWaiting(rounds, timed) ==
    /\ MainIsFree
    /\ main' = [at |-> "look", on |-> NoTask, rounds |-> rounds, timed |-> timed,
                ok |-> TRUE,
                seen |-> IF worker.at = "body" /\ worker.task \in CollectionTasks
                         THEN worker.task ELSE NoTask]
    /\ UNCHANGED <<async, previous, sTasks, sLatestInstance, sInstance, queue,
                   worker, looper, heard>>

WaitToFinish == StartWaiting(1, FALSE)

\* waitForAllToFinish: waitToFinish four times, with a time limit.
WaitForAllToFinish == StartWaiting(4, TRUE)

MainMoves(next) ==
    /\ main' = next
    /\ UNCHANGED <<async, previous, sTasks, sLatestInstance, sInstance, queue,
                   worker, looper, heard>>

\* Slip: one round too many.
RoundOverLate(ok) ==
    MainMoves([main EXCEPT !.at = IF main.rounds = 0 THEN "free" ELSE "look",
                           !.rounds = @ - 1,
                           !.on = NoTask,
                           !.ok = @ /\ ok])

RoundOver(ok) ==
    MainMoves([main EXCEPT !.at = IF main.rounds = 1 THEN "free" ELSE "look",
                           !.rounds = @ - 1,
                           !.on = NoTask,
                           !.ok = @ /\ ok])

Look ==
    /\ main.at = "look"
    /\ IF sLatestInstance # NoTask /\ ~Finished(sLatestInstance)
       THEN MainMoves([main EXCEPT !.at = "found"])
       ELSE RoundOver(TRUE)

Await ==
    /\ main.at = "found"
    /\ MainMoves([main EXCEPT !.at = "await", !.on = sLatestInstance])

\* get() returns, or throws because the task is cancelled or time is up.
Awaited ==
    /\ main.at = "await"
    /\ \/ Done(main.on) /\ RoundOver(async[main.on].future = "done")
       \/ main.timed /\ ~Done(main.on) /\ RoundOver(FALSE)

-----------------------------------------------------------------------------
WorkerRuns ==
    \/ TakeNext \/ BodyEnds \/ RunReturns
    \/ \E t \in CollectionTasks : Begin(t)
    \/ \E s \in Syncs : SyncBegins(s)

UserActs ==
    \/ \E t \in CollectionTasks : \/ MainIsFree /\ LaunchCollectionTask(t)
                                  \/ SafeCancel(t)
    \/ \E s \in Syncs : LaunchConnectionTask(s)
    \/ CancelSync
    \/ WaitToFinish \/ WaitForAllToFinish

Next ==
    \/ WorkerRuns
    \/ \E t \in CollectionTasks : BodyLaunches(t)
    \/ UserActs
    \/ Joined \/ Look \/ Await \/ Awaited
    \/ Finish

(***************************************************************************)
(* The executor runs what it is given, task bodies are finite computations *)
(* and a thread that is not blocked goes on.  Results wait in the looper's *)
(* queue with everything else the main thread is asked to do, first come,  *)
(* first served: strong fairness, for between two of them it may be busy.  *)
(* What the user asks for need never happen.                               *)
(***************************************************************************)
Fairness ==
    /\ WF_vars(WorkerRuns)
    /\ WF_vars(Joined) /\ WF_vars(Look) /\ WF_vars(Await) /\ WF_vars(Awaited)
    /\ SF_vars(Finish)

Spec == Init /\ [][Next]_vars /\ Fairness

-----------------------------------------------------------------------------
(* Properties.                                                             *)

AsyncTasks == [status: {"pending", "running", "finished"},
               future: {"new", "done", "cancelled"}, cancelled: BOOLEAN]

\* Every variable keeps its range; waiting ends when no round is left.
TypeOK ==
    /\ async \in [Tasks -> AsyncTasks]
    /\ previous \in [CollectionTasks -> CollectionTasks \cup {NoTask}]
    /\ sTasks \subseteq CollectionTasks
    /\ sLatestInstance \in CollectionTasks \cup {NoTask}
    /\ sInstance \in Syncs \cup {NoTask}
    /\ queue \in Seq(Tasks) /\ looper \in Seq(Tasks)
    /\ worker \in [task: Tasks \cup {NoTask},
                   at: {"idle", "begin", "body", "refused", "posted"}]
    /\ main \in [at: {"free", "join", "look", "found", "await"},
                 on: Tasks \cup {NoTask}, rounds: 0..4, timed: BOOLEAN,
                 ok: BOOLEAN, seen: CollectionTasks \cup {NoTask}]
    /\ heard \in [Tasks -> {"nothing", "onPostExecute", "onCancelled"}]

ToRun(t) ==
    \/ In(t, queue)
    \/ worker.task = t /\ worker.at \in {"begin", "body"}

\* "Tasks which are running or waiting to run": cancelAllTasks finds every task
\* that is, save those cancelled already, and no other.
CancellableTasksAreListed ==
    sTasks = {t \in CollectionTasks : ToRun(t) /\ ~async[t].cancelled}

\* "Block the current thread until the currently running CollectionTask instance
\* (if any) has finished": when waitToFinish comes back with true, the task that
\* was running when it was called no longer is.
WaitToFinishWaits ==
    MainIsFree /\ main.ok /\ main.seen # NoTask => ~At(main.seen, "body")

\* Whatever is cancelled, awaited or launched from where, every task launched
\* ends and its listener hears of it: a task never waits for itself, nor for a
\* task that waits for the main thread.
EveryTaskIsAnswered ==
    \A t \in Tasks : async[t].status = "running" ~> heard[t] # "nothing"

=============================================================================

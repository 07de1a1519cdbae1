------------------------ MODULE BackgroundTasks_proofs ------------------------
(***************************************************************************)
(* Safety of BackgroundTasks for any sets of tasks: which tasks the list   *)
(* for cancelling holds, and what waitToFinish waits for.                  *)
(***************************************************************************)
EXTENDS BackgroundTasks, SequenceTheorems, TLAPS

Distinct(s) == \A i, j \in DOMAIN s : s[i] = s[j] => i = j

\* A task that has not been launched has left no trace.
PendingOK(t) ==
    async[t].status = "pending" =>
        /\ async[t].future = "new" /\ ~async[t].cancelled
        /\ ~In(t, queue) /\ ~In(t, looper)
        /\ worker.task # t /\ main.seen # t /\ sInstance # t

\* A task waits in the queue until the worker takes it, and has not run; its
\* result is posted meanwhile only if it was cancelled.
QueuedOK(t) ==
    In(t, queue) =>
        /\ worker.task # t
        /\ async[t].future # "done"
        /\ ~Done(t) => async[t].status = "running" /\ ~In(t, looper)

\* A task that runs has posted nothing, and is not done.
RunningOK(t) ==
    worker.task = t /\ worker.at \in {"begin", "body", "refused"} =>
        /\ async[t].status = "running" /\ async[t].future # "done"
        /\ ~In(t, looper)

TaskOK(t) ==
    /\ PendingOK(t) /\ QueuedOK(t) /\ RunningOK(t)
    /\ async[t].future = "cancelled" => async[t].cancelled

WorkerOK ==
    /\ worker.at = "idle" <=> worker.task = NoTask
    /\ worker.at = "refused" => worker.task \in Syncs
    /\ worker.at = "body" /\ worker.task \in CollectionTasks => sLatestInstance = worker.task

MainOK ==
    /\ main.at = "join" => main.on \in Syncs
    /\ main.at \in {"look", "found", "await"} => main.rounds > 0
    /\ main.at = "found" => sLatestInstance # NoTask
    /\ main.at = "await" => main.on \in CollectionTasks

\* The task seen running when waiting began does not start again; while it
\* still runs and nothing has gone wrong, the main thread has not come back.
SeenOK ==
    main.seen # NoTask =>
        /\ ~In(main.seen, queue) /\ ~At(main.seen, "begin")
        /\ main.ok /\ At(main.seen, "body") =>
              /\ main.at \in {"look", "found", "await"}
              /\ main.at = "await" => main.on = main.seen

IInv ==
    /\ TypeOK
    /\ \A t \in Tasks : TaskOK(t)
    /\ Distinct(queue)
    /\ WorkerOK /\ MainOK /\ SeenOK
    /\ CancellableTasksAreListed

-----------------------------------------------------------------------------
(* Queues.                                                                 *)

LEMMA AppendIn ==
    ASSUME NEW S, NEW s \in Seq(S), NEW e \in S
    PROVE  /\ Append(s, e) \in Seq(S)
           /\ \A t : In(t, Append(s, e)) <=> In(t, s) \/ t = e
           /\ ~In(e, s) /\ Distinct(s) => Distinct(Append(s, e))
<1>1. /\ Append(s, e) \in Seq(S)
      /\ DOMAIN Append(s, e) = 1..(Len(s) + 1)
      /\ \A i \in 1..Len(s) : Append(s, e)[i] = s[i]
      /\ Append(s, e)[Len(s) + 1] = e
      /\ DOMAIN s = 1..Len(s) /\ Len(s) \in Nat
  BY AppendProperties, LenProperties
<1>2. ASSUME NEW t PROVE In(t, Append(s, e)) <=> In(t, s) \/ t = e
  BY <1>1 DEF In
<1>3. ~In(e, s) /\ Distinct(s) => Distinct(Append(s, e))
  BY <1>1 DEF In, Distinct
<1> QED BY <1>1, <1>2, <1>3

LEMMA TailIn ==
    ASSUME NEW S, NEW s \in Seq(S), s # <<>>
    PROVE  /\ Head(s) \in S /\ Tail(s) \in Seq(S)
           /\ In(Head(s), s)
           /\ \A t : In(t, Tail(s)) => In(t, s)
           /\ \A t : In(t, s) => t = Head(s) \/ In(t, Tail(s))
           /\ Distinct(s) => Distinct(Tail(s)) /\ ~In(Head(s), Tail(s))
<1>1. /\ Head(s) \in S /\ Tail(s) \in Seq(S)
      /\ DOMAIN s = 1..Len(s) /\ Len(s) \in Nat \ {0} /\ Head(s) = s[1]
      /\ DOMAIN Tail(s) = 1..(Len(s) - 1)
      /\ \A i \in 1..(Len(s) - 1) : Tail(s)[i] = s[i + 1]
  BY HeadTailProperties, LenProperties, EmptySeq
<1>2. In(Head(s), s)
  BY <1>1 DEF In
<1>3. ASSUME NEW t, In(t, Tail(s)) PROVE In(t, s)
  BY <1>1, <1>3 DEF In
<1>4. ASSUME NEW t, In(t, s), t # Head(s) PROVE In(t, Tail(s))
  <2>1. PICK i \in 1..Len(s) : s[i] = t
    BY <1>1, <1>4 DEF In
  <2>2. i - 1 \in 1..(Len(s) - 1) /\ Tail(s)[i - 1] = t
    BY <1>1, <1>4, <2>1
  <2> QED BY <1>1, <2>2 DEF In
<1>5. Distinct(s) => Distinct(Tail(s)) /\ ~In(Head(s), Tail(s))
  BY <1>1 DEF In, Distinct
<1> QED BY <1>1, <1>2, <1>3, <1>4, <1>5

-----------------------------------------------------------------------------
(* The invariant.                                                          *)

LEMMA InitIInv == Init => IInv
<1> SUFFICES ASSUME Init PROVE IInv
  OBVIOUS
<1>1. \A t : ~In(t, queue) /\ ~In(t, looper)
  <2>1. <<>> \in Seq(Tasks) /\ Len(<<>>) = 0
    BY EmptySeq
  <2>2. DOMAIN <<>> = 1..0
    BY <2>1, LenProperties
  <2>3. \A t : ~In(t, <<>>)
    BY <2>2 DEF In
  <2> QED BY <2>3 DEF Init
<1>2. TypeOK /\ Distinct(queue)
  BY EmptySeq DEF Init, TypeOK, AsyncTasks, Idle, Free, Tasks, Distinct
<1>3. \A t \in Tasks : TaskOK(t)
  BY <1>1, TasksAssumption
     DEF Init, TaskOK, PendingOK, QueuedOK, RunningOK, Idle, Free, Tasks
<1>4. WorkerOK /\ MainOK /\ SeenOK
  BY TasksAssumption DEF Init, WorkerOK, MainOK, SeenOK, Idle, Free, Tasks
<1>5. CancellableTasksAreListed
  BY <1>1, TasksAssumption DEF Init, CancellableTasksAreListed, ToRun, Idle, Tasks
<1> QED BY <1>2, <1>3, <1>4, <1>5 DEF IInv

\* What the invariant says of the state, as every step below uses it.
LEMMA Unfolded ==
    ASSUME IInv
    PROVE  /\ TypeOK /\ Distinct(queue) /\ WorkerOK /\ MainOK /\ SeenOK
           /\ CancellableTasksAreListed
           /\ \A t \in Tasks : /\ PendingOK(t) /\ QueuedOK(t) /\ RunningOK(t)
                               /\ async[t].future = "cancelled" => async[t].cancelled
BY DEF IInv, TaskOK

\* What AsyncTask does to itself.
LEMMA AsyncTaskUpdates ==
    ASSUME NEW r \in AsyncTasks
    PROVE  /\ [r EXCEPT !.status = "running"] \in AsyncTasks
           /\ [r EXCEPT !.status = "finished"] \in AsyncTasks
           /\ [r EXCEPT !.future = IF @ = "new" THEN "done" ELSE @] \in AsyncTasks
           /\ [r EXCEPT !.cancelled = TRUE,
                        !.future = IF @ = "new" THEN "cancelled" ELSE @] \in AsyncTasks
BY DEF AsyncTasks

\* A task is launched.
LEMMA LaunchStep ==
    ASSUME IInv, NEW t \in CollectionTasks, LaunchCollectionTask(t)
    PROVE  IInv'
<1> USE Unfolded, TasksAssumption
<1>1. /\ queue' = Append(queue, t) /\ async[t].status = "pending"
      /\ async' = [async EXCEPT ![t].status = "running"]
      /\ UNCHANGED <<sLatestInstance, sInstance, worker, looper, main, heard>>
      /\ t \in Tasks /\ queue \in Seq(Tasks)
  BY DEF LaunchCollectionTask, Execute, TypeOK, Tasks
<1>2. /\ queue' \in Seq(Tasks) /\ Distinct(queue')
      /\ \A k : In(k, queue') <=> In(k, queue) \/ k = t
  BY <1>1, AppendIn DEF PendingOK
<1>3. \A k \in Tasks : /\ async'[k].future = async[k].future
                       /\ async'[k].cancelled = async[k].cancelled
                       /\ async'[k].status = IF k = t THEN "running" ELSE async[k].status
  BY <1>1 DEF TypeOK
<1>4. TypeOK'
  <2>1. async' \in [Tasks -> AsyncTasks]
    BY <1>1 DEF TypeOK, AsyncTasks
  <2>2. previous' \in [CollectionTasks -> CollectionTasks \cup {NoTask}]
    BY DEF TypeOK, LaunchCollectionTask
  <2>3. sTasks' \subseteq CollectionTasks
    BY DEF TypeOK, LaunchCollectionTask
  <2> QED BY <1>1, <1>2, <2>1, <2>2, <2>3 DEF TypeOK
<1>5. \A k \in Tasks : TaskOK(k)'
  BY <1>1, <1>2, <1>3 DEF TaskOK, PendingOK, QueuedOK, RunningOK, Done
<1>6. (WorkerOK /\ MainOK /\ SeenOK)'
  BY <1>1, <1>2 DEF WorkerOK, MainOK, SeenOK, PendingOK, At
<1>7. CancellableTasksAreListed'
  BY <1>1, <1>2, <1>3 DEF CancellableTasksAreListed, LaunchCollectionTask, ToRun, PendingOK, Tasks
<1> QED BY <1>2, <1>4, <1>5, <1>6, <1>7 DEF IInv

LEMMA JoinedStep == ASSUME IInv, Joined PROVE IInv'
<1> USE Unfolded, TasksAssumption
<1> DEFINE s == main.on
<1>1. /\ queue' = Append(queue, s) /\ async[s].status = "pending"
      /\ async' = [async EXCEPT ![s].status = "running"]
      /\ main' = Free /\ sInstance' = s
      /\ UNCHANGED <<previous, sTasks, sLatestInstance, worker, looper, heard>>
      /\ s \in Tasks /\ s \in Syncs /\ queue \in Seq(Tasks)
  BY DEF Joined, Execute, TypeOK, MainOK, Tasks
<1> HIDE DEF s
<1>2. /\ queue' \in Seq(Tasks) /\ Distinct(queue')
      /\ \A k : In(k, queue') <=> In(k, queue) \/ k = s
  BY <1>1, AppendIn DEF PendingOK
<1>3. \A k \in Tasks : /\ async'[k].future = async[k].future
                       /\ async'[k].cancelled = async[k].cancelled
                       /\ async'[k].status = IF k = s THEN "running" ELSE async[k].status
  BY <1>1 DEF TypeOK
<1>4. TypeOK'
  BY <1>1, <1>2 DEF TypeOK, AsyncTasks, Free
<1>5. \A k \in Tasks : TaskOK(k)'
  BY <1>1, <1>2, <1>3 DEF TaskOK, PendingOK, QueuedOK, RunningOK, Done, Free, Tasks
<1>6. (WorkerOK /\ MainOK /\ SeenOK)'
  BY <1>1, <1>2 DEF WorkerOK, MainOK, SeenOK, Free
<1>7. CancellableTasksAreListed'
  BY <1>1, <1>2, <1>3 DEF CancellableTasksAreListed, ToRun, Tasks
<1> QED BY <1>2, <1>4, <1>5, <1>6, <1>7 DEF IInv

\* AsyncTask.cancel keeps what is said of each task.
LEMMA CancelStep ==
    ASSUME IInv, NEW t \in Tasks, async[t].status # "pending", Cancel(t),
           UNCHANGED <<previous, sLatestInstance, sInstance, queue, worker, main, heard>>,
           sTasks' = sTasks \ {t}
    PROVE  IInv'
<1> USE Unfolded, TasksAssumption
<1>1. \A k \in Tasks :
        /\ async'[k].status = async[k].status
        /\ async'[k].future = IF k = t /\ async[k].future = "new" THEN "cancelled"
                                                                  ELSE async[k].future
        /\ async'[k].cancelled = IF k = t THEN TRUE ELSE async[k].cancelled
  <2>1. /\ async' = [async EXCEPT ![t].cancelled = TRUE,
                                 ![t].future = IF @ = "new" THEN "cancelled" ELSE @]
        /\ DOMAIN async = Tasks /\ \A k \in Tasks : async[k] \in AsyncTasks
    BY DEF Cancel, TypeOK
  <2> QED BY ONLY <2>1, t \in Tasks DEF AsyncTasks
<1>2. /\ looper' \in Seq(Tasks)
      /\ \A k : In(k, looper') => In(k, looper) \/ (k = t /\ ~Done(t) /\ worker.task # t)
  <2>1. CASE looper' = looper
    BY <2>1 DEF TypeOK
  <2>2. CASE looper' = Append(looper, t) /\ ~Done(t) /\ worker.task # t
    BY <2>2, AppendIn DEF TypeOK
  <2> QED BY <2>1, <2>2 DEF Cancel
<1>3. TypeOK'
  <2>1. async' \in [Tasks -> AsyncTasks]
    <3>1. [async[t] EXCEPT !.cancelled = TRUE,
                           !.future = IF @ = "new" THEN "cancelled" ELSE @] \in AsyncTasks
      BY AsyncTaskUpdates DEF TypeOK
    <3> QED BY <3>1 DEF TypeOK, Cancel
  <2> QED BY <1>2, <2>1 DEF TypeOK
<1>4. ASSUME NEW k \in Tasks PROVE TaskOK(k)'
  <2>1. PendingOK(k)'
    BY <1>1, <1>2 DEF PendingOK
  <2>2. QueuedOK(k)'
    BY <1>1, <1>2 DEF QueuedOK, Done
  <2>3. RunningOK(k)'
    BY <1>1, <1>2 DEF RunningOK
  <2>4. (async[k].future = "cancelled" => async[k].cancelled)'
    BY <1>1
  <2> QED BY <2>1, <2>2, <2>3, <2>4 DEF TaskOK
<1>5. (WorkerOK /\ MainOK /\ SeenOK)'
  BY DEF WorkerOK, MainOK, SeenOK, At
<1>6. CancellableTasksAreListed'
  BY <1>1 DEF CancellableTasksAreListed, ToRun, Tasks
<1> QED BY <1>3, <1>4, <1>5, <1>6 DEF IInv

LEMMA TakeStep == ASSUME IInv, TakeNext PROVE IInv'
<1> USE Unfolded, TasksAssumption
<1> DEFINE h == Head(queue)
<1>1. /\ queue # <<>> /\ worker.task = NoTask
      /\ worker' = IF Done(h) THEN Idle ELSE [task |-> h, at |-> "begin"]
      /\ queue' = Tail(queue)
      /\ UNCHANGED <<async, previous, sTasks, sLatestInstance, sInstance, looper, main, heard>>
  BY DEF TakeNext, Idle
<1>2. /\ h \in Tasks /\ Tail(queue) \in Seq(Tasks) /\ In(h, queue) /\ ~In(h, queue')
      /\ Distinct(queue')
      /\ \A k : In(k, queue') => In(k, queue)
      /\ \A k : In(k, queue) => k = h \/ In(k, queue')
  BY <1>1, TailIn DEF TypeOK
<1> HIDE DEF h
<1>3. /\ worker'.task = IF Done(h) THEN NoTask ELSE h
      /\ worker'.at = IF Done(h) THEN "idle" ELSE "begin"
  BY <1>1 DEF Idle
<1>4. TypeOK'
  BY <1>1, <1>2 DEF TypeOK, Idle
<1>5. ASSUME NEW k \in Tasks PROVE TaskOK(k)'
  BY <1>1, <1>2, <1>3 DEF TaskOK, PendingOK, QueuedOK, RunningOK, Done, Tasks
<1>6. (WorkerOK /\ MainOK /\ SeenOK)'
  <2>1. WorkerOK'
    BY <1>2, <1>3 DEF WorkerOK, Tasks
  <2>2. MainOK'
    BY <1>1 DEF MainOK
  <2>3. SeenOK'
    BY <1>1, <1>2, <1>3 DEF SeenOK, At
  <2> QED BY <2>1, <2>2, <2>3
<1>7. CancellableTasksAreListed'
  <2>1. Done(h) => async[h].cancelled
    BY <1>2 DEF QueuedOK, Done, TypeOK, AsyncTasks
  <2>2. ASSUME NEW k \in CollectionTasks, ~async[k].cancelled PROVE ToRun(k)' <=> ToRun(k)
    BY <1>1, <1>2, <1>3, <2>1, <2>2 DEF ToRun
  <2> QED BY <1>1, <2>2 DEF CancellableTasksAreListed
<1> QED BY <1>2, <1>4, <1>5, <1>6, <1>7 DEF IInv

LEMMA BeginStep == ASSUME IInv, NEW t \in CollectionTasks, Begin(t) PROVE IInv'
<1> USE Unfolded, TasksAssumption
<1>1. /\ worker = [task |-> t, at |-> "begin"] /\ worker' = [task |-> t, at |-> "body"]
      /\ sLatestInstance' = t
      /\ UNCHANGED <<async, previous, sTasks, sInstance, queue, looper, main, heard>>
  BY DEF Begin, At
<1>2. TypeOK'
  BY <1>1 DEF TypeOK, Tasks
<1>3. ASSUME NEW k \in Tasks PROVE TaskOK(k)'
  BY <1>1 DEF TaskOK, PendingOK, QueuedOK, RunningOK, Done
<1>4. (WorkerOK /\ MainOK)'
  BY <1>1 DEF WorkerOK, MainOK
<1>5. SeenOK'
  BY <1>1 DEF SeenOK, At
<1>6. CancellableTasksAreListed'
  BY <1>1 DEF CancellableTasksAreListed, ToRun
<1> QED BY <1>1, <1>2, <1>3, <1>4, <1>5, <1>6 DEF IInv

LEMMA SyncBeginsStep == ASSUME IInv, NEW s \in Syncs, SyncBegins(s) PROVE IInv'
<1> USE Unfolded, TasksAssumption
<1>1. /\ worker = [task |-> s, at |-> "begin"]
      /\ worker'.task = s /\ worker'.at \in {"body", "refused"}
      /\ worker' \in [task: {s}, at: {"body", "refused"}]
      /\ UNCHANGED <<async, previous, sTasks, sLatestInstance, sInstance, queue, looper,
                     main, heard>>
  BY DEF SyncBegins, At
<1>2. TypeOK'
  BY <1>1 DEF TypeOK, Tasks
<1>3. ASSUME NEW k \in Tasks PROVE TaskOK(k)'
  BY <1>1 DEF TaskOK, PendingOK, QueuedOK, RunningOK, Done
<1>4. (WorkerOK /\ MainOK)'
  BY <1>1 DEF WorkerOK, MainOK
<1>5. SeenOK'
  BY <1>1 DEF SeenOK, At, TypeOK
<1>6. CancellableTasksAreListed'
  BY <1>1 DEF CancellableTasksAreListed, ToRun
<1> QED BY <1>1, <1>2, <1>3, <1>4, <1>5, <1>6 DEF IInv

LEMMA BodyEndsStep == ASSUME IInv, BodyEnds PROVE IInv'
<1> USE Unfolded, TasksAssumption
<1> DEFINE t == worker.task
<1>1. /\ worker.at \in {"body", "refused"} /\ t \in Tasks
      /\ worker'.task = t /\ worker'.at = "posted"
      /\ worker' \in [task: Tasks, at: {"posted"}]
      /\ looper' = Append(looper, t) /\ sTasks' = sTasks \ {t}
      /\ UNCHANGED <<async, previous, sLatestInstance, sInstance, queue, main, heard>>
  BY DEF BodyEnds, TypeOK, WorkerOK
<1> HIDE DEF t
<1>2. /\ looper' \in Seq(Tasks)
      /\ \A k : In(k, looper') => In(k, looper) \/ k = t
  BY <1>1, AppendIn DEF TypeOK
<1>3. worker.task = t
  BY DEF t
<1>4. TypeOK'
  BY <1>1, <1>2 DEF TypeOK
<1>5. ASSUME NEW k \in Tasks PROVE TaskOK(k)'
  <2>1. PendingOK(k)'
    BY <1>1, <1>2, <1>3 DEF PendingOK
  <2>2. QueuedOK(k)'
    BY <1>1, <1>2, <1>3 DEF QueuedOK, Done
  <2>3. RunningOK(k)'
    BY <1>1 DEF RunningOK
  <2> QED BY <1>1, <2>1, <2>2, <2>3 DEF TaskOK
<1>6. (WorkerOK /\ MainOK)'
  BY <1>1 DEF WorkerOK, MainOK, Tasks
<1>7. SeenOK'
  BY <1>1 DEF SeenOK, At
<1>8. CancellableTasksAreListed'
  BY <1>1, <1>3 DEF CancellableTasksAreListed, ToRun, QueuedOK, Tasks
<1> QED BY <1>1, <1>4, <1>5, <1>6, <1>7, <1>8 DEF IInv

LEMMA RunReturnsStep == ASSUME IInv, RunReturns PROVE IInv'
<1> USE Unfolded, TasksAssumption
<1> DEFINE t == worker.task
<1>1. /\ worker.at = "posted" /\ t \in Tasks /\ worker' = Idle
      /\ async' = [async EXCEPT ![t].future = IF @ = "new" THEN "done" ELSE @]
      /\ UNCHANGED <<previous, sTasks, sLatestInstance, sInstance, queue, looper, main, heard>>
  BY DEF RunReturns, TypeOK, WorkerOK
<1> HIDE DEF t
<1>2. worker.task = t
  BY DEF t
<1>3. \A k \in Tasks :
        /\ async'[k].status = async[k].status
        /\ async'[k].future = IF k = t /\ async[k].future = "new" THEN "done"
                                                                  ELSE async[k].future
        /\ async'[k].cancelled = async[k].cancelled
  BY <1>1 DEF TypeOK
<1>4. TypeOK'
  <2>1. [async[t] EXCEPT !.future = IF @ = "new" THEN "done" ELSE @] \in AsyncTasks
    BY <1>1, AsyncTaskUpdates DEF TypeOK
  <2>2. async' \in [Tasks -> AsyncTasks]
    BY <1>1, <2>1 DEF TypeOK
  <2> QED BY <1>1, <2>2 DEF TypeOK, Idle
<1>5. ASSUME NEW k \in Tasks PROVE TaskOK(k)'
  BY <1>1, <1>2, <1>3 DEF TaskOK, PendingOK, QueuedOK, RunningOK, Done, Idle, Tasks
<1>6. (WorkerOK /\ MainOK)'
  BY <1>1 DEF WorkerOK, MainOK, Idle, Tasks
<1>7. SeenOK'
  BY <1>1 DEF SeenOK, At, Idle
<1>8. CancellableTasksAreListed'
  BY <1>1, <1>2, <1>3 DEF CancellableTasksAreListed, ToRun, Idle, Tasks
<1> QED BY <1>1, <1>4, <1>5, <1>6, <1>7, <1>8 DEF IInv

LEMMA FinishStep == ASSUME IInv, Finish PROVE IInv'
<1> USE Unfolded, TasksAssumption
<1> DEFINE t == Head(looper)
<1>1. /\ looper # <<>> /\ looper' = Tail(looper) /\ MainIsFree
      /\ async' = [async EXCEPT ![t].status = "finished"]
      /\ FinishCancelled(t) \/ FinishPosted(t)
      /\ UNCHANGED <<sLatestInstance, sInstance, queue, worker, main>>
  BY DEF Finish
<1>2. /\ t \in Tasks /\ Tail(looper) \in Seq(Tasks) /\ In(t, looper)
      /\ \A k : In(k, looper') => In(k, looper)
  BY <1>1, TailIn DEF TypeOK
<1> HIDE DEF t
<1>3. \A k \in Tasks :
        /\ async'[k].status = IF k = t THEN "finished" ELSE async[k].status
        /\ async'[k].future = async[k].future
        /\ async'[k].cancelled = async[k].cancelled
  BY <1>1, <1>2 DEF TypeOK
<1>4. TypeOK'
  <2>1. async' \in [Tasks -> AsyncTasks]
    <3>1. [async[t] EXCEPT !.status = "finished"] \in AsyncTasks
      BY <1>2, AsyncTaskUpdates DEF TypeOK
    <3> QED BY <1>1, <1>2, <3>1 DEF TypeOK
  <2>2. /\ heard' \in [Tasks -> {"nothing", "onPostExecute", "onCancelled"}]
        /\ previous' \in [CollectionTasks -> CollectionTasks \cup {NoTask}]
        /\ sTasks' \subseteq CollectionTasks
    <3>1. CASE FinishCancelled(t)
      BY <3>1, <1>2 DEF FinishCancelled, TypeOK
    <3>2. CASE FinishPosted(t)
      BY <3>2, <1>2 DEF FinishPosted, TypeOK
    <3> QED BY <1>1, <3>1, <3>2
  <2> QED BY <1>1, <1>2, <2>1, <2>2 DEF TypeOK
<1>5. ASSUME NEW k \in Tasks PROVE TaskOK(k)'
  <2>1. PendingOK(k)'
    BY <1>1, <1>2, <1>3 DEF PendingOK
  <2>2. QueuedOK(k)'
    BY <1>1, <1>2, <1>3 DEF QueuedOK, Done
  <2>3. RunningOK(k)'
    BY <1>1, <1>2, <1>3 DEF RunningOK
  <2> QED BY <1>3, <2>1, <2>2, <2>3 DEF TaskOK
<1>6. (WorkerOK /\ MainOK /\ SeenOK)'
  BY <1>1 DEF WorkerOK, MainOK, SeenOK, At
<1>7. CancellableTasksAreListed'
  BY <1>1, <1>2, <1>3
     DEF CancellableTasksAreListed, FinishCancelled, FinishPosted, ToRun, Tasks
<1> QED BY <1>1, <1>4, <1>5, <1>6, <1>7 DEF IInv

\* A step that only moves the main thread, and keeps what it awaits.
LEMMA MainStep ==
    ASSUME IInv, main'.seen \in {NoTask, main.seen},
           main' \in [at: {"free", "join", "look", "found", "await"},
                      on: Tasks \cup {NoTask}, rounds: 0..4, timed: BOOLEAN,
                      ok: BOOLEAN, seen: CollectionTasks \cup {NoTask}],
           MainOK', SeenOK',
           UNCHANGED <<async, previous, sTasks, sLatestInstance, sInstance, queue,
                       worker, looper, heard>>
    PROVE  IInv'
<1> USE Unfolded, TasksAssumption
<1>1. TypeOK' /\ WorkerOK' /\ CancellableTasksAreListed' /\ Distinct(queue)'
  BY DEF TypeOK, WorkerOK, CancellableTasksAreListed, ToRun
<1>2. ASSUME NEW k \in Tasks PROVE TaskOK(k)'
  BY DEF TaskOK, PendingOK, QueuedOK, RunningOK, Done, Tasks
<1> QED BY <1>1, <1>2 DEF IInv

Places == {"free", "join", "look", "found", "await"}

MainType == [at: Places, on: Tasks \cup {NoTask}, rounds: 0..4, timed: BOOLEAN,
             ok: BOOLEAN, seen: CollectionTasks \cup {NoTask}]

\* One round of waitToFinish is over; it was good only if the task the main
\* thread saw running no longer runs.
LEMMA RoundOverStep ==
    ASSUME IInv, NEW ok \in BOOLEAN, main.at \in {"look", "await"}, RoundOver(ok),
           ok /\ main.ok /\ main.seen # NoTask => ~At(main.seen, "body")
    PROVE  IInv'
<1> USE Unfolded, TasksAssumption
<1>1. /\ main \in MainType /\ main.rounds \in 1..4
      /\ UNCHANGED <<async, previous, sTasks, sLatestInstance, sInstance, queue,
                     worker, looper, heard>>
      /\ main' = [main EXCEPT !.at = IF main.rounds = 1 THEN "free" ELSE "look",
                              !.rounds = @ - 1, !.on = NoTask, !.ok = @ /\ ok]
  BY DEF RoundOver, MainMoves, TypeOK, MainOK, MainType, Places
<1>2. /\ main'.at = IF main.rounds = 1 THEN "free" ELSE "look"
      /\ main'.rounds = main.rounds - 1 /\ main'.on = NoTask
      /\ main'.ok = (main.ok /\ ok) /\ main'.seen = main.seen
      /\ main' \in MainType
  <2>1. (main.ok /\ ok) \in BOOLEAN /\ main.rounds - 1 \in 0..4
    BY ONLY <1>1, ok \in BOOLEAN DEF MainType
  <2>2. ASSUME NEW b \in BOOLEAN, NEW n \in 0..4, NEW p \in Places,
               main' = [main EXCEPT !.at = p, !.rounds = n, !.on = NoTask, !.ok = b]
        PROVE  /\ main'.at = p /\ main'.rounds = n /\ main'.on = NoTask
               /\ main'.ok = b /\ main'.seen = main.seen /\ main' \in MainType
    BY ONLY <1>1, <2>2 DEF MainType
  <2>3. (IF main.rounds = 1 THEN "free" ELSE "look") \in Places
    BY DEF Places
  <2> QED BY ONLY <1>1, <2>1, <2>2, <2>3
<1>3. MainOK'
  BY <1>1, <1>2 DEF MainOK
<1>4. SeenOK'
  BY <1>1, <1>2 DEF SeenOK, At
<1> QED BY <1>1, <1>2, <1>3, <1>4, MainStep DEF MainType, Places

LEMMA LookStep == ASSUME IInv, Look PROVE IInv'
<1> USE Unfolded, TasksAssumption
<1>1. CASE sLatestInstance # NoTask /\ ~Finished(sLatestInstance)
  <2>1. /\ main' = [main EXCEPT !.at = "found"] /\ main.at = "look" /\ main \in MainType
        /\ UNCHANGED <<async, previous, sTasks, sLatestInstance, sInstance, queue,
                       worker, looper, heard>>
    BY <1>1 DEF Look, MainMoves, TypeOK, MainType, Places
  <2>2. /\ main'.at = "found" /\ main'.rounds = main.rounds /\ main'.on = main.on
        /\ main'.ok = main.ok /\ main'.seen = main.seen /\ main' \in MainType
    BY ONLY <2>1 DEF MainType, Places
  <2>3. MainOK' /\ SeenOK'
    BY <1>1, <2>1, <2>2 DEF MainOK, SeenOK, At
  <2> QED BY <2>1, <2>2, <2>3, MainStep DEF MainType, Places
<1>2. CASE ~(sLatestInstance # NoTask /\ ~Finished(sLatestInstance))
  <2>1. main.at = "look" /\ RoundOver(TRUE)
    BY <1>2 DEF Look
  <2>2. main.seen # NoTask => ~At(main.seen, "body")
    BY <1>2 DEF WorkerOK, RunningOK, At, Finished, TypeOK, Tasks
  <2> QED BY <2>1, <2>2, RoundOverStep
<1> QED BY <1>1, <1>2

LEMMA AwaitStep == ASSUME IInv, Await PROVE IInv'
<1> USE Unfolded, TasksAssumption
<1>1. /\ main' = [main EXCEPT !.at = "await", !.on = sLatestInstance]
      /\ main.at = "found" /\ main \in MainType
      /\ sLatestInstance \in CollectionTasks
      /\ UNCHANGED <<async, previous, sTasks, sLatestInstance, sInstance, queue,
                     worker, looper, heard>>
  BY DEF Await, MainMoves, TypeOK, MainOK, MainType, Places
<1>2. /\ main'.at = "await" /\ main'.rounds = main.rounds /\ main'.on = sLatestInstance
      /\ main'.ok = main.ok /\ main'.seen = main.seen /\ main' \in MainType
  BY ONLY <1>1 DEF MainType, Places, Tasks
<1>3. MainOK' /\ SeenOK'
  BY <1>1, <1>2 DEF MainOK, SeenOK, WorkerOK, At, TypeOK
<1> QED BY <1>1, <1>2, <1>3, MainStep DEF MainType, Places

LEMMA AwaitedStep == ASSUME IInv, Awaited PROVE IInv'
<1> USE Unfolded, TasksAssumption
<1> DEFINE done == async[main.on].future = "done"
<1>1. CASE Done(main.on) /\ RoundOver(done)
  <2>1. main.at = "await" /\ main.on \in Tasks
    BY DEF Awaited, MainOK, Tasks
  <2>2. done /\ main.ok /\ main.seen # NoTask => ~At(main.seen, "body")
    BY <2>1 DEF SeenOK, RunningOK, At
  <2> QED BY <1>1, <2>1, <2>2, RoundOverStep
<1>2. CASE RoundOver(FALSE)
  BY <1>2, RoundOverStep DEF Awaited
<1> QED BY <1>1, <1>2 DEF Awaited

LEMMA StartWaitingStep ==
    ASSUME IInv, NEW rounds \in 1..4, NEW timed \in BOOLEAN, StartWaiting(rounds, timed)
    PROVE  IInv'
<1> USE Unfolded, TasksAssumption
<1> DEFINE seen == IF worker.at = "body" /\ worker.task \in CollectionTasks
                   THEN worker.task ELSE NoTask
<1>1. /\ main' = [at |-> "look", on |-> NoTask, rounds |-> rounds, timed |-> timed,
                  ok |-> TRUE, seen |-> seen]
      /\ UNCHANGED <<async, previous, sTasks, sLatestInstance, sInstance, queue,
                     worker, looper, heard>>
  BY DEF StartWaiting
<1>2. main' \in MainType
  BY <1>1 DEF MainType, Places
<1>3. MainOK'
  BY <1>1 DEF MainOK
<1>4. SeenOK'
  BY <1>1 DEF SeenOK, QueuedOK, At, Tasks
<1>5. \A k \in Tasks : async[k].status = "pending" => seen # k
  BY DEF PendingOK, Tasks
<1>6. TypeOK' /\ WorkerOK' /\ CancellableTasksAreListed' /\ Distinct(queue)'
  BY <1>1, <1>2 DEF TypeOK, MainType, Places, WorkerOK, CancellableTasksAreListed, ToRun
<1>7. ASSUME NEW k \in Tasks PROVE TaskOK(k)'
  BY <1>1, <1>5 DEF TaskOK, PendingOK, QueuedOK, RunningOK, Done
<1> QED BY <1>3, <1>4, <1>6, <1>7 DEF IInv

LEMMA LaunchConnectionStep ==
    ASSUME IInv, NEW s \in Syncs, LaunchConnectionTask(s)
    PROVE  IInv'
<1> USE Unfolded, TasksAssumption
<1>1. /\ main' = [at |-> "join", on |-> s, rounds |-> 0, timed |-> FALSE, ok |-> TRUE,
                  seen |-> NoTask]
      /\ UNCHANGED <<async, previous, sTasks, sLatestInstance, sInstance, queue,
                     worker, looper, heard>>
  BY DEF LaunchConnectionTask, Free
<1>2. main' \in MainType
  BY <1>1 DEF MainType, Places, Tasks
<1>3. MainOK' /\ SeenOK'
  BY <1>1 DEF MainOK, SeenOK
<1> QED BY <1>1, <1>2, <1>3, MainStep DEF MainType, Places

LEMMA SafeCancelStep == ASSUME IInv, NEW t \in CollectionTasks, SafeCancel(t) PROVE IInv'
BY CancelStep DEF SafeCancel, Tasks

\* A sync is never on the list of the tasks to cancel.
LEMMA CancelSyncStep == ASSUME IInv, CancelSync PROVE IInv'
<1> USE Unfolded, TasksAssumption
<1>1. /\ sInstance \in Tasks /\ async[sInstance].status # "pending"
      /\ sTasks' = sTasks \ {sInstance}
  BY DEF CancelSync, PendingOK, TypeOK, Tasks
<1> QED BY <1>1, CancelStep DEF CancelSync

LEMMA StepIInv == ASSUME IInv, [Next]_vars PROVE IInv'
<1>1. CASE WorkerRuns
  BY <1>1, TakeStep, BodyEndsStep, RunReturnsStep, BeginStep, SyncBeginsStep DEF WorkerRuns
<1>2. CASE \E t \in CollectionTasks : BodyLaunches(t)
  BY <1>2, LaunchStep DEF BodyLaunches
<1>3. CASE UserActs
  <2>1. CASE \E t \in CollectionTasks : (MainIsFree /\ LaunchCollectionTask(t)) \/ SafeCancel(t)
    BY <2>1, LaunchStep, SafeCancelStep
  <2>2. CASE \E s \in Syncs : LaunchConnectionTask(s)
    BY <2>2, LaunchConnectionStep
  <2>3. CASE CancelSync
    BY <2>3, CancelSyncStep
  <2>4. CASE WaitToFinish \/ WaitForAllToFinish
    <3>1. 1 \in 1..4 /\ 4 \in 1..4
      OBVIOUS
    <3>2. StartWaiting(1, FALSE) \/ StartWaiting(4, TRUE)
      BY <2>4 DEF WaitToFinish, WaitForAllToFinish
    <3> QED BY ONLY IInv, <3>1, <3>2, StartWaitingStep, Zenon
  <2> QED BY <1>3, <2>1, <2>2, <2>3, <2>4 DEF UserActs
<1>4. CASE Joined \/ Look \/ Await \/ Awaited
  BY <1>4, JoinedStep, LookStep, AwaitStep, AwaitedStep
<1>5. CASE Finish
  BY <1>5, FinishStep
<1>6. CASE UNCHANGED vars
  BY <1>6 DEF vars, IInv, TypeOK, TaskOK, PendingOK, QueuedOK, RunningOK, Distinct, Done,
              WorkerOK, MainOK, SeenOK, At, CancellableTasksAreListed, ToRun
<1> QED BY <1>1, <1>2, <1>3, <1>4, <1>5, <1>6 DEF Next

-----------------------------------------------------------------------------
(* The invariant holds in every behaviour, fair or not.                    *)
LEMMA Invariance == Spec => []IInv
<1>1. Init => IInv
  BY InitIInv
<1>2. IInv /\ [Next]_vars => IInv'
  BY StepIInv
<1> QED BY <1>1, <1>2, PTL DEF Spec

\* Every variable keeps its range, of AsyncTask's status and future to the
\* rounds waitForAllToFinish has left.
THEOREM TypeCorrect == Spec => []TypeOK
<1>1. IInv => TypeOK
  BY DEF IInv
<1> QED BY <1>1, Invariance, PTL

\* cancelAllTasks looks through exactly the tasks that run or are to run and
\* are not cancelled, whoever launches, cancels and ends tasks meanwhile.
THEOREM CancellableTasksAreListedHolds == Spec => []CancellableTasksAreListed
<1>1. IInv => CancellableTasksAreListed
  BY DEF IInv
<1> QED BY <1>1, Invariance, PTL

\* waitToFinish reads sLatestInstance twice, and still has waited for the task
\* that ran when it was called if it comes back with true.
THEOREM WaitToFinishWaitsHolds == Spec => []WaitToFinishWaits
<1>1. IInv => WaitToFinishWaits
  BY DEF IInv, SeenOK, WaitToFinishWaits, MainIsFree
<1> QED BY <1>1, Invariance, PTL

=============================================================================

SPECIFICATION Spec
CONSTANTS
    t1 = t1
    t2 = t2
    s1 = s1
    s2 = s2
    none = none
    CollectionTasks = {t1, t2}
    Syncs = {s1, s2}
    NoTask = none
    MaxLaunches = 3
CONSTRAINT FewLaunches
INVARIANTS TypeOK CancellableTasksAreListed WaitToFinishWaits
PROPERTY EveryTaskIsAnswered

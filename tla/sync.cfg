SPECIFICATION Spec
CONSTANTS
    a = a
    b = b
    l1 = l1
    c1 = c1
    c2 = c2
    n1 = n1
    d1 = d1
    m1 = m1
    Clients = {a, b}
    Logs = {l1}
    Cards = {c1, c2}
    Notes = {n1}
    Decks = {d1}
    Models = {m1}
    NoteOf <- MCNoteOf
    Initial <- MCInitial
    ChunkSize = 2
    Tick = 2
    MaxOps = 2
    MaxFails = 1
    MaxUploads = 1
INVARIANTS SyncTypeOK NothingLeftBehind NoResurrection CommittedSound NoChangesIsTrue
PROPERTIES NewestWins KeepsPromise Converges
CHECK_DEADLOCK FALSE

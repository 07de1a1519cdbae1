SPECIFICATION Spec
CONSTANTS
    a = a
    b = b
    f1 = f1
    f2 = f2
    s1 = s1
    s2 = s2
    noSum = noSum
    Clients = {a, b}
    Files = {f1, f2}
    Sums = {s1, s2}
    NoSum = noSum
    MaxEdits = 3
    MaxFaults = 1
INVARIANTS TypeOK KnownFilesAgree
PROPERTY Converges

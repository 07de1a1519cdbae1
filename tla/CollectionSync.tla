--------------------------- MODULE CollectionSync ---------------------------
(***************************************************************************)
(* What a collection sync promises, told without sessions: a client and    *)
(* the server exchange all they have for each other in one step, the       *)
(* server commits the result, and the client commits its half later, or    *)
(* never.  Syncer implements it: chunks, the order of deletions, small     *)
(* objects and rows, cancelling, and the rollbacks do not show.            *)
(*                                                                         *)
(* A row is the second it was modified and its usn; -1 for a missing row   *)
(* is older than every second.  Two edits in one second are not told       *)
(* apart, here and in the code.                                            *)
(*                                                                         *)
(* Of two edited cards the newer wins, of two edited notes neither: both   *)
(* sides keep their own (Syncer.mergeNotes).  All that is promised of a    *)
(* note is that both sides have it.                                        *)
(***************************************************************************)
EXTENDS Integers

CONSTANTS
    Clients,
    Obj,                \* the objects: review logs, small objects (decks and
    Logs, Small,        \* models), notes, and the rest, cards
    Notes

VARIABLES
    file,        \* the collection file of each client
    server,      \* the server's collection
    owed,        \* what a client will commit once it has the server's answer
    compatible   \* clients whose schema is the server's

vars == <<file, server, owed, compatible>>

Unsent == -1
Absent == [mod |-> -1, usn |-> 0]
Nothing == [rows |-> <<>>, graves |-> {}, usn |-> -1]

Row == {Absent} \cup [mod : Nat, usn : Nat \cup {Unsent}]
Grave == [obj : Obj, usn : Nat \cup {Unsent}]
Collection == [rows : [Obj -> Row], graves : SUBSET Grave, usn : Nat]

Has(col, o) == col.rows[o] # Absent

\* How new a row counts as.  The code looks for the time of a note where the
\* usn is, so that a note that is there is never older than another.
Age(o, row) == IF o \in Notes /\ row # Absent THEN 0 ELSE row.mod

UnsentRow(col, o) == col.rows[o].usn = Unsent
UnsentGrave(col, o) == [obj |-> o, usn |-> Unsent] \in col.graves

\* What the server has for a client that last saw usn.
NewRow(o, usn) == Has(server, o) /\ server.rows[o].usn >= usn
NewGrave(o, usn) == \E g \in server.graves : g.obj = o /\ g.usn >= usn

-----------------------------------------------------------------------------
(* Who wins.  l and r are the two sides' rows after the deletions.         *)

Mine(col, o) == IF NewGrave(o, col.usn) THEN Absent ELSE col.rows[o]
Theirs(col, o) == IF UnsentGrave(col, o) THEN Absent ELSE server.rows[o]

Sent(l) == l.usn = Unsent
Offered(r, usn) == r # Absent /\ r.usn >= usn

\* The client takes the server's row: a log it lacks, a small object that is
\* newer, a row unless its own is unsent and as new (a note: unsent).
ClientTakes(col, o) ==
    LET l == Mine(col, o)
        r == Theirs(col, o)
    IN  /\ Offered(r, col.usn)
        /\ IF o \in Logs THEN l = Absent
           ELSE o \in Small \/ Sent(l) => Age(o, l) < Age(o, r)

\* The server takes the client's row: a log it lacks, a small object that is
\* newer, a row unless it has a new one of its own that is as new (a note: a
\* new one of its own).
ServerTakes(col, o) ==
    LET l == Mine(col, o)
        r == Theirs(col, o)
    IN  /\ Sent(l)
        /\ IF o \in Logs THEN r = Absent
           ELSE o \in Small \/ Offered(r, col.usn) => Age(o, r) < Age(o, l)

Marked(row) == IF Sent(row) THEN [row EXCEPT !.usn = server.usn] ELSE row

ServerAfter(col) ==
    [rows |-> [o \in Obj |-> IF ServerTakes(col, o) THEN Marked(Mine(col, o))
                             ELSE Theirs(col, o)],
     graves |-> server.graves \cup
                {[obj |-> o, usn |-> server.usn] : o \in {x \in Obj : UnsentGrave(col, x)}},
     usn |-> server.usn + 1]

\* A row travels with the server's usn; a small object keeps the one it has.
ClientAfter(col) ==
    [rows |-> [o \in Obj |->
        IF ClientTakes(col, o)
        THEN [Theirs(col, o) EXCEPT !.usn = IF o \in Small THEN @ ELSE server.usn]
        ELSE Marked(Mine(col, o))],
     graves |-> {[obj |-> g.obj, usn |-> IF g.usn = Unsent THEN server.usn ELSE g.usn] :
                    g \in col.graves} \cup
                {[obj |-> o, usn |-> col.usn] : o \in {x \in Obj : NewGrave(x, col.usn)}},
     usn |-> server.usn + 1]

-----------------------------------------------------------------------------
\* The user edits, adds and deletes; clocks do not go back.
LocalEdit(col, new) ==
    /\ new \in Collection
    /\ new.usn = col.usn
    /\ \A o \in Obj :
        \/ new.rows[o] = col.rows[o]
        \/ /\ new.rows[o].usn = Unsent
           /\ new.rows[o].mod >= col.rows[o].mod
           /\ new.rows[o].mod >= 0
           /\ o \in Logs => new.rows[o].mod = 0
        \/ new.rows[o] = Absent /\ UnsentGrave(new, o)
    /\ col.graves \subseteq new.graves
    /\ \A g \in new.graves \ col.graves : g.usn = Unsent

Edit(c) ==
    /\ owed[c] = Nothing
    /\ \E new \in {file'[c]} :
        /\ LocalEdit(file[c], new)
        /\ file' = [file EXCEPT ![c] = new]
    /\ compatible' \in {compatible, compatible \ {c}}
    /\ UNCHANGED <<server, owed>>

\* A row whose grave is sent is gone, or was written again.  A deck that
\* came back because the app was killed before it saved fails the sanity check,
\* which counts one deck more on this side.
Whole(col) ==
    \A o \in Obj : UnsentGrave(col, o) => Mine(col, o) = Absent \/ Sent(Mine(col, o))

ServerCommits(c) ==
    /\ c \in compatible
    /\ Whole(file[c])
    /\ owed[c] = Nothing
    /\ server' = ServerAfter(file[c])
    /\ owed' = [owed EXCEPT ![c] = ClientAfter(file[c])]
    /\ UNCHANGED <<file, compatible>>

ClientCommits(c) ==
    /\ owed[c] # Nothing
    /\ file' = [file EXCEPT ![c] = owed[c]]
    /\ owed' = [owed EXCEPT ![c] = Nothing]
    /\ UNCHANGED <<server, compatible>>

\* The answer is lost.
ClientDrops(c) ==
    /\ owed[c] # Nothing
    /\ owed' = [owed EXCEPT ![c] = Nothing]
    /\ UNCHANGED <<file, server, compatible>>

\* Full syncs: one side replaces the other.
Prepared(col) ==
    [rows |-> [o \in Obj |-> IF UnsentRow(col, o) THEN [col.rows[o] EXCEPT !.usn = 0]
                             ELSE col.rows[o]],
     graves |-> {},
     usn |-> col.usn + 1]

UploadAll(c) ==
    /\ owed[c] = Nothing
    /\ file' = [file EXCEPT ![c] = Prepared(file[c])]
    /\ \/ server' = Prepared(file[c]) /\ compatible' = {c}
       \/ UNCHANGED server /\ compatible' = compatible \ {c}
    /\ UNCHANGED owed

DownloadAll(c) ==
    /\ owed[c] = Nothing
    /\ file' = [file EXCEPT ![c] = server]
    /\ compatible' = compatible \cup {c}
    /\ UNCHANGED <<server, owed>>

Start ==
    [rows : [Obj -> {Absent, [mod |-> 0, usn |-> 0]}], graves : {{}}, usn : {1}]

Init ==
    /\ server \in Start
    /\ file = [c \in Clients |-> server]
    /\ owed = [c \in Clients |-> Nothing]
    /\ compatible = Clients

Next ==
    \E c \in Clients :
        \/ Edit(c) \/ ServerCommits(c) \/ ClientCommits(c) \/ ClientDrops(c)
        \/ UploadAll(c) \/ DownloadAll(c)

Spec == Init /\ [][Next]_vars

-----------------------------------------------------------------------------
\* What neither side has marked for the other has the same time on both sides,
\* and a note is on both or on neither: an edit of a card, an addition or a
\* deletion is sent, or has arrived (newerRows and the usn protocol of Syncer),
\* whatever was lost or interleaved.
Settled(col, o) ==
    /\ ~UnsentRow(col, o) /\ ~UnsentGrave(col, o)
    /\ ~NewRow(o, col.usn) /\ ~NewGrave(o, col.usn)

NothingLeftBehind ==
    \A c \in compatible, o \in Obj :
        Settled(file[c], o) => Age(o, file[c].rows[o]) = Age(o, server.rows[o])

=============================================================================

------------------------------- MODULE Syncer -------------------------------
(***************************************************************************)
(* The collection sync of AnkiDroid (libanki/sync/Syncer.java, driven by   *)
(* async/Connection.java and libanki/sync/FullSyncer.java): several        *)
(* clients that each hold a collection, edit it off line, and exchange     *)
(* their changes with one server, one session at a time.                   *)
(*                                                                         *)
(* A collection is a set of rows and a log of deletions ("graves").  A row *)
(* carries the second it was modified and an update sequence number (usn): *)
(* -1 on a client means "to be sent"; on the server it says in which       *)
(* session the row arrived, so that a client that remembers the server's   *)
(* usn after its last sync knows what it has not seen.  The server is      *)
(* modelled by the server half of the class (Collection.getServer()); that *)
(* it runs a session in one transaction, one session at a time, is the     *)
(* assumption made on it.                                                  *)
(*                                                                         *)
(* What the fields of a row contain is abstracted to who wrote it and      *)
(* when.  Tags and deck options travel as decks do and are left out.       *)
(***************************************************************************)
EXTENDS Integers, Sequences, FiniteSets

CONSTANTS
    Clients,
    Logs, Cards, Notes,   \* the rows of the three tables sent in chunks
    Decks, Models,        \* the small objects, sent whole
    NoteOf,               \* the note of each card
    Initial,              \* the objects every collection starts with
    ChunkSize,            \* rows in a chunk (250 in the code)
    Tick,                 \* steps of the clock in a second
    MaxOps, MaxFails,     \* bounds: edits by users; failed sessions and kills;
    MaxUploads            \* full uploads

Obj == Logs \cup Cards \cup Notes \cup Decks \cup Models
Small == Decks \cup Models

ASSUME SyncerAssumption ==
    /\ IsFiniteSet(Obj)
    /\ Logs \cap (Cards \cup Notes \cup Small) = {}
    /\ Cards \cap (Notes \cup Small) = {} /\ Notes \cap Small = {} /\ Decks \cap Models = {}
    /\ NoteOf \in [Cards -> Notes]
    /\ Initial \subseteq Obj
    /\ \A k \in Cards \cap Initial : NoteOf[k] \in Initial
    /\ \A n \in Notes \cap Initial : \E k \in Cards \cap Initial : NoteOf[k] = n
    /\ ChunkSize \in Nat \ {0} /\ Tick \in Nat \ {0}
    /\ {MaxOps, MaxFails, MaxUploads} \subseteq Nat

VARIABLES
    mem,      \* the collection each client has open
    disk,     \* the collection file of each client: what survives a kill
    modified, \* DB.mMod of each client: written to since the last save
    session,  \* where each client is in its sync, and what it remembers
    server,   \* the server's collection
    remote,   \* the server's open session, with its uncommitted collection
    born,     \* every object ever created: ids are never reused
    now, ops, fails, uploads

vars == <<mem, disk, modified, session, server, remote, born, now, ops, fails, uploads>>

-----------------------------------------------------------------------------
(* Rows and collections.                                                   *)

Unsent == -1
Seconds(t) == t \div Tick

\* No row.  Its mod is older than every mod: an object missing locally is
\* always older than the one received.
Absent == [mod |-> -1, by |-> "nobody", shape |-> 0, usn |-> 0]

\* A row as it was first written.  A log is never changed after that.
First == [mod |-> 0, by |-> "import", shape |-> 0, usn |-> 0]

Has(col, o) == col.rows[o] # Absent

IsUnsent(x) == x.usn = Unsent

\* What a row holds, but for its usn.
Version(r) == [mod |-> r.mod, by |-> r.by, shape |-> r.shape]

Orphans(col) ==
    \/ \E k \in Cards : Has(col, k) /\ ~Has(col, NoteOf[k])
    \/ \E n \in Notes : Has(col, n) /\ ~\E k \in Cards : NoteOf[k] = n /\ Has(col, k)

basicCheck(col) == ~Orphans(col)

\* Syncer.usnLim: what the server has to send, what a client has to send.
\* Slip: usn > ?.
ServerSendsLater(x, minUsn) == x.usn > minUsn
ServerSends(x, minUsn) == x.usn >= minUsn

NewsSince(col, minUsn) == {o \in Obj : Has(col, o) /\ ServerSends(col.rows[o], minUsn)}
UnsentRows(col) == {o \in Obj : Has(col, o) /\ IsUnsent(col.rows[o])}

HasUnsent(col) ==
    \/ UnsentRows(col) # {}
    \/ \E i \in DOMAIN col.graves : IsUnsent(col.graves[i])

Idle == [phase |-> "idle", minUsn |-> 0, maxUsn |-> 0, lNewer |-> FALSE,
         left |-> <<>>, sent |-> {}, mod |-> 0]
NoSession == [client |-> "nobody"]

In(c, phase) == session[c].phase = phase

InitialCol ==
    [rows |-> [o \in Obj |-> IF o \in Initial THEN First ELSE Absent],
     graves |-> <<>>, conf |-> 0, mod |-> 0, scm |-> 0, usn |-> 1]

Init ==
    /\ mem = [c \in Clients |-> InitialCol]
    /\ disk = mem
    /\ modified = [c \in Clients |-> FALSE]
    /\ session = [c \in Clients |-> Idle]
    /\ server = InitialCol
    /\ remote = NoSession
    /\ born = Initial
    /\ now = 0 /\ ops = 0 /\ fails = 0 /\ uploads = 0

-----------------------------------------------------------------------------
(* What users do between syncs.  Rows of tables are written to the file at *)
(* once; decks, models and the col row (conf, mod, scm) are written by     *)
(* Collection.save.                                                        *)

Stamp(c, r) == [r EXCEPT !.mod = Seconds(now'), !.by = c, !.usn = Unsent]

Write(col, c, S) ==
    [col EXCEPT !.rows = [o \in Obj |-> IF o \in S THEN Stamp(c, @[o]) ELSE @[o]]]

\* Slip: what this device has edited is not deleted for another.
RemoveUnlessEdited(col, ids, usn) ==
    [col EXCEPT !.rows = [o \in Obj |-> IF (\E i \in DOMAIN ids : ids[i] = o)
                                           /\ (usn = Unsent \/ ~IsUnsent(@[o]))
                                        THEN Absent ELSE @[o]],
                !.graves = @ \o [i \in DOMAIN ids |-> [obj |-> ids[i], usn |-> usn]]]

\* Collection._logRem and the DELETE that goes with it.
Remove(col, ids, usn) ==
    [col EXCEPT !.rows = [o \in Obj |-> IF \E i \in DOMAIN ids : ids[i] = o
                                        THEN Absent ELSE @[o]],
                !.graves = @ \o [i \in DOMAIN ids |-> [obj |-> ids[i], usn |-> usn]]]

UserAct(c) ==
    /\ In(c, "idle")
    /\ ops < MaxOps
    /\ ops' = ops + 1
    /\ now' = now + 1
    /\ modified' = [modified EXCEPT ![c] = TRUE]
    /\ UNCHANGED <<session, server, remote, fails, uploads>>

WriteOnDisk(c, S) ==
    /\ mem' = [mem EXCEPT ![c] = Write(@, c, S)]
    /\ disk' = [disk EXCEPT ![c] = Write(@, c, S)]

\* A card or a note is changed (Card.flush, Note.flush).
EditRow(c, o) ==
    /\ UserAct(c)
    /\ o \in Cards \cup Notes
    /\ Has(mem[c], o)
    /\ WriteOnDisk(c, {o})
    /\ UNCHANGED born

Reviewed(col, c, k, l) == [Write(col, c, {k}) EXCEPT !.rows[l] = [First EXCEPT !.usn = Unsent]]

\* A review writes its log and its card.
Review(c, k, l) ==
    /\ UserAct(c)
    /\ Has(mem[c], k)
    /\ l \notin born
    /\ born' = born \cup {l}
    /\ mem' = [mem EXCEPT ![c] = Reviewed(@, c, k, l)]
    /\ disk' = [disk EXCEPT ![c] = Reviewed(@, c, k, l)]

\* Collection.addNote, or a card added to a note that has others.
AddCard(c, k) ==
    /\ UserAct(c)
    /\ k \notin born
    /\ NoteOf[k] \in born => Has(mem[c], NoteOf[k])
    /\ born' = born \cup {k, NoteOf[k]}
    /\ WriteOnDisk(c, {k, NoteOf[k]})

\* Collection.remCards: the note goes with its last card.
RemCard(c, k) ==
    /\ UserAct(c)
    /\ Has(mem[c], k)
    /\ LET n == NoteOf[k]
           last == \A j \in Cards \ {k} : NoteOf[j] = n => ~Has(mem[c], j)
           ids == IF last THEN <<k, n>> ELSE <<k>>
       IN  /\ mem' = [mem EXCEPT ![c] = Remove(@, ids, Unsent)]
           /\ disk' = [disk EXCEPT ![c] = Remove(@, ids, Unsent)]
    /\ UNCHANGED born

EditSmall(c, o) ==
    /\ UserAct(c)
    /\ o \in Small
    /\ Has(mem[c], o)
    /\ mem' = [mem EXCEPT ![c] = Write(@, c, {o})]
    /\ UNCHANGED <<disk, born>>

\* An import gives a model other fields or templates, and no full sync is
\* asked for (the case mergeModels is prepared for).
ImportModel(c, m) ==
    /\ UserAct(c)
    /\ Has(mem[c], m)
    /\ mem[c].rows[m].shape = 0
    /\ mem' = [mem EXCEPT ![c] = [Write(@, c, {m}) EXCEPT !.rows[m].shape = 1]]
    /\ UNCHANGED <<disk, born>>

\* Decks.rem of an empty deck: the deck leaves the map, its grave is on disk.
RemDeck(c, d) ==
    /\ UserAct(c)
    /\ Has(mem[c], d)
    /\ mem' = [mem EXCEPT ![c] = Remove(@, <<d>>, Unsent)]
    /\ disk' = [disk EXCEPT ![c].graves = Append(@, [obj |-> d, usn |-> Unsent])]
    /\ UNCHANGED born

EditConf(c) ==
    /\ UserAct(c)
    /\ mem' = [mem EXCEPT ![c].conf = now']
    /\ UNCHANGED <<disk, born>>

\* Collection.modSchema: the next sync must be a full one.
ModSchema(c) ==
    /\ UserAct(c)
    /\ mem' = [mem EXCEPT ![c].scm = now']
    /\ UNCHANGED <<disk, born>>

User(c) ==
    \/ \E o \in Cards \cup Notes : EditRow(c, o)
    \/ \E k \in Cards, l \in Logs : Review(c, k, l)
    \/ \E k \in Cards : AddCard(c, k) \/ RemCard(c, k)
    \/ \E o \in Small : EditSmall(c, o)
    \/ \E m \in Models : ImportModel(c, m)
    \/ \E d \in Decks : RemDeck(c, d)
    \/ EditConf(c)
    \/ ModSchema(c)

-----------------------------------------------------------------------------
(* A collection seen by one side of a session.                             *)

\* The objects of the graves at some places of the log, in the order the
\* database lists them.
Ids(graves, places) ==
    LET nth == CHOOSE f \in [1 .. Cardinality(places) -> places] :
                   \A i \in places : \E n \in DOMAIN f : f[n] = i
    IN  [n \in DOMAIN nth |-> graves[nth[n]].obj]

\* The small objects in which the received row replaces the local one.
NewerSmall(col, received) ==
    {o \in DOMAIN received : received[o].mod > col.rows[o].mod}

\* mergeModels refuses a newer model of another shape (UnexpectedSchemaChange).
ShapeClash(col, received) ==
    \E m \in Models \cap NewerSmall(col, received) :
        Has(col, m) /\ received[m].shape # col.rows[m].shape

Take(col, received, S) ==
    [col EXCEPT !.rows = [o \in Obj |-> IF o \in S THEN received[o] ELSE @[o]]]

\* Slip: what arrives replaces what is there.
AllRows(col, received, ours) == DOMAIN received

\* Syncer.newerRows: a local row counts only if it is among ours, the rows
\* this side is to send.  mergeNotes gives the wrong column of a note for its
\* time, the usn, which is far below any time in seconds: a note of ours is
\* never taken for the older one.
NewerRows(col, received, ours) ==
    {o \in DOMAIN received :
        o \in ours => o \notin Notes /\ col.rows[o].mod < received[o].mod}

\* The log is only inserted into, never replaced (INSERT OR IGNORE).
MergeChunk(col, received, ours) ==
    Take(col, received,
         {o \in NewerRows(col, received, ours) : o \in Logs => ~Has(col, o)})

-----------------------------------------------------------------------------
(* Syncer.chunk: at most ChunkSize rows, table after table.                *)

Tables == <<"revlog", "cards", "notes">>

RowsOf(table) == CASE table = "revlog" -> Logs
                   [] table = "cards"  -> Cards
                   [] table = "notes"  -> Notes

\* The rows of a table the cursor has still to return, of those to send.
Pending(table, sent, ours) == (RowsOf(table) \cap ours) \ sent

\* How many rows the tables left up to the i-th have to send.
UpTo(left, i, sent, ours) ==
    Cardinality(UNION {Pending(left[j], sent, ours) : j \in 1 .. i})

\* The tables the chunk comes to the end of: one whose last row fills the
\* chunk stays on the list, and an empty fetch of the next chunk ends it.
Ended(left, sent, ours) == {i \in DOMAIN left : UpTo(left, i, sent, ours) < ChunkSize}

\* The rows of the chunk.  The tables are read in order; within the table
\* that is cut the order is the database's.
ChunkRows(left, sent, ours) ==
    LET ended == Ended(left, sent, ours)
        whole == UNION {Pending(left[i], sent, ours) : i \in ended}
        room == ChunkSize - Cardinality(whole)
        cut == Pending(left[Cardinality(ended) + 1], sent, ours)
    IN  IF Len(left) = Cardinality(ended) THEN {whole}
        ELSE {whole \cup part : part \in {p \in SUBSET cut : Cardinality(p) = room}}

\* The tables left after the chunk.
Remaining(left, ended) == SubSeq(left, Cardinality(ended) + 1, Len(left))

\* Slip: the usn column is read like the others.
PackedAsTheyAre(col, rows, maxUsn) == [o \in rows |-> col.rows[o]]

\* The rows travel with the sender's maxUsn in place of their usn.
Packed(col, rows, maxUsn) == [o \in rows |-> [col.rows[o] EXCEPT !.usn = maxUsn]]

-----------------------------------------------------------------------------
(* A sync (Syncer.sync).                                                   *)

Go(c, next) == session' = [session EXCEPT ![c] = next]

\* Is there anything to exchange?  With nothing to send or to see a sync only
\* moves the two modification times; two clients would do that for ever.
ServerHasNews(c) ==
    \/ NewsSince(server, mem[c].usn) # {}
    \/ \E i \in DOMAIN server.graves : ServerSends(server.graves[i], mem[c].usn)

Worthwhile(c) ==
    \/ modified[c]
    \/ HasUnsent(mem[c])
    \/ ServerHasNews(c)
    \/ mem[c].conf # server.conf

\* What is assumed of the server: between the meta data it gives a client and
\* the end of that client's session it serves no other.
ServerFree ==
    \A c \in Clients : session[c].phase \in {"idle", "clashed", "finishing"}

\* The collection is saved, then the two sides compare their meta data.
\* NO_CHANGES, FULL_SYNC and BASIC_CHECK_FAILED end the sync there, and the
\* collection is closed.
Meta(c) ==
    /\ In(c, "idle")
    /\ ServerFree
    /\ Worthwhile(c)
    /\ now' = IF modified[c] THEN now + 1 ELSE now
    /\ LET col == [mem[c] EXCEPT !.mod = IF modified[c] THEN now' ELSE @]
       IN  /\ mem' = [mem EXCEPT ![c] = col]
           /\ disk' = [disk EXCEPT ![c] = col]
           /\ modified' = [modified EXCEPT ![c] = FALSE]
           /\ IF col.mod = server.mod \/ col.scm # server.scm \/ ~basicCheck(col)
              THEN UNCHANGED session
              ELSE Go(c, [Idle EXCEPT !.phase = "met",
                                      !.minUsn = col.usn,
                                      !.maxUsn = server.usn,
                                      !.lNewer = col.mod > server.mod])
    /\ UNCHANGED <<server, remote, born, ops, fails, uploads>>

\* The graves are exchanged and applied, each side acting "as the server" so
\* that what it removes is not sent back.
Start(c) ==
    /\ In(c, "met")
    /\ LET minUsn == session[c].minUsn
           MarkSent(g) == IF IsUnsent(g) THEN [g EXCEPT !.usn = session[c].maxUsn] ELSE g
           ours == mem[c].graves
           theirs == server.graves
           lgraves == Ids(ours, {i \in DOMAIN ours : IsUnsent(ours[i])})
           rgraves == Ids(theirs, {i \in DOMAIN theirs : ServerSends(theirs[i], minUsn)})
           marked == [mem[c] EXCEPT !.graves = [i \in DOMAIN @ |-> MarkSent(@[i])]]
       IN  /\ mem' = [mem EXCEPT ![c] = Remove(marked, rgraves, marked.usn)]
           /\ remote' = [client |-> c, col |-> Remove(server, lgraves, server.usn),
                         minUsn |-> minUsn, maxUsn |-> server.usn,
                         lNewer |-> ~session[c].lNewer, left |-> Tables, sent |-> {}]
    /\ Go(c, [session[c] EXCEPT !.phase = "started"])
    /\ UNCHANGED <<disk, modified, server, born, now, ops, fails, uploads>>

\* Decks and models the client sends: those it has marked as unsent, which it
\* marks as sent in memory.
LocalChanges(c) ==
    [o \in Small \cap UnsentRows(mem[c]) |-> [mem[c].rows[o] EXCEPT !.usn = session[c].maxUsn]]

RemoteChanges ==
    [o \in Small \cap NewsSince(remote.col, remote.minUsn) |-> remote.col.rows[o]]

\* Both sides collect their changes before either merges the other's; the
\* side with the newer collection sends its conf.
Changes(c) ==
    /\ In(c, "started")
    /\ LET lchg == LocalChanges(c)
           rchg == RemoteChanges
           marked == Take(mem[c], lchg, DOMAIN lchg)
           ours == Take(marked, rchg, NewerSmall(marked, rchg))
           theirs == Take(remote.col, lchg, NewerSmall(remote.col, lchg))
       IN  /\ ~ShapeClash(remote.col, lchg)
           /\ ~ShapeClash(marked, rchg)
           /\ mem' = [mem EXCEPT ![c] =
                [ours EXCEPT !.conf = IF remote.lNewer THEN remote.col.conf ELSE @]]
           /\ remote' = [remote EXCEPT !.col =
                [theirs EXCEPT !.conf = IF session[c].lNewer THEN mem[c].conf ELSE @]]
    /\ Go(c, [session[c] EXCEPT !.phase = "downloading"])
    /\ UNCHANGED <<disk, modified, server, born, now, ops, fails, uploads>>

\* A model that clashes on the server fails the request; one that clashes on
\* the client makes it abort the server's session and mark its schema
\* changed (Syncer._forceFullSync), inside the open transaction.
SchemaClash(c) ==
    /\ In(c, "started")
    /\ ~ShapeClash(remote.col, LocalChanges(c))
    /\ ShapeClash(mem[c], RemoteChanges)
    /\ mem' = [mem EXCEPT ![c].scm = now + 1, ![c].mod = now + 1]
    /\ remote' = NoSession
    /\ Go(c, [session[c] EXCEPT !.phase = "clashed"])
    /\ UNCHANGED <<disk, modified, server, born, now, ops, fails, uploads>>

\* A chunk of the server's rows is received and merged.
Download(c) ==
    /\ In(c, "downloading")
    /\ LET news == NewsSince(remote.col, remote.minUsn)
           left == Remaining(remote.left, Ended(remote.left, remote.sent, news))
       IN  \E rows \in ChunkRows(remote.left, remote.sent, news) :
            /\ mem' = [mem EXCEPT ![c] =
                    MergeChunk(@, Packed(remote.col, rows, remote.maxUsn), UnsentRows(@))]
            /\ remote' = [remote EXCEPT !.left = left, !.sent = @ \cup rows]
            /\ Go(c, IF left = <<>>
                     THEN [session[c] EXCEPT !.phase = "uploading", !.left = Tables]
                     ELSE session[c])
    /\ UNCHANGED <<disk, modified, server, born, now, ops, fails, uploads>>

\* A chunk of the client's rows is sent and merged; when a table comes to its
\* end, all its rows are marked as sent.
Upload(c) ==
    /\ In(c, "uploading")
    /\ LET maxUsn == session[c].maxUsn
           unsent == UnsentRows(mem[c])
           ended == Ended(session[c].left, session[c].sent, unsent)
           done == unsent \cap UNION {RowsOf(session[c].left[i]) : i \in ended}
           left == Remaining(session[c].left, ended)
       IN  \E rows \in ChunkRows(session[c].left, session[c].sent, unsent) :
            /\ remote' = [remote EXCEPT !.col =
                    MergeChunk(@, Packed(mem[c], rows, maxUsn), NewsSince(@, remote.minUsn))]
            /\ mem' = [mem EXCEPT ![c].rows =
                    [o \in Obj |-> IF o \in done THEN [@[o] EXCEPT !.usn = maxUsn] ELSE @[o]]]
            /\ Go(c, IF left = <<>>
                     THEN [session[c] EXCEPT !.phase = "checking", !.left = <<>>, !.sent = {}]
                     ELSE [session[c] EXCEPT !.left = left, !.sent = @ \cup rows])
    /\ UNCHANGED <<disk, modified, server, born, now, ops, fails, uploads>>

\* Syncer.sanityCheck: the client's own state is sound, and both sides count
\* the same rows of every kind.
Count(col, S) == Cardinality({o \in S : Has(col, o)})

\* Slip: only the marks are looked at.
SoundIfSent(col) == ~HasUnsent(col)

Sound(col) == ~Orphans(col) /\ ~HasUnsent(col)

SameCounts(col, other) ==
    /\ \A S \in {Logs, Cards, Notes, Decks, Models} : Count(col, S) = Count(other, S)
    /\ Len(col.graves) = Len(other.graves)

\* The counts of due cards are compared as well: they can tell two collections
\* apart whose cards or decks differ, and need not.
SameRows(col, other) ==
    \A o \in Cards \cup Decks : Version(col.rows[o]) = Version(other.rows[o])

SanityCheck(c) ==
    /\ In(c, "checking")
    /\ Sound(mem[c])
    /\ SameCounts(mem[c], remote.col)
    /\ Go(c, [session[c] EXCEPT !.phase = "checked"])
    /\ UNCHANGED <<mem, disk, modified, server, remote, born, now, ops, fails, uploads>>

\* Slip: the mark is made in the transaction alone, as _forceFullSync makes it.
SanityErrorForgotten(c) ==
    /\ In(c, "checking")
    /\ ~( /\ Sound(mem[c])
          /\ SameCounts(mem[c], remote.col)
          /\ SameRows(mem[c], remote.col) )
    /\ mem' = [mem EXCEPT ![c] = disk[c]]
    /\ remote' = NoSession
    /\ Go(c, Idle)
    /\ UNCHANGED <<disk, modified, server, born, now, ops, fails, uploads>>

\* The transaction is rolled back, then Connection marks the schema changed
\* in what the rollback left, with the conf and crt held in memory.
SanityError(c) ==
    /\ In(c, "checking")
    /\ ~( /\ Sound(mem[c])
          /\ SameCounts(mem[c], remote.col)
          /\ SameRows(mem[c], remote.col) )
    /\ now' = now + 1
    /\ disk' = [disk EXCEPT ![c].scm = now', ![c].mod = now', ![c].conf = mem[c].conf]
    /\ mem' = [mem EXCEPT ![c] = disk'[c]]
    /\ remote' = NoSession
    /\ Go(c, Idle)
    /\ UNCHANGED <<modified, server, born, ops, fails, uploads>>

\* The server decides the modification time, steps its usn and commits.
ServerFinish(c) ==
    /\ In(c, "checked")
    /\ now' = now + 1
    /\ server' = [remote.col EXCEPT !.mod = now', !.usn = remote.maxUsn + 1]
    /\ remote' = NoSession
    /\ Go(c, [session[c] EXCEPT !.phase = "finishing", !.mod = now'])
    /\ UNCHANGED <<mem, disk, modified, born, ops, fails, uploads>>

\* Slip: the usn is taken over, not stepped.
ClientFinishUnstepped(c) ==
    /\ In(c, "finishing")
    /\ LET col == [mem[c] EXCEPT !.mod = session[c].mod, !.usn = session[c].maxUsn]
       IN  /\ mem' = [mem EXCEPT ![c] = col]
           /\ disk' = [disk EXCEPT ![c] = col]
    /\ Go(c, Idle)
    /\ UNCHANGED <<modified, server, remote, born, now, ops, fails, uploads>>

\* The client has the answer, takes over the time and the usn, and commits.
ClientFinish(c) ==
    /\ In(c, "finishing")
    /\ LET col == [mem[c] EXCEPT !.mod = session[c].mod, !.usn = session[c].maxUsn + 1]
       IN  /\ mem' = [mem EXCEPT ![c] = col]
           /\ disk' = [disk EXCEPT ![c] = col]
    /\ Go(c, Idle)
    /\ UNCHANGED <<modified, server, remote, born, now, ops, fails, uploads>>

-----------------------------------------------------------------------------
(* What goes wrong.                                                        *)

\* Slip: the server's session is left open.
DropOneSided(c) ==
    /\ mem' = [mem EXCEPT ![c] = disk[c]]
    /\ modified' = [modified EXCEPT ![c] = FALSE]
    /\ Go(c, Idle)
    /\ UNCHANGED <<disk, server, remote, born, now, ops, uploads>>

\* The collection is closed or the process dies: the open transaction is
\* rolled back and what was only in memory is gone.
Drop(c) ==
    /\ mem' = [mem EXCEPT ![c] = disk[c]]
    /\ modified' = [modified EXCEPT ![c] = FALSE]
    /\ Go(c, Idle)
    /\ remote' = IF remote.client = c THEN NoSession ELSE remote
    /\ UNCHANGED <<disk, server, born, now, ops, uploads>>

\* A request of the session fails, or its answer is lost; the user cancels;
\* the app is killed, in a sync or with changes it has not saved.
Fail(c) ==
    /\ ~In(c, "idle") \/ modified[c]
    /\ fails < MaxFails
    /\ fails' = fails + 1
    /\ Drop(c)

\* The server refuses a model of another shape: the request fails, always.
ServerClash(c) ==
    /\ In(c, "started")
    /\ ShapeClash(remote.col, LocalChanges(c))
    /\ Drop(c)
    /\ UNCHANGED fails

\* After SchemaClash the code goes on: it asks the server, whose session is
\* aborted, for a chunk, and the exception rolls the transaction back.
AskAfterAbort(c) ==
    /\ In(c, "clashed")
    /\ Drop(c)
    /\ UNCHANGED fails

-----------------------------------------------------------------------------
(* Full syncs (FullSyncer), which the user chooses when the schemas differ *)
(* and no session of this client is open.                                  *)

FullSyncOffered(c) ==
    /\ In(c, "idle")
    /\ ~modified[c]
    /\ mem[c].scm # server.scm

\* Collection.beforeUpload: all is marked sent, the log of deletions dropped.
BeforeUpload(col, time) ==
    [col EXCEPT !.rows = [o \in Obj |-> IF @[o] # Absent /\ IsUnsent(@[o])
                                        THEN [@[o] EXCEPT !.usn = 0] ELSE @[o]],
                !.graves = <<>>, !.usn = @ + 1, !.scm = time, !.mod = time]

\* The collection is prepared and closed; the request may fail after that.
FullUpload(c) ==
    /\ FullSyncOffered(c)
    /\ basicCheck(mem[c])
    /\ ServerFree
    /\ uploads < MaxUploads
    /\ uploads' = uploads + 1
    /\ now' = now + 1
    /\ disk' = [disk EXCEPT ![c] = BeforeUpload(@, now')]
    /\ mem' = [mem EXCEPT ![c] = disk'[c]]
    /\ \/ /\ server' = disk'[c]
          /\ UNCHANGED fails
       \/ /\ fails < MaxFails
          /\ fails' = fails + 1
          /\ UNCHANGED server
    /\ UNCHANGED <<modified, session, remote, born, ops>>

\* The file is replaced when it has arrived whole.
FullDownload(c) ==
    /\ FullSyncOffered(c)
    /\ disk' = [disk EXCEPT ![c] = server]
    /\ mem' = [mem EXCEPT ![c] = server]
    /\ UNCHANGED <<modified, session, server, remote, born, now, ops, fails, uploads>>

-----------------------------------------------------------------------------
Sync(c) ==
    \/ Meta(c) \/ Start(c)
    \/ Changes(c) \/ SchemaClash(c) \/ ServerClash(c) \/ AskAfterAbort(c)
    \/ Download(c) \/ Upload(c)
    \/ SanityCheck(c) \/ SanityError(c)
    \/ ServerFinish(c) \/ ClientFinish(c)

FullSync(c) == FullUpload(c) \/ FullDownload(c)

\* With no edit left to make and nothing to exchange, the system stops.
Next ==
    \E c \in Clients : User(c) \/ Sync(c) \/ FullSync(c) \/ Fail(c)

\* A sync that has begun runs on in its thread, and a client with something
\* to exchange is synced again (DeckPicker.automaticSync at the start of the
\* app); a full sync that is asked for is made in the end.
Spec ==
    /\ Init /\ [][Next]_vars
    /\ \A c \in Clients : SF_vars(Sync(c)) /\ WF_vars(FullDownload(c))

-----------------------------------------------------------------------------
Stamps == Clients \cup {"import", "nobody"}

RowType == [mod : Nat \cup {-1}, by : Stamps, shape : {0, 1}, usn : Nat \cup {Unsent}]

ColType(col) ==
    /\ col.rows \in [Obj -> RowType]
    /\ col.graves \in Seq([obj : Obj, usn : Nat \cup {Unsent}])
    /\ col.conf \in Nat /\ col.mod \in Nat /\ col.scm \in Nat /\ col.usn \in Nat

Phases == {"idle", "met", "started", "clashed", "downloading", "uploading",
           "checking", "checked", "finishing"}

\* Rows, graves and clocks keep their ranges, and a client inside a session is
\* the one the server has open, whatever was lost or cancelled.
SyncTypeOK ==
    /\ \A c \in Clients :
        /\ ColType(mem[c]) /\ ColType(disk[c])
        /\ session[c].phase \in Phases
        /\ remote # NoSession /\ remote.client = c
            <=> session[c].phase \in {"started", "downloading", "uploading",
                                      "checking", "checked"}
    /\ ColType(server)
    /\ modified \in [Clients -> BOOLEAN]
    /\ born \subseteq Obj
    /\ {now, ops, fails, uploads} \subseteq Nat

-----------------------------------------------------------------------------
(* The promise kept: every step of a sync is a step of CollectionSync or   *)
(* none, with the server's commit and the client's as the only ones that   *)
(* show.                                                                   *)

Flat(col) ==
    [rows |-> [o \in Obj |-> [mod |-> col.rows[o].mod, usn |-> col.rows[o].usn]],
     graves |-> {col.graves[i] : i \in DOMAIN col.graves},
     usn |-> col.usn]

Committed(c) == [mem[c] EXCEPT !.usn = session[c].maxUsn + 1]

Promise == INSTANCE CollectionSync WITH
    file <- [c \in Clients |-> Flat(disk[c])],
    server <- Flat(server),
    owed <- [c \in Clients |-> IF In(c, "finishing") THEN Flat(Committed(c))
                               ELSE [rows |-> <<>>, graves |-> {}, usn |-> -1]],
    compatible <- {c \in Clients : disk[c].scm = server.scm}

\* A whole session, with its chunks, its order of deletions, small objects and
\* rows, its rollbacks and lost answers, is one exchange of everything both
\* sides have for each other, which the client may fail to commit.
KeepsPromise == Promise!Spec

\* A row that neither side has marked for the other has the same second of
\* modification on both (or is missing on both): no edit, addition or deletion
\* falls between two syncs of several devices (usnLim, newerRows, removed).  A
\* note is on both or on neither, no more: two edits of it leave two notes
\* (mergeNotes).
NothingLeftBehind == Promise!NothingLeftBehind

HasGrave(col, o) == \E i \in DOMAIN col.graves : col.graves[i].obj = o

\* What is deleted stays deleted: no card, note or log comes back from a device
\* that edited it or had not heard of the deletion (Syncer.start, remove).
\* Decks are not among them: a kill between the grave and Collection.save
\* brings a deck back (Decks.rem).
NoResurrection ==
    \A o \in Obj \ Decks :
        /\ HasGrave(server, o) => ~Has(server, o)
        /\ \A c \in Clients : HasGrave(disk[c], o) => ~Has(disk[c], o)

\* Nothing committed has a card without its note or a note without cards, even
\* when two devices each delete or add the other half (sanityCheck).
CommittedSound ==
    /\ ~Orphans(server)
    /\ \A c \in Clients : ~Orphans(disk[c])

\* When the modification times are equal and the sync ends with "no changes",
\* the server indeed has nothing for this client.
NoChangesIsTrue ==
    \A c \in Clients :
        In(c, "idle") /\ ~modified[c] /\ mem[c].mod = server.mod
            => ~ServerHasNews(c) /\ mem[c].conf = server.conf

OnlyForward(old, new) ==
    old.scm = new.scm =>
        \A o \in Obj : Has(old, o) =>
            \/ Has(new, o) /\ (o \notin Notes => new.rows[o].mod >= old.rows[o].mod)
            \/ HasGrave(new, o) /\ (Has(new, o) => o \in Decks)

\* Short of a full sync, no commit of either side replaces a card, a log, a deck
\* or a model by an older one, or drops one, or a note, that nobody deleted
\* (newerRows, mergeDecks, mergeModels).  Only a deck that a kill brought back
\* may come back as an older one.  A newer note may be replaced: a device takes the
\* server's whenever its own is not waiting to be sent (mergeNotes).
NewestWins ==
    [][ /\ OnlyForward(server, server')
        /\ \A c \in Clients : OnlyForward(disk[c], disk'[c]) ]_<<server, disk>>

\* Changes written by a process that died before it saved: no new modification
\* time, so the sync sees no changes.
Forgotten(c) == ~modified[c] /\ HasUnsent(mem[c]) /\ mem[c].mod = server.mod

\* A model of another shape, which every sync refuses.
Refused(c) == \E m \in Models : mem[c].rows[m].shape # server.rows[m].shape

\* The rows of the two sides, but for what two edits of a note leave.
Alike(c) ==
    \A o \in Obj : IF o \in Notes THEN Has(mem[c], o) <=> Has(server, o)
                  ELSE mem[c].rows[o].mod = server.rows[o].mod

InSync(c) ==
    /\ mem[c].scm = server.scm /\ Alike(c)
    /\ ~HasUnsent(mem[c]) /\ ~ServerHasNews(c)

\* When users rest and requests arrive, every client ends with nothing unsent,
\* nothing unseen and the server's rows, through failed sanity checks and full
\* syncs too, but for two ways of staying behind: changes a killed process
\* forgot, and a model the server refuses.  A note that two devices edited ends
\* as each of them has it (mergeNotes).
Converges ==
    \A c \in Clients : <>[](InSync(c) \/ Forgotten(c) \/ Refused(c))

-----------------------------------------------------------------------------
(* What a comment of the code says, and the code does not do.              *)

\* "roll back and force full sync" (Syncer._forceFullSync): after it the
\* schemas differ, so that the next sync is a full one.
ForcedFullSyncRemembered ==
    [][\A c \in Clients :
        In(c, "clashed") /\ ~In(c, "clashed")' => disk'[c].scm # server'.scm]_vars

=============================================================================

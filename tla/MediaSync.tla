------------------------------ MODULE MediaSync ------------------------------
(***************************************************************************)
(* Media sync: MediaSyncer, and the media database of Media, on several    *)
(* clients of one media server.                                            *)
(*                                                                         *)
(* A client has files on its disk and, for each, a row with the checksum   *)
(* it knows and a mark that the change was not sent.  The directory is not *)
(* scanned at each sync: what is not marked is not sent.  Every statement  *)
(* of the media database is durable when it is made (DB.commit does        *)
(* nothing), so a session that ends early keeps what it has done.          *)
(*                                                                         *)
(* The server is external, and modelled from what the client relies on: it *)
(* numbers the changes it receives one by one, and lists, hands out and    *)
(* processes as many files at a time as it likes.                          *)
(***************************************************************************)
EXTENDS Integers, FiniteSets

CONSTANTS
    Clients, Files,
    Sums,           \* the contents a file may have
    NoSum,          \* no file, or a null checksum
    MaxEdits,       \* bound: changes the users make
    MaxFaults       \* bound: sessions cut short

ASSUME MediaAssumption ==
    /\ Clients # {} /\ IsFiniteSet(Files) /\ NoSum \notin Sums
    /\ MaxEdits \in Nat /\ MaxFaults \in Nat

VARIABLES
    server,     \* files: sum and usn of each; usn: the last one given
    disk,       \* disk[c][f]: what the media directory has
    rows,       \* rows[c][f]: the row of f in the media table; no row and a
                \* row with a null checksum that is clean are the same here
    meta,       \* meta[c]: lastUsn, and scanned for dirMod # 0
    session,    \* session[c]: where MediaSyncer.sync stands
    mislaid,    \* mislaid[c]: the files whose removal was noted while a zip was
                \* packed and marked clean without having been sent (history)
    unsent,     \* unsent[c]: the files the user put on c whose content has not
                \* reached the server (history)
    edits, faults   \* how often users and faults have acted

vars == <<server, disk, rows, meta, session, mislaid, unsent, edits, faults>>
localVars == <<disk, rows, meta>>
history == <<mislaid, unsent>>
counters == <<edits, faults>>

Row(csum, dirty) == [csum |-> csum, dirty |-> dirty]
NoRow == Row(NoSum, FALSE)
Fresh(at, usn) == [at |-> at, lastUsn |-> usn, need |-> {}, conflict |-> FALSE]
Idle == Fresh("idle", 0)
At(c, places) == session[c].at \in places
Goes(c, s) == session' = [session EXCEPT ![c] = s]
Ends(c) == Goes(c, Idle)

Contents == Sums \cup {NoSum}
Places == {"idle", "begin", "changes", "download", "send", "sanity"}

\* Every variable keeps its range, and no client knows a usn the server has not
\* given.
TypeOK ==
    /\ server \in [files : [Files -> [sum : Contents, usn : Nat]], usn : Nat]
    /\ \A f \in Files : server.files[f].usn <= server.usn
    /\ disk \in [Clients -> [Files -> Contents]]
    /\ rows \in [Clients -> [Files -> [csum : Contents, dirty : BOOLEAN]]]
    /\ meta \in [Clients -> [lastUsn : Nat, scanned : BOOLEAN]]
    /\ session \in [Clients -> [at : Places, lastUsn : Nat, need : SUBSET Files, conflict : BOOLEAN]]
    /\ \A c \in Clients : meta[c].lastUsn <= server.usn /\ session[c].lastUsn <= server.usn
    /\ mislaid \in [Clients -> SUBSET Files] /\ unsent \in [Clients -> SUBSET Files]
    /\ edits \in 0 .. MaxEdits /\ faults \in 0 .. MaxFaults

Init ==
    /\ server = [files |-> [f \in Files |-> [sum |-> NoSum, usn |-> 0]], usn |-> 0]
    /\ disk = [c \in Clients |-> [f \in Files |-> NoSum]]
    /\ rows = [c \in Clients |-> [f \in Files |-> NoRow]]
    /\ meta = [c \in Clients |-> [lastUsn |-> 0, scanned |-> FALSE]]
    /\ session = [c \in Clients |-> Idle]
    /\ mislaid = [c \in Clients |-> {}] /\ unsent = mislaid
    /\ edits = 0 /\ faults = 0

-----------------------------------------------------------------------------
(* What users do between two syncs.                                        *)

Edit(c) ==
    /\ At(c, {"idle"})
    /\ edits < MaxEdits /\ edits' = edits + 1
    /\ UNCHANGED <<server, meta, session, mislaid, faults>>

\* Media.addFile and markFileAdd.  A file whose name is taken by another content
\* is written under another name; one that is there already is marked again.
AddFile(c, f, s) ==
    /\ disk[c][f] \in {NoSum, s}
    /\ disk' = [disk EXCEPT ![c][f] = s]
    /\ rows' = [rows EXCEPT ![c][f] = Row(s, TRUE)]
    /\ unsent' = IF disk[c][f] = s THEN unsent ELSE [unsent EXCEPT ![c] = @ \cup {f}]
    /\ Edit(c)

Removed(rs, fs) == [f \in Files |-> IF f \in fs THEN Row(NoSum, TRUE) ELSE rs[f]]

\* Media.removeFile.
RemoveFile(c, f) ==
    /\ disk[c][f] # NoSum
    /\ disk' = [disk EXCEPT ![c][f] = NoSum]
    /\ rows' = [rows EXCEPT ![c] = Removed(@, {f})]
    /\ unsent' = [unsent EXCEPT ![c] = @ \ {f}]
    /\ Edit(c)

\* A file manager deletes the file, which no row tells.
LoseFile(c, f) ==
    /\ disk[c][f] # NoSum
    /\ disk' = [disk EXCEPT ![c][f] = NoSum]
    /\ unsent' = [unsent EXCEPT ![c] = @ \ {f}]
    /\ UNCHANGED rows
    /\ Edit(c)

\* _logChanges: a file with another checksum than its row, or without one, is
\* added, one that is gone is removed, both to be sent.
Scanned(c) ==
    [f \in Files |-> IF disk[c][f] = rows[c][f].csum THEN rows[c][f] ELSE Row(disk[c][f], TRUE)]

\* findChanges(true), asked for by the user.
CheckMedia(c) ==
    /\ At(c, {"idle"})
    /\ rows' = [rows EXCEPT ![c] = Scanned(c)]
    /\ meta' = [meta EXCEPT ![c].scanned = TRUE]
    /\ UNCHANGED <<server, disk, session, history, counters>>

-----------------------------------------------------------------------------
(* MediaSyncer.sync, by the requests it makes.                             *)

Dirty(rs) == {f \in Files : rs[f].dirty}

\* begin; the first time, the database is built by a scan.
Begin(c) ==
    /\ At(c, {"idle", "begin"})
    /\ LET rs == IF meta[c].scanned THEN rows[c] ELSE Scanned(c)
       IN  /\ rows' = [rows EXCEPT ![c] = rs]
           /\ Goes(c, IF meta[c].lastUsn = server.usn /\ Dirty(rs) = {}
                      THEN Idle ELSE Fresh("changes", meta[c].lastUsn))
    /\ meta' = [meta EXCEPT ![c].scanned = TRUE]
    /\ UNCHANGED <<server, disk, history, counters>>

NewsFor(c) == {f \in Files : server.files[f].usn > session[c].lastUsn}
UpTo(fs, usn) == {f \in fs : server.files[f].usn <= usn}

\* What the loop over the changes of the server makes of each of them.
Fetched(c, fs) == {f \in fs : server.files[f].sum \notin {NoSum, rows[c][f].csum}}
Deleted(c, fs) == {f \in fs : server.files[f].sum = NoSum /\ rows[c][f].csum # NoSum /\ ~rows[c][f].dirty}
Resolved(c, fs) == {f \in fs : server.files[f].sum # NoSum \/ rows[c][f].csum = NoSum}

RowsAfter(c, fs) ==
    [f \in Files |->
        IF f \in Deleted(c, fs) THEN NoRow
        ELSE IF f \in Resolved(c, fs) THEN Row(rows[c][f].csum, FALSE) ELSE rows[c][f]]

\* markClean and syncDelete, for the changes fs of the server.
ChangesApplied(c, fs) ==
    /\ rows' = [rows EXCEPT ![c] = RowsAfter(c, fs)]
    /\ disk' = [disk EXCEPT ![c] = [f \in Files |-> IF f \in Deleted(c, fs) THEN NoSum ELSE @[f]]]
    /\ unsent' = [unsent EXCEPT ![c] = {f \in @ : f \in fs => server.files[f].sum # rows[c][f].csum}]

\* mediaChanges, for the next changes up to some usn.
ChangesUpTo(c, usn) ==
    LET fs == UpTo(NewsFor(c), usn)
    IN  /\ ChangesApplied(c, fs)
        /\ Goes(c, [session[c] EXCEPT !.at = "download", !.lastUsn = usn, !.need = Fetched(c, fs)])
        /\ UNCHANGED <<server, mislaid, counters>>

GetChangesAndUsn(c) ==    \* a slip: setLastUsn before the files are there
    /\ At(c, {"changes"})
    /\ \E f \in NewsFor(c) : /\ ChangesUpTo(c, server.files[f].usn)
                             /\ meta' = [meta EXCEPT ![c].lastUsn = server.files[f].usn]
GetChanges(c) ==
    /\ At(c, {"changes"})
    /\ \E f \in NewsFor(c) : ChangesUpTo(c, server.files[f].usn)
    /\ UNCHANGED meta

NoMoreChanges(c) ==
    /\ At(c, {"changes"}) /\ NewsFor(c) = {}
    /\ Goes(c, [session[c] EXCEPT !.at = "send"])
    /\ UNCHANGED <<server, localVars, history, counters>>

\* downloadFiles and addFilesFromZip: some of the files, as they are now.
Download(c) ==
    /\ At(c, {"download"})
    /\ \E got \in SUBSET session[c].need \ {{}} :
          /\ \A f \in got : server.files[f].sum # NoSum
          /\ disk' = [disk EXCEPT ![c] = [f \in Files |-> IF f \in got THEN server.files[f].sum ELSE @[f]]]
          /\ rows' = [rows EXCEPT ![c] = [f \in Files |->
                         IF f \in got THEN Row(server.files[f].sum, FALSE) ELSE @[f]]]
          /\ Goes(c, [session[c] EXCEPT !.need = @ \ got])
          /\ unsent' = [unsent EXCEPT ![c] = @ \ got]
          /\ mislaid' = [mislaid EXCEPT ![c] = @ \ got]
    /\ UNCHANGED <<server, meta, counters>>

\* A file that has been deleted meanwhile cannot be had: the session ends with
\* an exception.
DownloadFails(c) ==
    /\ At(c, {"download"})
    /\ \E f \in session[c].need : server.files[f].sum = NoSum
    /\ Ends(c)
    /\ UNCHANGED <<server, localVars, history, counters>>

\* setLastUsn, when all of a batch is there.
Downloaded(c) ==
    /\ At(c, {"download"}) /\ session[c].need = {}
    /\ meta' = [meta EXCEPT ![c].lastUsn = session[c].lastUsn]
    /\ Goes(c, [session[c] EXCEPT !.at = "changes"])
    /\ UNCHANGED <<server, disk, rows, history, counters>>

\* mediaChangesZip takes some of the files to be sent, fnames.  One that is not
\* on disk is noted as removed, left out of the zip and returned in the list all
\* the same.
Missing(c, fnames) == {f \in fnames : rows[c][f].csum # NoSum /\ disk[c][f] = NoSum}

\* The server takes the first files of the zip, taken; the client marks as many
\* of the first of its list clean.  The two differ where files are missing.
Split(fnames, lost, taken, clean) ==
    /\ taken = {} => fnames = lost
    /\ Cardinality(clean) = Cardinality(taken) /\ clean \ lost \subseteq taken

\* uploadChanges, on the server: the next usn for one file after the other.
Orders(fs) == {nth \in [fs -> 1 .. Cardinality(fs)] : \A f, g \in fs : nth[f] = nth[g] => f = g}
Content(c, f) == IF rows[c][f].csum = NoSum THEN NoSum ELSE disk[c][f]
Processed(c, taken) ==
    \E nth \in Orders(taken) :
        server' = [files |-> [f \in Files |->
                       IF f \in taken THEN [sum |-> Content(c, f), usn |-> server.usn + nth[f]]
                       ELSE server.files[f]],
                   usn |-> server.usn + Cardinality(taken)]

MarkedClean(rs, fs) == [f \in Files |-> [rs[f] EXCEPT !.dirty = @ /\ f \notin fs]]

\* Whether nobody else has changed anything since the changes were had:
\* serverLastUsn - processedCnt == lastUsn.
AlwaysInSync(c) == TRUE    \* a slip
InSync(c) == server.usn = session[c].lastUsn

\* The last usn the client knows when taken of fnames have been processed.
UsnAfterAll(c, fnames, taken) ==    \* a slip: counts what was sent
    IF InSync(c) THEN session[c].lastUsn + Cardinality(fnames) ELSE session[c].lastUsn
UsnAfter(c, fnames, taken) ==
    IF InSync(c) THEN server.usn + Cardinality(taken) ELSE session[c].lastUsn

Upload(c) ==
    /\ At(c, {"send"})
    /\ \E fnames \in SUBSET Dirty(rows[c]) \ {{}} :
          LET lost == Missing(c, fnames)
          IN  \E taken \in SUBSET (fnames \ lost), clean \in SUBSET fnames :
                 LET usn == UsnAfter(c, fnames, taken)
                 IN  /\ Split(fnames, lost, taken, clean)
                     /\ Processed(c, taken)
                     /\ rows' = [rows EXCEPT ![c] = MarkedClean(Removed(@, lost), clean)]
                     /\ meta' = [meta EXCEPT ![c].lastUsn = IF InSync(c) THEN usn ELSE @]
                     /\ Goes(c, [session[c] EXCEPT !.lastUsn = usn, !.conflict = @ \/ ~InSync(c)])
                     /\ mislaid' = [mislaid EXCEPT ![c] = @ \cup (clean \cap lost)]
                     /\ unsent' = [unsent EXCEPT ![c] = @ \ taken]
    /\ UNCHANGED <<disk, counters>>

\* After a concurrent update, sync() begins again.
Restart(c) ==
    /\ At(c, {"send"}) /\ Dirty(rows[c]) = {} /\ session[c].conflict
    /\ Goes(c, Fresh("begin", 0))
    /\ UNCHANGED <<server, localVars, history, counters>>

AllSent(c) ==
    /\ At(c, {"send"}) /\ Dirty(rows[c]) = {} /\ ~session[c].conflict
    /\ Goes(c, [session[c] EXCEPT !.at = "sanity"])
    /\ UNCHANGED <<server, localVars, history, counters>>

MediaCount(c) == Cardinality({f \in Files : rows[c][f].csum # NoSum})
ServerCount == Cardinality({f \in Files : server.files[f].sum # NoSum})

\* mediaSanity, and forceResync when it fails.
Sanity(c) ==
    /\ At(c, {"sanity"})
    /\ \/ /\ MediaCount(c) = ServerCount
          /\ UNCHANGED <<rows, meta, mislaid>>
       \/ /\ MediaCount(c) # ServerCount
          /\ rows' = [rows EXCEPT ![c] = [f \in Files |-> NoRow]]
          /\ meta' = [meta EXCEPT ![c] = [lastUsn |-> 0, scanned |-> FALSE]]
          /\ mislaid' = [mislaid EXCEPT ![c] = {}]
    /\ Ends(c)
    /\ UNCHANGED <<server, disk, unsent, counters>>

-----------------------------------------------------------------------------
(* Sessions cut short: by the user, the network or the end of the process. *)

Cut(c) ==
    /\ faults < MaxFaults /\ faults' = faults + 1
    /\ Ends(c)
    /\ UNCHANGED <<meta, mislaid, edits>>

\* Anywhere between two requests.
Interrupt(c) ==
    /\ ~At(c, {"idle"})
    /\ Cut(c)
    /\ UNCHANGED <<server, disk, rows, unsent>>

\* Between two changes of the server.
InterruptChanges(c) ==
    /\ At(c, {"changes"})
    /\ \E f \in NewsFor(c) : ChangesApplied(c, UpTo(NewsFor(c), server.files[f].usn))
    /\ Cut(c)
    /\ UNCHANGED server

\* In addFilesFromZip, after files were written and before their rows are.
InterruptDownload(c) ==
    /\ At(c, {"download"})
    /\ \E f \in session[c].need :
          /\ server.files[f].sum # NoSum
          /\ disk' = [disk EXCEPT ![c][f] = server.files[f].sum]
          /\ unsent' = [unsent EXCEPT ![c] = @ \ {f}]
    /\ Cut(c)
    /\ UNCHANGED <<server, rows>>

\* After the server has taken an upload and before the client hears of it.
UploadUnanswered(c) ==
    /\ At(c, {"send"})
    /\ \E fnames \in SUBSET Dirty(rows[c]) \ {{}} :
          LET lost == Missing(c, fnames)
          IN  \E taken \in SUBSET (fnames \ lost) \ {{}} :
                 /\ Processed(c, taken)
                 /\ rows' = [rows EXCEPT ![c] = Removed(@, lost)]
                 /\ unsent' = [unsent EXCEPT ![c] = @ \ taken]
    /\ Cut(c)
    /\ UNCHANGED disk

-----------------------------------------------------------------------------
Next ==
    \/ \E c \in Clients, f \in Files, s \in Sums : AddFile(c, f, s)
    \/ \E c \in Clients, f \in Files : RemoveFile(c, f)
    \/ \E c \in Clients, f \in Files : LoseFile(c, f)
    \/ \E c \in Clients : CheckMedia(c)
    \/ \E c \in Clients : Begin(c)
    \/ \E c \in Clients : GetChanges(c)
    \/ \E c \in Clients : NoMoreChanges(c)
    \/ \E c \in Clients : Download(c)
    \/ \E c \in Clients : DownloadFails(c)
    \/ \E c \in Clients : Downloaded(c)
    \/ \E c \in Clients : Upload(c)
    \/ \E c \in Clients : Restart(c)
    \/ \E c \in Clients : AllSent(c)
    \/ \E c \in Clients : Sanity(c)
    \/ \E c \in Clients : Interrupt(c)
    \/ \E c \in Clients : InterruptChanges(c)
    \/ \E c \in Clients : InterruptDownload(c)
    \/ \E c \in Clients : UploadUnanswered(c)

\* A session goes on by itself, and every user syncs from time to time.
SessionStep(c) ==
    \/ Begin(c) \/ GetChanges(c) \/ NoMoreChanges(c)
    \/ Download(c) \/ DownloadFails(c) \/ Downloaded(c)
    \/ Upload(c) \/ Restart(c) \/ AllSent(c) \/ Sanity(c)

Fairness == \A c \in Clients : WF_vars(SessionStep(c))
Spec == Init /\ [][Next]_vars /\ Fairness

-----------------------------------------------------------------------------
(* Properties.                                                             *)

\* What a client holds to be in sync is: a row that is clean, of a file whose
\* last change on the server has a usn the client has recorded, has the
\* server's checksum, in spite of concurrent uploads, of rows marked clean
\* before their file is there and of sessions cut short.  Such a change is not
\* asked for again and such a row is not sent again.
KnownFilesAgree ==
    \A c \in Clients : \A f \in Files \ mislaid[c] :
        ~rows[c][f].dirty /\ server.files[f].usn <= meta[c].lastUsn
            => rows[c][f].csum = server.files[f].sum

\* Once users stop changing files, syncing makes all of them agree with the
\* server: the restarts after concurrent updates and the resyncs after failed
\* sanity checks come to an end.
Settled ==
    \A c \in Clients : \A f \in Files \ mislaid[c] :
        rows[c][f] = Row(server.files[f].sum, FALSE)
Converges == <>[]Settled

\* "Local add overrides remote delete": a sync deletes no file which the user
\* has put on this client and which the server has never had.
AddsAreFavoured ==
    [][ edits' = edits =>
            \A c \in Clients : \A f \in unsent[c] : disk[c][f] # NoSum => disk'[c][f] # NoSum ]_vars
=============================================================================

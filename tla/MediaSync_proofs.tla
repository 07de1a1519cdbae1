-------------------------- MODULE MediaSync_proofs --------------------------
(***************************************************************************)
(* Type correctness and KnownFilesAgree of MediaSync, for any number of    *)
(* clients, files and sessions cut short.                                  *)
(*                                                                         *)
(* The invariant of a client is a predicate of its disk d, rows r,         *)
(* database m, session s and mislaid files x, and of the server's files,   *)
(* so that what a step must show speaks of values only.                    *)
(***************************************************************************)
EXTENDS MediaSync, FiniteSetTheorems, TLAPS

RowType == [csum : Contents, dirty : BOOLEAN]
MetaType == [lastUsn : Nat, scanned : BOOLEAN]
SessionType == [at : Places, lastUsn : Nat, need : SUBSET Files, conflict : BOOLEAN]
FilesType == [Files -> [sum : Contents, usn : Nat]]

Typed(d, r, m, s, x, u) ==
    /\ d \in [Files -> Contents] /\ r \in [Files -> RowType]
    /\ m \in MetaType /\ s \in SessionType
    /\ x \in SUBSET Files /\ u \in SUBSET Files

\* What the rows hold of f is right if f is clean and was last changed by usn.
Agrees(r, files, f, usn) ==
    ~r[f].dirty /\ files[f].usn <= usn => r[f].csum = files[f].sum

\* Outside a download, the session and the database know the same usn.
UsnOK(m, s) == s.at \in {"changes", "send", "sanity"} => s.lastUsn = m.lastUsn

\* In a download, only the files to be fetched do not yet agree with what the
\* session knows; they were marked clean, and the database does not know the
\* usn of their change.
DownloadOK(r, m, s, x, files) ==
    s.at = "download" =>
        /\ m.lastUsn <= s.lastUsn
        /\ \A f \in Files : f \notin x /\ f \notin s.need => Agrees(r, files, f, s.lastUsn)
        /\ \A f \in s.need : ~r[f].dirty /\ files[f].usn > m.lastUsn

\* A row to be sent has the checksum of the file, unless the file is missing.
DirtyOK(d, r) ==
    \A f \in Files : r[f].dirty /\ r[f].csum # NoSum => d[f] \in {r[f].csum, NoSum}

Good(d, r, m, s, x, files) ==
    /\ \A f \in Files : f \notin x => Agrees(r, files, f, m.lastUsn)
    /\ UsnOK(m, s) /\ DownloadOK(r, m, s, x, files) /\ DirtyOK(d, r)

ClientOK(c) == Good(disk[c], rows[c], meta[c], session[c], mislaid[c], server.files)

\* What was never changed on the server does not exist there.
ServerOK == \A f \in Files : server.files[f].usn = 0 => server.files[f].sum = NoSum

IInv == TypeOK /\ ServerOK /\ \A c \in Clients : ClientOK(c)

USE MediaAssumption

LEMMA InitIInv == Init => IInv
  BY DEF Init, IInv, TypeOK, ServerOK, ClientOK, Good, UsnOK, DownloadOK, DirtyOK, Agrees,
         Idle, Fresh, NoRow, Row, Contents, Places

-----------------------------------------------------------------------------
(* Steps of one client.                                                    *)

\* The client's part of TypeOK.
LEMMA TypedNow ==
    ASSUME TypeOK, NEW c \in Clients
    PROVE  /\ Typed(disk[c], rows[c], meta[c], session[c], mislaid[c], unsent[c])
           /\ meta[c].lastUsn <= server.usn /\ session[c].lastUsn <= server.usn
           /\ server.usn \in Nat /\ server.files \in FilesType
           /\ \A f \in Files : server.files[f].usn <= server.usn
  BY DEF TypeOK, Typed, RowType, MetaType, SessionType, FilesType

\* The step sets the client's part of the state, and nobody else's.
Sets(c, d, r, m, s, x, u) ==
    /\ disk' = [disk EXCEPT ![c] = d] /\ rows' = [rows EXCEPT ![c] = r]
    /\ meta' = [meta EXCEPT ![c] = m] /\ session' = [session EXCEPT ![c] = s]
    /\ mislaid' = [mislaid EXCEPT ![c] = x] /\ unsent' = [unsent EXCEPT ![c] = u]

\* What changes on the server gets a usn nobody knew.
MovesOn(files) ==
    \A f \in Files : files[f] = server.files[f] \/ files[f].usn > server.usn

LEMMA Others ==
    ASSUME TypeOK, NEW k \in Clients, ClientOK(k), NEW files \in FilesType, MovesOn(files)
    PROVE  Good(disk[k], rows[k], meta[k], session[k], mislaid[k], files)
<1> DEFINE r == rows[k]
           m == meta[k]
           s == session[k]
<1>1. /\ m.lastUsn \in Nat /\ m.lastUsn <= server.usn /\ server.usn \in Nat
      /\ s.lastUsn \in Nat /\ s.lastUsn <= server.usn /\ s.need \subseteq Files
      /\ \A f \in Files : server.files[f].usn \in Nat /\ files[f].usn \in Nat
      BY DEF TypeOK, FilesType
<1>2. ASSUME NEW f \in Files, NEW usn \in Nat, usn <= server.usn, Agrees(r, server.files, f, usn)
      PROVE  Agrees(r, files, f, usn)
      BY <1>1, <1>2 DEF Agrees, MovesOn
<1>3. \A f \in Files : f \notin mislaid[k] => Agrees(r, files, f, m.lastUsn)
      BY <1>1, <1>2 DEF ClientOK, Good
<1>4. DownloadOK(r, m, s, mislaid[k], files)
  <2>1. CASE s.at = "download"
    <3>1. \A f \in Files : f \notin mislaid[k] /\ f \notin s.need => Agrees(r, files, f, s.lastUsn)
          BY <2>1, <1>1, <1>2 DEF ClientOK, Good, DownloadOK
    <3>2. \A f \in s.need : ~r[f].dirty /\ files[f].usn > m.lastUsn
          BY <2>1, <1>1 DEF ClientOK, Good, DownloadOK, MovesOn
    <3> QED BY <2>1, <3>1, <3>2 DEF ClientOK, Good, DownloadOK
  <2> QED BY <2>1 DEF DownloadOK
<1> QED BY <1>3, <1>4 DEF ClientOK, Good

LEMMA FreshType ==
    ASSUME NEW p \in Places, NEW n \in Nat
    PROVE  Fresh(p, n) \in SessionType /\ Fresh(p, n).lastUsn = n
  BY DEF Fresh, SessionType

LEMMA IdleType == Idle \in SessionType /\ Idle.lastUsn = 0
  BY FreshType DEF Idle, Places

LEMMA ScannedType ==
    ASSUME TypeOK, NEW c \in Clients
    PROVE  Scanned(c) \in [Files -> RowType]
  BY DEF Scanned, Row, TypeOK, RowType

LEMMA OneClient ==
    ASSUME IInv, NEW c \in Clients, NEW d, NEW r, NEW m, NEW s, NEW x, NEW u,
           Sets(c, d, r, m, s, x, u), Typed(d, r, m, s, x, u),
           server' \in [files : FilesType, usn : Nat], server'.usn >= server.usn,
           \A f \in Files : server'.files[f].usn <= server'.usn,
           MovesOn(server'.files),
           m.lastUsn <= server'.usn, s.lastUsn <= server'.usn,
           Good(d, r, m, s, x, server'.files),
           edits' \in 0 .. MaxEdits, faults' \in 0 .. MaxFaults
    PROVE  IInv'
<1>1. /\ disk \in [Clients -> [Files -> Contents]] /\ rows \in [Clients -> [Files -> RowType]]
      /\ meta \in [Clients -> MetaType] /\ session \in [Clients -> SessionType]
      /\ mislaid \in [Clients -> SUBSET Files] /\ unsent \in [Clients -> SUBSET Files]
      /\ server.usn \in Nat /\ server.files \in FilesType
      BY DEF IInv, TypeOK, RowType, MetaType, SessionType, FilesType
<1>2. /\ disk' \in [Clients -> [Files -> Contents]] /\ rows' \in [Clients -> [Files -> RowType]]
      /\ meta' \in [Clients -> MetaType] /\ session' \in [Clients -> SessionType]
      /\ mislaid' \in [Clients -> SUBSET Files] /\ unsent' \in [Clients -> SUBSET Files]
      BY <1>1 DEF Sets, Typed
<1>3. \A k \in Clients :
        IF k = c
        THEN /\ disk'[k] = d /\ rows'[k] = r /\ meta'[k] = m
             /\ session'[k] = s /\ mislaid'[k] = x
        ELSE /\ disk'[k] = disk[k] /\ rows'[k] = rows[k] /\ meta'[k] = meta[k]
             /\ session'[k] = session[k] /\ mislaid'[k] = mislaid[k]
      BY <1>1 DEF Sets
<1>4. \A k \in Clients : meta'[k].lastUsn <= server'.usn /\ session'[k].lastUsn <= server'.usn
  <2> TAKE k \in Clients
  <2>1. CASE k = c
        BY <2>1, <1>3
  <2>2. CASE k # c
    <3>1. meta[k].lastUsn <= server.usn /\ session[k].lastUsn <= server.usn
          BY DEF IInv, TypeOK
    <3>2. meta[k].lastUsn \in Nat /\ session[k].lastUsn \in Nat /\ server'.usn \in Nat
          BY <1>1 DEF MetaType, SessionType
    <3> QED BY <2>2, <1>1, <1>3, <3>1, <3>2
  <2> QED BY <2>1, <2>2
<1>5. TypeOK'
      BY <1>2, <1>4 DEF TypeOK, RowType, MetaType, SessionType, FilesType
<1>6. ServerOK'
  <2> SUFFICES ASSUME NEW f \in Files, server'.files[f].usn = 0
               PROVE  server'.files[f].sum = NoSum
      BY DEF ServerOK
  <2>1. ~(server'.files[f].usn > server.usn)
        BY <1>1
  <2> QED BY <2>1 DEF IInv, ServerOK, MovesOn
<1>7. ASSUME NEW k \in Clients PROVE ClientOK(k)'
  <2>1. CASE k = c
        BY <2>1, <1>3 DEF ClientOK
  <2>2. CASE k # c
    <3>1. Good(disk[k], rows[k], meta[k], session[k], mislaid[k], server'.files)
          BY Others DEF IInv
    <3> QED BY <2>2, <3>1, <1>3 DEF ClientOK
  <2> QED BY <2>1, <2>2
<1> QED BY <1>5, <1>6, <1>7 DEF IInv

\* The server is left alone.
LEMMA OnClient ==
    ASSUME IInv, NEW c \in Clients, NEW d, NEW r, NEW m, NEW s, NEW x, NEW u,
           Sets(c, d, r, m, s, x, u), Typed(d, r, m, s, x, u), UNCHANGED server,
           m.lastUsn <= server.usn, s.lastUsn <= server.usn,
           Good(d, r, m, s, x, server.files),
           edits' \in 0 .. MaxEdits, faults' \in 0 .. MaxFaults
    PROVE  IInv'
<1>1. /\ server' \in [files : FilesType, usn : Nat] /\ server'.usn >= server.usn
      /\ \A f \in Files : server'.files[f].usn <= server'.usn
      /\ MovesOn(server'.files)
      BY DEF IInv, TypeOK, FilesType, MovesOn
<1> QED BY <1>1, OneClient

-----------------------------------------------------------------------------
(* What users do.                                                          *)

LEMMA AddFileStep ==
    ASSUME IInv, NEW c \in Clients, NEW f \in Files, NEW s0 \in Sums, AddFile(c, f, s0)
    PROVE  IInv'
<1> DEFINE d == [disk[c] EXCEPT ![f] = s0]
           r == [rows[c] EXCEPT ![f] = Row(s0, TRUE)]
           m == meta[c]
           s == session[c]
           x == mislaid[c]
           u == IF disk[c][f] = s0 THEN unsent[c] ELSE unsent[c] \cup {f}
<1>1. Sets(c, d, r, m, s, x, u)
      BY DEF IInv, TypeOK, Sets, AddFile, Edit
<1>2. Typed(d, r, m, s, x, u) /\ m.lastUsn <= server.usn /\ s.lastUsn <= server.usn
      BY TypedNow DEF IInv, Typed, RowType, MetaType, SessionType, Places, Contents, Row
<1>3. Good(d, r, m, s, x, server.files)
      BY TypedNow DEF Good, UsnOK, DownloadOK, DirtyOK, Agrees, ClientOK, IInv, Typed, SessionType, MetaType, Row, AddFile, Edit, At, RowType, Contents
<1>4. UNCHANGED server /\ edits' \in 0 .. MaxEdits /\ faults' \in 0 .. MaxFaults
      BY DEF IInv, TypeOK, AddFile, Edit
<1> HIDE DEF d, r, m, s, x, u
<1> QED BY <1>1, <1>2, <1>3, <1>4, OnClient

LEMMA RemoveFileStep ==
    ASSUME IInv, NEW c \in Clients, NEW f \in Files, RemoveFile(c, f)
    PROVE  IInv'
<1> DEFINE d == [disk[c] EXCEPT ![f] = NoSum]
           r == Removed(rows[c], {f})
           m == meta[c]
           s == session[c]
           x == mislaid[c]
           u == unsent[c] \ {f}
<1>1. Sets(c, d, r, m, s, x, u)
      BY DEF IInv, TypeOK, Sets, RemoveFile, Edit
<1>2. Typed(d, r, m, s, x, u) /\ m.lastUsn <= server.usn /\ s.lastUsn <= server.usn
      BY TypedNow DEF IInv, Typed, RowType, MetaType, SessionType, Places, Contents, Row, Removed
<1>3. Good(d, r, m, s, x, server.files)
      BY TypedNow DEF Good, UsnOK, DownloadOK, DirtyOK, Agrees, ClientOK, IInv, Typed, SessionType, MetaType, Row, Removed, RemoveFile, Edit, At, RowType, Contents
<1>4. UNCHANGED server /\ edits' \in 0 .. MaxEdits /\ faults' \in 0 .. MaxFaults
      BY DEF IInv, TypeOK, RemoveFile, Edit
<1> HIDE DEF d, r, m, s, x, u
<1> QED BY <1>1, <1>2, <1>3, <1>4, OnClient

LEMMA LoseFileStep ==
    ASSUME IInv, NEW c \in Clients, NEW f \in Files, LoseFile(c, f)
    PROVE  IInv'
<1> DEFINE d == [disk[c] EXCEPT ![f] = NoSum]
           r == rows[c]
           m == meta[c]
           s == session[c]
           x == mislaid[c]
           u == unsent[c] \ {f}
<1>1. Sets(c, d, r, m, s, x, u)
      BY DEF IInv, TypeOK, Sets, LoseFile, Edit
<1>2. Typed(d, r, m, s, x, u) /\ m.lastUsn <= server.usn /\ s.lastUsn <= server.usn
      BY TypedNow DEF IInv, Typed, RowType, MetaType, SessionType, Places, Contents
<1>3. Good(d, r, m, s, x, server.files)
      BY TypedNow DEF Good, UsnOK, DownloadOK, DirtyOK, Agrees, ClientOK, IInv, Typed, SessionType, MetaType, LoseFile, Edit, At
<1>4. UNCHANGED server /\ edits' \in 0 .. MaxEdits /\ faults' \in 0 .. MaxFaults
      BY DEF IInv, TypeOK, LoseFile, Edit
<1> HIDE DEF d, r, m, s, x, u
<1> QED BY <1>1, <1>2, <1>3, <1>4, OnClient

LEMMA CheckMediaStep ==
    ASSUME IInv, NEW c \in Clients, CheckMedia(c)
    PROVE  IInv'
<1> DEFINE d == disk[c]
           r == Scanned(c)
           m == [meta[c] EXCEPT !.scanned = TRUE]
           s == session[c]
           x == mislaid[c]
           u == unsent[c]
<1>1. Sets(c, d, r, m, s, x, u)
      BY DEF IInv, TypeOK, Sets, CheckMedia, history, counters
<1>2. Typed(d, r, m, s, x, u) /\ m.lastUsn <= server.usn /\ s.lastUsn <= server.usn
      BY TypedNow DEF IInv, Typed, RowType, MetaType, SessionType, Places, Contents, Row, Scanned
<1>3. Good(d, r, m, s, x, server.files)
      BY TypedNow DEF Good, UsnOK, DownloadOK, DirtyOK, Agrees, ClientOK, IInv, Typed, SessionType, MetaType, Row, Scanned, CheckMedia, At, RowType, Contents
<1>4. UNCHANGED server /\ edits' \in 0 .. MaxEdits /\ faults' \in 0 .. MaxFaults
      BY DEF IInv, TypeOK, CheckMedia, history, counters
<1> HIDE DEF d, r, m, s, x, u
<1> QED BY <1>1, <1>2, <1>3, <1>4, OnClient

-----------------------------------------------------------------------------
(* A session.                                                              *)

LEMMA BeginStep ==
    ASSUME IInv, NEW c \in Clients, Begin(c)
    PROVE  IInv'
<1> DEFINE d == disk[c]
           r == IF meta[c].scanned THEN rows[c] ELSE Scanned(c)
           m == [meta[c] EXCEPT !.scanned = TRUE]
           s == IF meta[c].lastUsn = server.usn /\ Dirty(r) = {} THEN Idle
                ELSE Fresh("changes", meta[c].lastUsn)
           x == mislaid[c]
           u == unsent[c]
<1>1. Sets(c, d, r, m, s, x, u)
      BY DEF IInv, TypeOK, Sets, Begin, Goes, history, counters
<1>2. Typed(d, r, m, s, x, u) /\ m.lastUsn <= server.usn /\ s.lastUsn <= server.usn
  <2>1. r \in [Files -> RowType]
        BY TypedNow, ScannedType DEF IInv, Typed
  <2>2. s \in SessionType /\ s.lastUsn <= server.usn
    <3>1. meta[c].lastUsn \in Nat /\ meta[c].lastUsn <= server.usn /\ server.usn \in Nat
          BY TypedNow DEF IInv, Typed, MetaType
    <3>2. s \in {Idle, Fresh("changes", meta[c].lastUsn)}
          OBVIOUS
    <3> HIDE DEF s
    <3> QED BY <3>1, <3>2, IdleType, FreshType DEF Places
  <2>3. m \in MetaType /\ m.lastUsn <= server.usn
        BY TypedNow DEF IInv, Typed, MetaType
  <2> HIDE DEF r, s, m
  <2> QED BY <2>1, <2>2, <2>3, TypedNow DEF IInv, Typed
<1>3. Good(d, r, m, s, x, server.files)
      BY TypedNow DEF Good, UsnOK, DownloadOK, DirtyOK, Agrees, ClientOK, IInv, Typed, SessionType, MetaType, Row, Scanned, Idle, Fresh, RowType, Contents
<1>4. UNCHANGED server /\ edits' \in 0 .. MaxEdits /\ faults' \in 0 .. MaxFaults
      BY DEF IInv, TypeOK, Begin, Goes, history, counters
<1> HIDE DEF d, r, m, s, x, u
<1> QED BY <1>1, <1>2, <1>3, <1>4, OnClient

LEMMA NoMoreChangesStep ==
    ASSUME IInv, NEW c \in Clients, NoMoreChanges(c)
    PROVE  IInv'
<1> DEFINE d == disk[c]
           r == rows[c]
           m == meta[c]
           s == [session[c] EXCEPT !.at = "send"]
           x == mislaid[c]
           u == unsent[c]
<1>1. Sets(c, d, r, m, s, x, u)
      BY DEF IInv, TypeOK, Sets, NoMoreChanges, Goes, localVars, history, counters
<1>2. Typed(d, r, m, s, x, u) /\ m.lastUsn <= server.usn /\ s.lastUsn <= server.usn
      BY TypedNow DEF IInv, Typed, RowType, MetaType, SessionType, Places, Contents
<1>3. Good(d, r, m, s, x, server.files)
      BY TypedNow DEF Good, UsnOK, DownloadOK, DirtyOK, Agrees, ClientOK, IInv, Typed, SessionType, MetaType, NoMoreChanges, At
<1>4. UNCHANGED server /\ edits' \in 0 .. MaxEdits /\ faults' \in 0 .. MaxFaults
      BY DEF IInv, TypeOK, NoMoreChanges, Goes, localVars, history, counters
<1> HIDE DEF d, r, m, s, x, u
<1> QED BY <1>1, <1>2, <1>3, <1>4, OnClient

LEMMA DownloadFailsStep ==
    ASSUME IInv, NEW c \in Clients, DownloadFails(c)
    PROVE  IInv'
<1> DEFINE d == disk[c]
           r == rows[c]
           m == meta[c]
           s == Idle
           x == mislaid[c]
           u == unsent[c]
<1>1. Sets(c, d, r, m, s, x, u)
      BY DEF IInv, TypeOK, Sets, DownloadFails, Ends, Goes, localVars, history, counters
<1>2. Typed(d, r, m, s, x, u) /\ m.lastUsn <= server.usn /\ s.lastUsn <= server.usn
      BY TypedNow, IdleType DEF IInv, Typed
<1>3. Good(d, r, m, s, x, server.files)
      BY TypedNow DEF Good, UsnOK, DownloadOK, DirtyOK, Agrees, ClientOK, IInv, Typed, SessionType, MetaType, Idle, Fresh
<1>4. UNCHANGED server /\ edits' \in 0 .. MaxEdits /\ faults' \in 0 .. MaxFaults
      BY DEF IInv, TypeOK, DownloadFails, Ends, Goes, localVars, history, counters
<1> HIDE DEF d, r, m, s, x, u
<1> QED BY <1>1, <1>2, <1>3, <1>4, OnClient

LEMMA DownloadedStep ==
    ASSUME IInv, NEW c \in Clients, Downloaded(c)
    PROVE  IInv'
<1> DEFINE d == disk[c]
           r == rows[c]
           m == [meta[c] EXCEPT !.lastUsn = session[c].lastUsn]
           s == [session[c] EXCEPT !.at = "changes"]
           x == mislaid[c]
           u == unsent[c]
<1>1. Sets(c, d, r, m, s, x, u)
      BY DEF IInv, TypeOK, Sets, Downloaded, Goes, history, counters
<1>2. Typed(d, r, m, s, x, u) /\ m.lastUsn <= server.usn /\ s.lastUsn <= server.usn
      BY TypedNow DEF IInv, Typed, RowType, MetaType, SessionType, Places, Contents
<1>3. Good(d, r, m, s, x, server.files)
      BY TypedNow DEF Good, UsnOK, DownloadOK, DirtyOK, Agrees, ClientOK, IInv, Typed, SessionType, MetaType, Downloaded, At
<1>4. UNCHANGED server /\ edits' \in 0 .. MaxEdits /\ faults' \in 0 .. MaxFaults
      BY DEF IInv, TypeOK, Downloaded, Goes, history, counters
<1> HIDE DEF d, r, m, s, x, u
<1> QED BY <1>1, <1>2, <1>3, <1>4, OnClient

LEMMA RestartStep ==
    ASSUME IInv, NEW c \in Clients, Restart(c)
    PROVE  IInv'
<1> DEFINE d == disk[c]
           r == rows[c]
           m == meta[c]
           s == Fresh("begin", 0)
           x == mislaid[c]
           u == unsent[c]
<1>1. Sets(c, d, r, m, s, x, u)
      BY DEF IInv, TypeOK, Sets, Restart, Goes, localVars, history, counters
<1>2. Typed(d, r, m, s, x, u) /\ m.lastUsn <= server.usn /\ s.lastUsn <= server.usn
      BY TypedNow, FreshType DEF IInv, Typed, Places
<1>3. Good(d, r, m, s, x, server.files)
      BY TypedNow DEF Good, UsnOK, DownloadOK, DirtyOK, Agrees, ClientOK, IInv, Typed, SessionType, MetaType, Fresh
<1>4. UNCHANGED server /\ edits' \in 0 .. MaxEdits /\ faults' \in 0 .. MaxFaults
      BY DEF IInv, TypeOK, Restart, Goes, localVars, history, counters
<1> HIDE DEF d, r, m, s, x, u
<1> QED BY <1>1, <1>2, <1>3, <1>4, OnClient

LEMMA AllSentStep ==
    ASSUME IInv, NEW c \in Clients, AllSent(c)
    PROVE  IInv'
<1> DEFINE d == disk[c]
           r == rows[c]
           m == meta[c]
           s == [session[c] EXCEPT !.at = "sanity"]
           x == mislaid[c]
           u == unsent[c]
<1>1. Sets(c, d, r, m, s, x, u)
      BY DEF IInv, TypeOK, Sets, AllSent, Goes, localVars, history, counters
<1>2. Typed(d, r, m, s, x, u) /\ m.lastUsn <= server.usn /\ s.lastUsn <= server.usn
      BY TypedNow DEF IInv, Typed, RowType, MetaType, SessionType, Places, Contents
<1>3. Good(d, r, m, s, x, server.files)
      BY TypedNow DEF Good, UsnOK, DownloadOK, DirtyOK, Agrees, ClientOK, IInv, Typed, SessionType, MetaType, AllSent, At
<1>4. UNCHANGED server /\ edits' \in 0 .. MaxEdits /\ faults' \in 0 .. MaxFaults
      BY DEF IInv, TypeOK, AllSent, Goes, localVars, history, counters
<1> HIDE DEF d, r, m, s, x, u
<1> QED BY <1>1, <1>2, <1>3, <1>4, OnClient

-----------------------------------------------------------------------------
(* Sessions cut short.                                                     *)

LEMMA InterruptStep ==
    ASSUME IInv, NEW c \in Clients, Interrupt(c)
    PROVE  IInv'
<1> DEFINE d == disk[c]
           r == rows[c]
           m == meta[c]
           s == Idle
           x == mislaid[c]
           u == unsent[c]
<1>1. Sets(c, d, r, m, s, x, u)
      BY DEF IInv, TypeOK, Sets, Interrupt, Cut, Ends, Goes
<1>2. Typed(d, r, m, s, x, u) /\ m.lastUsn <= server.usn /\ s.lastUsn <= server.usn
      BY TypedNow, IdleType DEF IInv, Typed
<1>3. Good(d, r, m, s, x, server.files)
      BY TypedNow DEF Good, UsnOK, DownloadOK, DirtyOK, Agrees, ClientOK, IInv, Typed, SessionType, MetaType, Idle, Fresh
<1>4. UNCHANGED server /\ edits' \in 0 .. MaxEdits /\ faults' \in 0 .. MaxFaults
      BY DEF IInv, TypeOK, Interrupt, Cut, Ends, Goes
<1> HIDE DEF d, r, m, s, x, u
<1> QED BY <1>1, <1>2, <1>3, <1>4, OnClient

LEMMA InterruptDownloadStep ==
    ASSUME IInv, NEW c \in Clients, InterruptDownload(c)
    PROVE  IInv'
<1>1. PICK f \in session[c].need :
          /\ server.files[f].sum # NoSum
          /\ disk' = [disk EXCEPT ![c][f] = server.files[f].sum]
          /\ unsent' = [unsent EXCEPT ![c] = @ \ {f}]
      BY DEF InterruptDownload
<1> DEFINE d == [disk[c] EXCEPT ![f] = server.files[f].sum]
           u == unsent[c] \ {f}
<1>2. f \in Files /\ ~rows[c][f].dirty
      BY TypedNow DEF InterruptDownload, At, IInv, ClientOK, Good, DownloadOK, Typed, SessionType
<1>3. Sets(c, d, rows[c], meta[c], Idle, mislaid[c], u)
      BY <1>1, <1>2 DEF IInv, TypeOK, Sets, InterruptDownload, Cut, Ends, Goes
<1>4. Typed(d, rows[c], meta[c], Idle, mislaid[c], u)
      BY <1>2, TypedNow, IdleType DEF IInv, Typed, FilesType
<1>5. Good(d, rows[c], meta[c], Idle, mislaid[c], server.files)
      BY <1>2, TypedNow DEF IInv, ClientOK, Good, UsnOK, DownloadOK, DirtyOK, Idle, Fresh, Typed
<1>6. /\ UNCHANGED server /\ edits' \in 0 .. MaxEdits /\ faults' \in 0 .. MaxFaults
      /\ meta[c].lastUsn <= server.usn /\ Idle.lastUsn <= server.usn
      BY TypedNow, IdleType DEF IInv, TypeOK, InterruptDownload, Cut
<1> HIDE DEF d, u
<1> QED BY <1>3, <1>4, <1>5, <1>6, OnClient

LEMMA DownloadStep ==
    ASSUME IInv, NEW c \in Clients, Download(c)
    PROVE  IInv'
<1>1. PICK got \in SUBSET session[c].need \ {{}} :
          /\ \A f \in got : server.files[f].sum # NoSum
          /\ disk' = [disk EXCEPT ![c] = [f \in Files |-> IF f \in got THEN server.files[f].sum ELSE @[f]]]
          /\ rows' = [rows EXCEPT ![c] = [f \in Files |->
                         IF f \in got THEN Row(server.files[f].sum, FALSE) ELSE @[f]]]
          /\ session' = [session EXCEPT ![c] = [session[c] EXCEPT !.need = @ \ got]]
          /\ unsent' = [unsent EXCEPT ![c] = @ \ got]
          /\ mislaid' = [mislaid EXCEPT ![c] = @ \ got]
      BY DEF Download, Goes
<1> DEFINE d == [f \in Files |-> IF f \in got THEN server.files[f].sum ELSE disk[c][f]]
           r == [f \in Files |-> IF f \in got THEN Row(server.files[f].sum, FALSE) ELSE rows[c][f]]
           s == [session[c] EXCEPT !.need = @ \ got]
           x == mislaid[c] \ got
           u == unsent[c] \ got
<1>2. Sets(c, d, r, meta[c], s, x, u)
      BY <1>1 DEF IInv, TypeOK, Sets, Download
<1>3. \A f \in Files : server.files[f].sum \in Contents
      BY TypedNow DEF IInv, FilesType
<1>4. Typed(d, r, meta[c], s, x, u) /\ s.lastUsn <= server.usn
  <2>1. r \in [Files -> RowType] /\ d \in [Files -> Contents]
        BY <1>3, TypedNow DEF IInv, Typed, RowType, Row
  <2>2. s \in SessionType /\ s.lastUsn = session[c].lastUsn
        BY TypedNow DEF IInv, Typed, SessionType
  <2> QED BY <2>1, <2>2, TypedNow DEF IInv, Typed
<1>5. Good(d, r, meta[c], s, x, server.files)
  <2>1. /\ session[c].at = "download" /\ s.at = "download"
        /\ s.lastUsn = session[c].lastUsn /\ s.need = session[c].need \ got
        BY TypedNow DEF IInv, Typed, SessionType, Download, At
  <2>2. ASSUME NEW f \in Files
        PROVE  IF f \in got THEN r[f].csum = server.files[f].sum /\ ~r[f].dirty
               ELSE r[f] = rows[c][f] /\ d[f] = disk[c][f]
        BY DEF Row
  <2>3. ASSUME NEW f \in Files, f \notin x PROVE Agrees(r, server.files, f, meta[c].lastUsn)
        BY <2>2, <2>3 DEF IInv, ClientOK, Good, Agrees
  <2>4. ASSUME NEW f \in Files, f \notin x, f \notin s.need
        PROVE  Agrees(r, server.files, f, s.lastUsn)
        BY <2>1, <2>2, <2>4 DEF IInv, ClientOK, Good, DownloadOK, Agrees
  <2>5. ASSUME NEW f \in s.need PROVE ~r[f].dirty /\ server.files[f].usn > meta[c].lastUsn
    <3>1. f \in Files /\ f \in session[c].need
          BY <2>1, TypedNow DEF IInv, Typed, SessionType
    <3> QED BY <3>1, <2>1, <2>2 DEF IInv, ClientOK, Good, DownloadOK
  <2>6. DirtyOK(d, r)
        BY <2>2 DEF IInv, ClientOK, Good, DirtyOK
  <2>7. meta[c].lastUsn <= s.lastUsn
        BY <2>1 DEF IInv, ClientOK, Good, DownloadOK
  <2> HIDE DEF d, r, s, x
  <2> QED BY <2>1, <2>3, <2>4, <2>5, <2>6, <2>7 DEF Good, UsnOK, DownloadOK
<1>6. /\ UNCHANGED server /\ edits' \in 0 .. MaxEdits /\ faults' \in 0 .. MaxFaults
      /\ meta[c].lastUsn <= server.usn
      BY TypedNow DEF IInv, TypeOK, Download, counters
<1> HIDE DEF d, r, s, x, u
<1> QED BY <1>2, <1>4, <1>5, <1>6, OnClient

\* The rows and the disk after the changes of the server up to usn.
DiskAfter(c, fs) == [f \in Files |-> IF f \in Deleted(c, fs) THEN NoSum ELSE disk[c][f]]

LEMMA ChangedRows ==
    ASSUME TypeOK, NEW c \in Clients, NEW fs \in SUBSET Files
    PROVE  /\ RowsAfter(c, fs) \in [Files -> RowType] /\ DiskAfter(c, fs) \in [Files -> Contents]
           /\ \A f \in Files : f \notin fs => RowsAfter(c, fs)[f] = rows[c][f]
           /\ \A f \in fs : f \notin Fetched(c, fs) /\ ~RowsAfter(c, fs)[f].dirty
                                => RowsAfter(c, fs)[f].csum = server.files[f].sum
           /\ \A f \in Fetched(c, fs) : ~RowsAfter(c, fs)[f].dirty
           /\ \A f \in Files : RowsAfter(c, fs)[f].dirty
                  => RowsAfter(c, fs)[f] = rows[c][f] /\ DiskAfter(c, fs)[f] = disk[c][f]
<1> DEFINE r == RowsAfter(c, fs)
<1>1. rows[c] \in [Files -> RowType] /\ disk[c] \in [Files -> Contents]
      BY DEF TypeOK, RowType
<1>2. \A f \in Files : r[f] = IF f \in Deleted(c, fs) THEN NoRow
                              ELSE IF f \in Resolved(c, fs) THEN Row(rows[c][f].csum, FALSE)
                              ELSE rows[c][f]
      BY DEF RowsAfter
<1>3. r \in [Files -> RowType]
      BY <1>1 DEF RowsAfter, RowType, NoRow, Row, Contents
<1>4. DiskAfter(c, fs) \in [Files -> Contents]
      BY <1>1 DEF DiskAfter, Contents
<1>5. \A f \in Files : f \notin fs => r[f] = rows[c][f]
      BY <1>2 DEF Deleted, Resolved
<1>6. \A f \in Files : rows[c][f].dirty \in BOOLEAN
      BY <1>1 DEF RowType
<1>7. ASSUME NEW f \in fs
      PROVE  /\ f \notin Fetched(c, fs) /\ ~r[f].dirty => r[f].csum = server.files[f].sum
             /\ f \in Fetched(c, fs) => ~r[f].dirty
             /\ r[f].dirty => r[f] = rows[c][f] /\ f \notin Deleted(c, fs)
  <2>1. CASE f \in Deleted(c, fs)
    <3>1. r[f] = NoRow
          BY <2>1, <1>2
    <3>2. r[f].csum = NoSum /\ ~r[f].dirty
          BY <3>1 DEF NoRow, Row
    <3>3. server.files[f].sum = NoSum
          BY <2>1 DEF Deleted
    <3> QED BY <3>2, <3>3 DEF Fetched
  <2>2. CASE f \notin Deleted(c, fs) /\ f \in Resolved(c, fs)
    <3>0. r[f] = Row(rows[c][f].csum, FALSE)
          BY <2>2, <1>2
    <3>1. r[f].csum = rows[c][f].csum /\ ~r[f].dirty
          BY <3>0 DEF Row
    <3>2. f \notin Fetched(c, fs) => rows[c][f].csum = server.files[f].sum
          BY <2>2 DEF Resolved, Fetched
    <3> QED BY <3>1, <3>2
  <2>3. CASE f \notin Deleted(c, fs) /\ f \notin Resolved(c, fs)
    <3>1. r[f] = rows[c][f] /\ rows[c][f].dirty /\ f \notin Fetched(c, fs)
          BY <2>3, <1>2, <1>6 DEF Deleted, Resolved, Fetched
    <3> QED BY <3>1, <2>3
  <2> QED BY <2>1, <2>2, <2>3
<1>8. \A f \in Files : r[f].dirty => r[f] = rows[c][f] /\ DiskAfter(c, fs)[f] = disk[c][f]
  <2> TAKE f \in Files
  <2>1. f \notin fs => f \notin Deleted(c, fs)
        BY DEF Deleted
  <2> QED BY <2>1, <1>5, <1>7 DEF DiskAfter
<1>9. Fetched(c, fs) \subseteq fs
      BY DEF Fetched
<1> HIDE DEF r
<1> QED BY <1>3, <1>4, <1>5, <1>7, <1>8, <1>9 DEF r

LEMMA ChangesOK ==
    ASSUME IInv, NEW c \in Clients, At(c, {"changes"}), NEW usn \in Nat
    PROVE  LET fs == UpTo(NewsFor(c), usn)
               r == RowsAfter(c, fs)
           IN  /\ fs \in SUBSET Files
               /\ r \in [Files -> RowType] /\ DiskAfter(c, fs) \in [Files -> Contents]
               /\ \A f \in Files : f \notin mislaid[c] => Agrees(r, server.files, f, meta[c].lastUsn)
               /\ \A f \in Files : f \notin mislaid[c] /\ f \notin Fetched(c, fs)
                                      => Agrees(r, server.files, f, usn)
               /\ \A f \in Fetched(c, fs) : ~r[f].dirty /\ server.files[f].usn > meta[c].lastUsn
               /\ DirtyOK(DiskAfter(c, fs), r)
<1> DEFINE fs == UpTo(NewsFor(c), usn)
           r == RowsAfter(c, fs)
<1>1. /\ session[c].lastUsn = meta[c].lastUsn /\ meta[c].lastUsn \in Nat
      /\ \A f \in Files : server.files[f].usn \in Nat
      BY TypedNow DEF IInv, ClientOK, Good, UsnOK, At, Typed, MetaType, FilesType
<1>2. fs \in SUBSET Files
      BY DEF UpTo, NewsFor
<1>3. \A f \in Files : f \in fs <=> meta[c].lastUsn < server.files[f].usn /\ server.files[f].usn <= usn
      BY <1>1 DEF UpTo, NewsFor
<1> HIDE DEF fs
<1>4. r \in [Files -> RowType] /\ DiskAfter(c, fs) \in [Files -> Contents]
      BY <1>2, ChangedRows DEF IInv
<1>5. \A f \in Files : f \notin mislaid[c] => Agrees(r, server.files, f, meta[c].lastUsn)
  <2> TAKE f \in Files
  <2>1. f \notin fs => r[f] = rows[c][f]
        BY <1>2, ChangedRows DEF IInv
  <2> QED BY <2>1, <1>1, <1>3 DEF IInv, ClientOK, Good, Agrees
<1>6. \A f \in Files : f \notin mislaid[c] /\ f \notin Fetched(c, fs) => Agrees(r, server.files, f, usn)
  <2> TAKE f \in Files
  <2>1. CASE f \in fs
        BY <2>1, <1>2, ChangedRows DEF IInv, Agrees
  <2>2. CASE f \notin fs
    <3>1. server.files[f].usn <= usn => server.files[f].usn <= meta[c].lastUsn
          BY <2>2, <1>1, <1>3
    <3> QED BY <3>1, <1>5 DEF Agrees
  <2> QED BY <2>1, <2>2
<1>7. \A f \in Fetched(c, fs) : ~r[f].dirty /\ server.files[f].usn > meta[c].lastUsn
  <2> TAKE f \in Fetched(c, fs)
  <2>1. f \in fs /\ f \in Files
        BY <1>2 DEF Fetched
  <2>2. ~r[f].dirty
        BY <1>2, ChangedRows DEF IInv
  <2> QED BY <2>1, <2>2, <1>1, <1>3
<1>8. DirtyOK(DiskAfter(c, fs), r)
  <2>1. \A f \in Files : r[f].dirty => r[f] = rows[c][f] /\ DiskAfter(c, fs)[f] = disk[c][f]
        BY <1>2, ChangedRows DEF IInv
  <2> QED BY <2>1 DEF IInv, ClientOK, Good, DirtyOK
<1> QED BY <1>2, <1>4, <1>5, <1>6, <1>7, <1>8 DEF fs

LEMMA GetChangesStep ==
    ASSUME IInv, NEW c \in Clients, GetChanges(c)
    PROVE  IInv'
<1>1. PICK f0 \in NewsFor(c) : ChangesUpTo(c, server.files[f0].usn)
      BY DEF GetChanges
<1> DEFINE usn == server.files[f0].usn
           fs == UpTo(NewsFor(c), usn)
           d == DiskAfter(c, fs)
           r == RowsAfter(c, fs)
           s == [session[c] EXCEPT !.at = "download", !.lastUsn = usn, !.need = Fetched(c, fs)]
           u == {f \in unsent[c] : f \in fs => server.files[f].sum # rows[c][f].csum}
<1>2. At(c, {"changes"}) /\ UNCHANGED <<meta, server, edits, faults, mislaid>>
      BY <1>1 DEF GetChanges, ChangesUpTo, counters
<1>3. /\ f0 \in Files /\ usn \in Nat /\ usn <= server.usn
      /\ meta[c].lastUsn \in Nat /\ meta[c].lastUsn <= usn /\ session[c].lastUsn = meta[c].lastUsn
      BY <1>2, TypedNow DEF IInv, ClientOK, Good, UsnOK, At, Typed, MetaType, FilesType, NewsFor
<1>4. Sets(c, d, r, meta[c], s, mislaid[c], u)
      BY <1>1, <1>2 DEF IInv, TypeOK, Sets, ChangesUpTo, ChangesApplied, Goes, DiskAfter
<1> HIDE DEF usn
<1>5. /\ s \in SessionType /\ s.at = "download" /\ s.lastUsn = usn /\ s.need = Fetched(c, fs)
  <2>1. Fetched(c, fs) \in SUBSET Files
        BY DEF Fetched, UpTo, NewsFor
  <2> QED BY <2>1, <1>3, TypedNow DEF IInv, Typed, SessionType, Places
<1> HIDE DEF s
<1>6. Typed(d, r, meta[c], s, mislaid[c], u)
      BY <1>2, <1>3, <1>5, ChangesOK, TypedNow DEF IInv, Typed
<1>7. Good(d, r, meta[c], s, mislaid[c], server.files)
      BY <1>2, <1>3, <1>5, ChangesOK DEF Good, UsnOK, DownloadOK
<1>8. meta[c].lastUsn <= server.usn /\ edits \in 0 .. MaxEdits /\ faults \in 0 .. MaxFaults
      BY TypedNow DEF IInv, TypeOK
<1> HIDE DEF fs, d, r, u
<1> QED BY <1>2, <1>3, <1>4, <1>5, <1>6, <1>7, <1>8, OnClient

LEMMA InterruptChangesStep ==
    ASSUME IInv, NEW c \in Clients, InterruptChanges(c)
    PROVE  IInv'
<1>1. PICK f0 \in NewsFor(c) : ChangesApplied(c, UpTo(NewsFor(c), server.files[f0].usn))
      BY DEF InterruptChanges
<1> DEFINE usn == server.files[f0].usn
           fs == UpTo(NewsFor(c), usn)
           d == DiskAfter(c, fs)
           r == RowsAfter(c, fs)
           u == {f \in unsent[c] : f \in fs => server.files[f].sum # rows[c][f].csum}
<1>2. At(c, {"changes"}) /\ UNCHANGED <<meta, server, edits, mislaid>> /\ faults' \in 0 .. MaxFaults
      BY DEF InterruptChanges, Cut, IInv, TypeOK
<1>3. f0 \in Files /\ usn \in Nat
      BY TypedNow DEF IInv, FilesType, NewsFor
<1>4. Sets(c, d, r, meta[c], Idle, mislaid[c], u)
      BY <1>1, <1>2 DEF IInv, TypeOK, Sets, InterruptChanges, ChangesApplied, Cut, Ends, Goes, DiskAfter
<1> HIDE DEF usn
<1>5. Typed(d, r, meta[c], Idle, mislaid[c], u)
      BY <1>2, <1>3, ChangesOK, TypedNow, IdleType DEF IInv, Typed
<1>6. Good(d, r, meta[c], Idle, mislaid[c], server.files)
      BY <1>2, <1>3, ChangesOK DEF Good, UsnOK, DownloadOK, Idle, Fresh
<1>7. /\ meta[c].lastUsn <= server.usn /\ Idle.lastUsn <= server.usn
      /\ edits \in 0 .. MaxEdits
      BY TypedNow, IdleType DEF IInv, TypeOK
<1> HIDE DEF fs, d, r, u
<1> QED BY <1>2, <1>4, <1>5, <1>6, <1>7, OnClient

LEMMA SanityStep ==
    ASSUME IInv, NEW c \in Clients, Sanity(c)
    PROVE  IInv'
<1>1. /\ UNCHANGED <<server, edits, faults>>
      /\ edits \in 0 .. MaxEdits /\ faults \in 0 .. MaxFaults
      BY DEF Sanity, counters, IInv, TypeOK
<1>2. CASE UNCHANGED <<rows, meta, mislaid>>
  <2>1. Sets(c, disk[c], rows[c], meta[c], Idle, mislaid[c], unsent[c])
        BY <1>2 DEF IInv, TypeOK, Sets, Sanity, Ends, Goes
  <2>2. /\ Typed(disk[c], rows[c], meta[c], Idle, mislaid[c], unsent[c])
        /\ meta[c].lastUsn <= server.usn /\ Idle.lastUsn <= server.usn
        BY TypedNow, IdleType DEF IInv, Typed
  <2>3. Good(disk[c], rows[c], meta[c], Idle, mislaid[c], server.files)
        BY DEF IInv, ClientOK, Good, UsnOK, DownloadOK, Idle, Fresh
  <2> QED BY <1>1, <2>1, <2>2, <2>3, OnClient
<1>3. CASE /\ rows' = [rows EXCEPT ![c] = [f \in Files |-> NoRow]]
           /\ meta' = [meta EXCEPT ![c] = [lastUsn |-> 0, scanned |-> FALSE]]
           /\ mislaid' = [mislaid EXCEPT ![c] = {}]
  <2> DEFINE r == [f \in Files |-> NoRow]
             m == [lastUsn |-> 0, scanned |-> FALSE]
  <2>1. Sets(c, disk[c], r, m, Idle, {}, unsent[c])
        BY <1>3 DEF IInv, TypeOK, Sets, Sanity, Ends, Goes
  <2>2. r \in [Files -> RowType] /\ m \in MetaType
        BY DEF NoRow, Row, RowType, MetaType, Contents
  <2>3. /\ Typed(disk[c], r, m, Idle, {}, unsent[c])
        /\ m.lastUsn <= server.usn /\ Idle.lastUsn <= server.usn
        BY <2>2, TypedNow, IdleType DEF IInv, Typed
  <2>4. \A f \in Files : Agrees(r, server.files, f, 0)
        BY TypedNow DEF IInv, ServerOK, Agrees, NoRow, Row, FilesType
  <2>5. Good(disk[c], r, m, Idle, {}, server.files)
        BY <2>4 DEF Good, UsnOK, DownloadOK, DirtyOK, Idle, Fresh, NoRow, Row
  <2> HIDE DEF r, m
  <2> QED BY <1>1, <2>1, <2>3, <2>5, OnClient
<1> QED BY <1>2, <1>3 DEF Sanity

-----------------------------------------------------------------------------
(* Uploads.                                                                *)

\* What an upload does to the server.
LEMMA ServerProcessed ==
    ASSUME IInv, NEW c \in Clients, NEW taken \in SUBSET Files, Processed(c, taken)
    PROVE  /\ Cardinality(taken) \in Nat
           /\ server' \in [files : FilesType, usn : Nat]
           /\ server'.usn = server.usn + Cardinality(taken)
           /\ \A f \in Files : server'.files[f].usn <= server'.usn
           /\ MovesOn(server'.files)
           /\ \A f \in taken : server'.files[f].sum = Content(c, f) /\ server'.files[f].usn > server.usn
           /\ \A f \in Files : f \notin taken => server'.files[f] = server.files[f]
<1> DEFINE n == Cardinality(taken)
<1>1. n \in Nat
      BY FS_CardinalityType, FS_Subset DEF MediaAssumption
<1>2. PICK nth \in [taken -> 1 .. n] :
          server' = [files |-> [f \in Files |->
                        IF f \in taken THEN [sum |-> Content(c, f), usn |-> server.usn + nth[f]]
                        ELSE server.files[f]],
                     usn |-> server.usn + n]
      BY DEF Processed, Orders
<1> HIDE DEF n
<1>3. /\ server.usn \in Nat /\ server.files \in FilesType
      /\ \A f \in Files : server.files[f].usn \in Nat /\ server.files[f].usn <= server.usn
      /\ \A f \in Files : Content(c, f) \in Contents
      BY TypedNow DEF IInv, FilesType, Typed, Content, Contents
<1>4. \A f \in taken : nth[f] \in Nat /\ 1 <= nth[f] /\ nth[f] <= n
      BY <1>1, <1>2
<1>5. server'.usn = server.usn + n
      BY <1>2
<1>6. \A f \in taken : server'.files[f] = [sum |-> Content(c, f), usn |-> server.usn + nth[f]]
      BY <1>2
<1>7. \A f \in Files : f \notin taken => server'.files[f] = server.files[f]
      BY <1>2
<1>8. \A f \in Files : f \in taken
          => /\ server'.files[f] \in [sum : Contents, usn : Nat] /\ server'.files[f].sum = Content(c, f)
             /\ server'.files[f].usn > server.usn /\ server'.files[f].usn <= server.usn + n
  <2> SUFFICES ASSUME NEW f \in taken
               PROVE  /\ server'.files[f] \in [sum : Contents, usn : Nat] /\ server'.files[f].sum = Content(c, f)
                      /\ server'.files[f].usn > server.usn /\ server'.files[f].usn <= server.usn + n
      OBVIOUS
  <2> DEFINE k == server.usn + nth[f]
  <2>1. k \in Nat /\ k > server.usn /\ k <= server.usn + n
        BY <1>1, <1>3, <1>4
  <2>2. server'.files[f] = [sum |-> Content(c, f), usn |-> k]
        BY <1>6
  <2> HIDE DEF k
  <2>3. server'.files[f].sum = Content(c, f) /\ server'.files[f].usn = k
        BY <2>2
  <2>4. server'.files[f] \in [sum : Contents, usn : Nat]
        BY <1>3, <2>1, <2>2
  <2> QED BY <2>1, <2>3, <2>4
<1>9. server' \in [files : FilesType, usn : Nat]
  <2>1. \A f \in Files : server'.files[f] \in [sum : Contents, usn : Nat]
        BY <1>3, <1>7, <1>8 DEF FilesType
  <2>2. server' = [files |-> server'.files, usn |-> server'.usn] /\ DOMAIN server'.files = Files
        BY <1>2
  <2>3. server'.files = [f \in Files |-> server'.files[f]]
        BY <1>2
  <2>4. server'.files \in FilesType
        BY <2>1, <2>3 DEF FilesType
  <2>5. server'.usn \in Nat
        BY <1>1, <1>3, <1>5
  <2> QED BY <2>2, <2>4, <2>5
<1>10. \A f \in Files : server'.files[f].usn <= server'.usn
      BY <1>1, <1>3, <1>5, <1>7, <1>8
<1>11. MovesOn(server'.files)
      BY <1>7, <1>8 DEF MovesOn
<1> QED BY <1>1, <1>5, <1>7, <1>8, <1>9, <1>10, <1>11 DEF n

\* What is in the zip has the checksum of its row.
LEMMA SentContent ==
    ASSUME IInv, NEW c \in Clients, NEW fnames \in SUBSET Dirty(rows[c]),
           NEW f \in fnames \ Missing(c, fnames)
    PROVE  Content(c, f) = rows[c][f].csum
<1>1. f \in Files /\ rows[c][f].dirty
      BY DEF Dirty
<1>2. rows[c][f].csum # NoSum => disk[c][f] \in {rows[c][f].csum, NoSum}
      BY <1>1 DEF IInv, ClientOK, Good, DirtyOK
<1> QED BY <1>2 DEF Missing, Content

LEMMA UploadStep ==
    ASSUME IInv, NEW c \in Clients, Upload(c)
    PROVE  IInv'
<1>1. PICK fnames \in SUBSET Dirty(rows[c]), taken \in SUBSET Files, clean \in SUBSET Files :
          /\ taken \subseteq fnames \ Missing(c, fnames) /\ clean \subseteq fnames
          /\ clean \ Missing(c, fnames) \subseteq taken
          /\ Processed(c, taken)
          /\ rows' = [rows EXCEPT ![c] = MarkedClean(Removed(@, Missing(c, fnames)), clean)]
          /\ meta' = [meta EXCEPT ![c].lastUsn = IF InSync(c) THEN UsnAfter(c, fnames, taken) ELSE @]
          /\ session' = [session EXCEPT ![c] =
                [session[c] EXCEPT !.lastUsn = UsnAfter(c, fnames, taken), !.conflict = @ \/ ~InSync(c)]]
          /\ mislaid' = [mislaid EXCEPT ![c] = @ \cup (clean \cap Missing(c, fnames))]
          /\ unsent' = [unsent EXCEPT ![c] = @ \ taken]
      BY DEF Upload, Split, Goes, Dirty
<1> DEFINE lost == Missing(c, fnames)
           r == MarkedClean(Removed(rows[c], lost), clean)
           m == [meta[c] EXCEPT !.lastUsn = IF InSync(c) THEN UsnAfter(c, fnames, taken) ELSE @]
           s == [session[c] EXCEPT !.lastUsn = UsnAfter(c, fnames, taken), !.conflict = @ \/ ~InSync(c)]
           x == mislaid[c] \cup (clean \cap lost)
           u == unsent[c] \ taken
<1>2. Sets(c, disk[c], r, m, s, x, u)
      BY <1>1 DEF IInv, TypeOK, Sets, Upload
<1>3. /\ session[c].at = "send" /\ edits' \in 0 .. MaxEdits /\ faults' \in 0 .. MaxFaults
      BY DEF Upload, At, counters, IInv, TypeOK
<1>4. /\ taken \in SUBSET Files /\ lost \subseteq fnames /\ fnames \subseteq Files /\ clean \subseteq Files
      /\ \A f \in fnames : rows[c][f].dirty
      BY <1>1 DEF Dirty, Missing
<1>5. /\ meta[c].lastUsn \in Nat /\ session[c].lastUsn = meta[c].lastUsn
      /\ meta[c].lastUsn <= server.usn /\ server.usn \in Nat
      /\ \A f \in Files : server.files[f].usn \in Nat /\ server.files[f].usn <= server.usn
      BY <1>3, TypedNow DEF IInv, ClientOK, Good, UsnOK, Typed, MetaType, FilesType
<1>6. /\ m \in MetaType /\ s \in SessionType /\ s.at = "send" /\ s.lastUsn = m.lastUsn
      /\ m.lastUsn \in Nat /\ m.lastUsn <= server'.usn /\ server'.usn >= server.usn
      /\ m.lastUsn = meta[c].lastUsn \/ meta[c].lastUsn = server.usn
  <2>1. Cardinality(taken) \in Nat /\ server'.usn = server.usn + Cardinality(taken)
        BY <1>1, <1>4, ServerProcessed
  <2>2. UsnAfter(c, fnames, taken) \in Nat /\ UsnAfter(c, fnames, taken) <= server'.usn
        BY <2>1, <1>5 DEF UsnAfter
  <2>3. meta[c] \in MetaType /\ session[c] \in SessionType
        BY TypedNow DEF IInv, Typed
  <2>4. ~InSync(c) => UsnAfter(c, fnames, taken) = meta[c].lastUsn
        BY <1>5 DEF UsnAfter
  <2>5. InSync(c) \in BOOLEAN /\ (InSync(c) => meta[c].lastUsn = server.usn)
        BY <1>5 DEF InSync
  <2>6. /\ m \in MetaType /\ m.lastUsn = UsnAfter(c, fnames, taken)
        BY <2>2, <2>3, <2>4 DEF MetaType
  <2>7. /\ s \in SessionType /\ s.at = session[c].at /\ s.lastUsn = UsnAfter(c, fnames, taken)
        BY <2>2, <2>3, <2>5 DEF SessionType
  <2> QED BY <2>1, <2>2, <2>4, <2>5, <2>6, <2>7, <1>3, <1>5
<1> HIDE DEF m, s
<1>7. r \in [Files -> RowType]
  <2>1. rows[c] \in [Files -> RowType]
        BY TypedNow DEF IInv, Typed
  <2> QED BY <2>1 DEF MarkedClean, Removed, Row, RowType, Contents
<1>8. \A f \in Files : /\ f \in lost => r[f].csum = NoSum /\ (~r[f].dirty => f \in clean)
                       /\ f \notin lost => /\ r[f].csum = rows[c][f].csum
                                           /\ r[f].dirty = (rows[c][f].dirty /\ f \notin clean)
  <2> DEFINE q == Removed(rows[c], lost)
  <2>1. \A f \in Files : q[f] = IF f \in lost THEN Row(NoSum, TRUE) ELSE rows[c][f]
        BY DEF Removed
  <2> HIDE DEF q
  <2>0. Row(NoSum, TRUE) \in RowType /\ Row(NoSum, TRUE).csum = NoSum /\ Row(NoSum, TRUE).dirty
        BY DEF Row, RowType, Contents
  <2>2. \A f \in Files : q[f] \in RowType
        BY <2>0, <2>1, TypedNow DEF IInv, Typed
  <2>3. \A f \in Files : r[f] = [q[f] EXCEPT !.dirty = @ /\ f \notin clean]
        BY DEF MarkedClean, q
  <2> HIDE DEF r
  <2>4. \A f \in Files : r[f].csum = q[f].csum /\ r[f].dirty = (q[f].dirty /\ f \notin clean)
        BY <2>2, <2>3 DEF RowType
  <2> QED BY <2>0, <2>1, <2>4
<1> HIDE DEF r, lost
<1>9. Good(disk[c], r, m, s, x, server'.files)
  <2>1. ASSUME NEW f \in Files, f \notin x
        PROVE  Agrees(r, server'.files, f, m.lastUsn)
    <3>1. CASE f \in taken
      <4>1. f \notin lost /\ Content(c, f) = rows[c][f].csum
            BY <3>1, <1>1, SentContent DEF lost
      <4>2. server'.files[f].sum = Content(c, f)
            BY <3>1, <1>1, <1>4, ServerProcessed
      <4> QED BY <4>1, <4>2, <1>8 DEF Agrees
    <3>2. CASE f \notin taken
      <4>1. server'.files[f] = server.files[f]
            BY <3>2, <1>1, <1>4, ServerProcessed
      <4>2. CASE r[f].dirty
            BY <4>2 DEF Agrees
      <4>3. CASE ~r[f].dirty
        <5>1. f \notin lost /\ f \notin clean
              BY <4>3, <3>2, <2>1, <1>1, <1>8 DEF lost
        <5>2. r[f].csum = rows[c][f].csum /\ ~rows[c][f].dirty
              BY <5>1, <4>3, <1>8
        <5>3. f \notin mislaid[c]
              BY <2>1
        <5>4. Agrees(rows[c], server.files, f, meta[c].lastUsn)
              BY <5>3 DEF IInv, ClientOK, Good
        <5>5. server.files[f].usn <= m.lastUsn => server.files[f].usn <= meta[c].lastUsn
              BY <1>5, <1>6
        <5> QED BY <5>2, <5>4, <5>5, <4>1 DEF Agrees
      <4> QED BY <4>2, <4>3
    <3> QED BY <3>1, <3>2
  <2>2. DirtyOK(disk[c], r)
        BY <1>8 DEF IInv, ClientOK, Good, DirtyOK
  <2> QED BY <2>1, <2>2, <1>6 DEF Good, UsnOK, DownloadOK
<1>10. Typed(disk[c], r, m, s, x, u)
      BY <1>4, <1>6, <1>7, TypedNow DEF IInv, Typed
<1>11. /\ server' \in [files : FilesType, usn : Nat] /\ MovesOn(server'.files)
       /\ \A f \in Files : server'.files[f].usn <= server'.usn
      BY <1>1, <1>4, ServerProcessed
<1> HIDE DEF x, u
<1> QED BY <1>2, <1>3, <1>6, <1>9, <1>10, <1>11, OneClient

LEMMA UploadUnansweredStep ==
    ASSUME IInv, NEW c \in Clients, UploadUnanswered(c)
    PROVE  IInv'
<1>1. PICK fnames \in SUBSET Dirty(rows[c]), taken \in SUBSET Files :
          /\ taken \subseteq fnames \ Missing(c, fnames)
          /\ Processed(c, taken)
          /\ rows' = [rows EXCEPT ![c] = Removed(@, Missing(c, fnames))]
          /\ unsent' = [unsent EXCEPT ![c] = @ \ taken]
      BY DEF UploadUnanswered, Dirty
<1> DEFINE lost == Missing(c, fnames)
           r == Removed(rows[c], lost)
           u == unsent[c] \ taken
<1>2. Sets(c, disk[c], r, meta[c], Idle, mislaid[c], u)
      BY <1>1 DEF IInv, TypeOK, Sets, UploadUnanswered, Cut, Ends, Goes
<1>3. edits' \in 0 .. MaxEdits /\ faults' \in 0 .. MaxFaults
      BY DEF UploadUnanswered, Cut, IInv, TypeOK
<1>4. taken \in SUBSET Files
      BY <1>1 DEF Dirty
<1>5. /\ server' \in [files : FilesType, usn : Nat] /\ MovesOn(server'.files)
      /\ \A f \in Files : server'.files[f].usn <= server'.usn
      /\ Cardinality(taken) \in Nat /\ server'.usn = server.usn + Cardinality(taken)
      BY <1>1, <1>4, ServerProcessed
<1>6. /\ server.usn \in Nat /\ server'.usn \in Nat /\ server'.usn >= server.usn
      /\ meta[c].lastUsn \in Nat /\ meta[c].lastUsn <= server.usn
      /\ meta[c].lastUsn <= server'.usn /\ Idle.lastUsn <= server'.usn
      BY <1>5, TypedNow, IdleType DEF IInv, Typed, MetaType
<1>7. r \in [Files -> RowType]
  <2>1. rows[c] \in [Files -> RowType]
        BY TypedNow DEF IInv, Typed
  <2> QED BY <2>1 DEF Removed, Row, RowType, Contents
<1>8. \A f \in Files : IF f \in lost THEN r[f].csum = NoSum /\ r[f].dirty ELSE r[f] = rows[c][f]
      BY DEF Removed, Row
<1> HIDE DEF r, lost
<1>9. Good(disk[c], r, meta[c], Idle, mislaid[c], server'.files)
  <2>1. Good(disk[c], rows[c], meta[c], session[c], mislaid[c], server'.files)
        BY <1>5, Others DEF IInv
  <2>2. \A f \in Files : f \notin mislaid[c] => Agrees(r, server'.files, f, meta[c].lastUsn)
        BY <2>1, <1>8 DEF Good, Agrees
  <2>3. DirtyOK(disk[c], r)
        BY <2>1, <1>8 DEF Good, DirtyOK
  <2> QED BY <2>2, <2>3 DEF Good, UsnOK, DownloadOK, Idle, Fresh
<1>10. Typed(disk[c], r, meta[c], Idle, mislaid[c], u)
      BY <1>7, TypedNow, IdleType DEF IInv, Typed
<1> HIDE DEF u
<1> QED BY <1>2, <1>3, <1>5, <1>6, <1>9, <1>10, OneClient

-----------------------------------------------------------------------------
LEMMA StepIInv == IInv /\ [Next]_vars => IInv'
<1> SUFFICES ASSUME IInv, [Next]_vars PROVE IInv'
    OBVIOUS
<1>1. CASE UNCHANGED vars
      BY <1>1 DEF vars, IInv, TypeOK, ServerOK, ClientOK
<1>2. ASSUME NEW c \in Clients, NEW f \in Files, NEW s \in Sums, AddFile(c, f, s) PROVE IInv'
      BY <1>2, AddFileStep
<1>3. ASSUME NEW c \in Clients, NEW f \in Files, RemoveFile(c, f) \/ LoseFile(c, f) PROVE IInv'
      BY <1>3, RemoveFileStep, LoseFileStep
<1>4. ASSUME NEW c \in Clients,
             CheckMedia(c) \/ Begin(c) \/ GetChanges(c) \/ NoMoreChanges(c) \/ Download(c)
      PROVE IInv'
      BY <1>4, CheckMediaStep, BeginStep, GetChangesStep, NoMoreChangesStep, DownloadStep
<1>5. ASSUME NEW c \in Clients,
             DownloadFails(c) \/ Downloaded(c) \/ Upload(c) \/ Restart(c) \/ AllSent(c) \/ Sanity(c)
      PROVE IInv'
      BY <1>5, DownloadFailsStep, DownloadedStep, UploadStep, RestartStep, AllSentStep, SanityStep
<1>6. ASSUME NEW c \in Clients,
             Interrupt(c) \/ InterruptChanges(c) \/ InterruptDownload(c) \/ UploadUnanswered(c)
      PROVE IInv'
      BY <1>6, InterruptStep, InterruptChangesStep, InterruptDownloadStep, UploadUnansweredStep
<1> QED BY <1>1, <1>2, <1>3, <1>4, <1>5, <1>6 DEF Next

LEMMA Invariance == Spec => []IInv
  BY InitIInv, StepIInv, PTL DEF Spec

\* Every variable of the media sync keeps its range, and no client, however its
\* sessions end, knows a usn the server has not given (MediaSyncer.sync).
THEOREM TypeCorrect == Spec => []TypeOK
  BY Invariance, PTL DEF IInv

\* Whatever a client takes to be in sync is: a clean row whose change the client
\* has recorded has the server's checksum, in spite of concurrent uploads and
\* of sessions cut short (MediaSyncer.sync, Media.mediaChangesZip).
THEOREM KnownFilesAgreeHolds == Spec => []KnownFilesAgree
<1>1. IInv => KnownFilesAgree
  <2> SUFFICES ASSUME IInv, NEW c \in Clients, NEW f \in Files \ mislaid[c]
               PROVE  ~rows[c][f].dirty /\ server.files[f].usn <= meta[c].lastUsn
                          => rows[c][f].csum = server.files[f].sum
      BY DEF KnownFilesAgree
  <2> QED BY DEF IInv, ClientOK, Good, Agrees
<1> QED BY <1>1, Invariance, PTL
=============================================================================

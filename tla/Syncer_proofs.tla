---------------------------- MODULE Syncer_proofs ----------------------------
(***************************************************************************)
(* The collection sync implements CollectionSync, for any number of        *)
(* clients and objects, any size of chunk and any number of failures.      *)
(*                                                                         *)
(* What has to be known is what each half of a session holds between two   *)
(* requests.  The collection file and the server's collection do not       *)
(* change while a session is open, so every row either side holds in       *)
(* memory is told from those two: before and after the deletions, before   *)
(* and after the object was exchanged.                                     *)
(***************************************************************************)
EXTENDS Syncer, FiniteSetTheorems, SequenceTheorems, TLAPS

\* CollectionSync with the theorems about it.
P == INSTANCE CollectionSync_proofs WITH
    file <- [c \in Clients |-> Flat(disk[c])],
    server <- Flat(server),
    owed <- [c \in Clients |-> IF In(c, "finishing") THEN Flat(Committed(c))
                               ELSE [rows |-> <<>>, graves |-> {}, usn |-> -1]],
    compatible <- {c \in Clients : disk[c].scm = server.scm}

-----------------------------------------------------------------------------
(* Types.                                                                  *)

Row == {Absent} \cup [mod : Nat, by : Stamps, shape : {0, 1}, usn : Nat \cup {Unsent}]
Grave == [obj : Obj, usn : Nat \cup {Unsent}]
Collection == [rows : [Obj -> Row], graves : Seq(Grave),
               conf : Nat, mod : Nat, scm : Nat, usn : Nat]

Lefts == {<<>>, <<"notes">>, <<"cards", "notes">>, Tables}

Session == [phase : Phases, minUsn : Nat, maxUsn : Nat, lNewer : BOOLEAN,
            left : Lefts, sent : SUBSET Obj, mod : Nat]
Remote == [client : Clients, col : Collection, minUsn : Nat, maxUsn : Nat,
           lNewer : BOOLEAN, left : Lefts, sent : SUBSET Obj]

Typed ==
    /\ mem \in [Clients -> Collection] /\ disk \in [Clients -> Collection]
    /\ modified \in [Clients -> BOOLEAN]
    /\ session \in [Clients -> Session]
    /\ server \in Collection
    /\ remote \in {NoSession} \cup Remote
    /\ born \subseteq Obj
    /\ now \in Nat /\ ops \in Nat /\ fails \in Nat /\ uploads \in Nat

\* No clock is ahead.
Past(col) == (\A o \in Obj : col.rows[o].mod <= Seconds(now)) /\ col.scm <= now

-----------------------------------------------------------------------------
(* An object in a session, told from the client's file d and the server's  *)
(* collection s, as CollectionSync sees them.                              *)

\* The two rows once the deletions are exchanged.
Kept(d, s, o) ==
    IF \E g \in s.graves : g.obj = o /\ g.usn >= d.usn THEN P!Absent ELSE d.rows[o]
Held(d, s, o) ==
    IF [obj |-> o, usn |-> Unsent] \in d.graves THEN P!Absent ELSE s.rows[o]

Offered(d, s, o) == Held(d, s, o) # P!Absent /\ Held(d, s, o).usn >= d.usn

ClientTook(d, s, o) ==
    /\ Offered(d, s, o)
    /\ IF o \in Logs THEN Kept(d, s, o) = P!Absent
       ELSE o \in Small \/ IsUnsent(Kept(d, s, o)) =>
                P!Age(o, Kept(d, s, o)) < P!Age(o, Held(d, s, o))

ServerTook(d, s, o) ==
    /\ IsUnsent(Kept(d, s, o))
    /\ IF o \in Logs THEN Held(d, s, o) = P!Absent
       ELSE o \in Small \/ Offered(d, s, o) =>
                P!Age(o, Held(d, s, o)) < P!Age(o, Kept(d, s, o))

MarkedRow(row, s) == IF IsUnsent(row) THEN [row EXCEPT !.usn = s.usn] ELSE row

\* The client's row when the server's has arrived, and once its own is sent.
Fetched(d, s, o) ==
    IF ClientTook(d, s, o) THEN [Held(d, s, o) EXCEPT !.usn = s.usn] ELSE Kept(d, s, o)
ClientRow(d, s, o) ==
    IF ClientTook(d, s, o)
    THEN [Held(d, s, o) EXCEPT !.usn = IF o \in Small THEN @ ELSE s.usn]
    ELSE MarkedRow(Kept(d, s, o), s)
ServerRow(d, s, o) ==
    IF ServerTook(d, s, o) THEN MarkedRow(Kept(d, s, o), s) ELSE Held(d, s, o)

\* The graves of both sides once the deletions are exchanged.
ClientGraves(d, s) ==
    {[obj |-> g.obj, usn |-> IF g.usn = Unsent THEN s.usn ELSE g.usn] : g \in d.graves} \cup
    {[obj |-> o, usn |-> d.usn] : o \in {x \in Obj : \E g \in s.graves : g.obj = x /\ g.usn >= d.usn}}
ServerGraves(d, s) ==
    s.graves \cup
    {[obj |-> o, usn |-> s.usn] : o \in {x \in Obj : [obj |-> x, usn |-> Unsent] \in d.graves}}

WholeRows(d, s) ==
    \A o \in Obj : [obj |-> o, usn |-> Unsent] \in d.graves =>
        Kept(d, s, o) = P!Absent \/ IsUnsent(Kept(d, s, o))

-----------------------------------------------------------------------------
(* Where a session stands.  m and r are the rows the client and the server *)
(* hold.                                                                   *)

TableNames == {"revlog", "cards", "notes"}
IsLeft(left, t) == \E i \in DOMAIN left : left[i] = t
Table(o) == CASE o \in Logs -> "revlog" [] o \in Cards -> "cards" [] OTHER -> "notes"

StartedRow(m, r, d, s, o) == m = Kept(d, s, o) /\ r = Held(d, s, o)
ExchangedRow(m, r, d, s, o) == m = ClientRow(d, s, o) /\ r = ServerRow(d, s, o)

DownloadingRow(m, r, d, s, o, left, sent) ==
    /\ r = Held(d, s, o)
    /\ m = IF o \in sent THEN Fetched(d, s, o) ELSE Kept(d, s, o)
    /\ ~IsLeft(left, Table(o)) /\ Offered(d, s, o) => o \in sent

UploadingRow(m, r, d, s, o, left, sent) ==
    /\ r = IF o \in sent THEN ServerRow(d, s, o) ELSE Held(d, s, o)
    /\ m = IF IsLeft(left, Table(o)) THEN Fetched(d, s, o) ELSE ClientRow(d, s, o)
    /\ ~IsLeft(left, Table(o)) /\ IsUnsent(Fetched(d, s, o)) => o \in sent

RowInSession(c, o) ==
    LET m == Flat(mem[c]).rows[o]
        r == Flat(remote.col).rows[o]
        d == Flat(disk[c])
        s == Flat(server)
    IN  /\ In(c, "started") => StartedRow(m, r, d, s, o)
        /\ In(c, "downloading") =>
              IF o \in Small THEN ExchangedRow(m, r, d, s, o)
              ELSE DownloadingRow(m, r, d, s, o, remote.left, remote.sent)
        /\ In(c, "uploading") =>
              IF o \in Small THEN ExchangedRow(m, r, d, s, o)
              ELSE UploadingRow(m, r, d, s, o, session[c].left, session[c].sent)
        /\ In(c, "checking") \/ In(c, "checked") => ExchangedRow(m, r, d, s, o)

Open(c) == session[c].phase \in {"started", "downloading", "uploading", "checking", "checked"}
Busy(c) == In(c, "met") \/ Open(c)

\* Between syncs what is not on disk is an edit of decks, models or the col
\* row that Collection.save will write.
Resting(c) ==
    /\ P!LocalEdit(Flat(disk[c]), Flat(mem[c]))
    /\ \A o \in Obj \ Small : mem[c].rows[o] = disk[c].rows[o]
    /\ mem[c].graves = disk[c].graves
    /\ mem[c].scm = disk[c].scm \/ mem[c].scm # server.scm
    /\ ~modified[c] => mem[c] = disk[c]

Begun(c) ==
    /\ disk[c].scm = server.scm /\ mem[c].scm = server.scm
    /\ session[c].minUsn = disk[c].usn /\ session[c].maxUsn = server.usn
    /\ mem[c].usn = disk[c].usn
    /\ ~In(c, "uploading") => session[c].sent = {}

Opened(c) ==
    /\ remote # NoSession /\ remote.client = c
    /\ remote.minUsn = disk[c].usn /\ remote.maxUsn = server.usn
    /\ remote.col.scm = server.scm
    /\ In(c, "started") => remote.left = Tables /\ remote.sent = {}
    /\ Flat(mem[c]).graves = ClientGraves(Flat(disk[c]), Flat(server))
    /\ Flat(remote.col).graves = ServerGraves(Flat(disk[c]), Flat(server))
    /\ \A o \in Obj : RowInSession(c, o)
    /\ In(c, "checked") => WholeRows(Flat(disk[c]), Flat(server))

SessionOK(c) ==
    /\ In(c, "idle") => Resting(c)
    /\ ~In(c, "idle") => ~modified[c]
    /\ Busy(c) => Begun(c)
    /\ In(c, "met") => mem[c] = disk[c]
    /\ Open(c) => Opened(c)
    /\ In(c, "finishing") => mem[c].scm = disk[c].scm

IInv ==
    /\ Typed
    /\ \A c \in Clients : Past(disk[c]) /\ (~In(c, "clashed") => Past(mem[c]))
    /\ Past(server) /\ (remote # NoSession => Past(remote.col))
    /\ \A c, k \in Clients : Busy(c) /\ Busy(k) => c = k
    /\ remote # NoSession => \E c \in Clients : Open(c)
    /\ \A c \in Clients : SessionOK(c)
    /\ P!IInv
-----------------------------------------------------------------------------
(* Rows and collections.                                                   *)

LEMMA Constants ==
  /\ ChunkSize \in Nat \ {0} /\ Tick \in Nat \ {0} /\ IsFiniteSet(Obj)
  /\ Logs \subseteq Obj /\ Cards \subseteq Obj /\ Notes \subseteq Obj
  /\ Decks \subseteq Obj /\ Models \subseteq Obj /\ Small \subseteq Obj
  /\ Logs \cap Small = {}
  BY SyncerAssumption DEF SyncerAssumption, Obj, Small

\* The tables and the small objects are apart.
LEMMA Apart ==
  /\ Logs \cap Cards = {} /\ Logs \cap Notes = {} /\ Cards \cap Notes = {}
  /\ Small \cap Cards = {} /\ Small \cap Notes = {} /\ Small \cap Logs = {}
  BY SyncerAssumption DEF SyncerAssumption, Small

\* The clock of the rows does not go back.
LEMMA SecondsOK ==
  ASSUME NEW t \in Nat
  PROVE  Seconds(t) \in Nat /\ Seconds(t) <= Seconds(t + 1)
  BY Constants DEF Seconds

\* What CollectionSync sees of a row.
LEMMA FlatRow ==
  ASSUME NEW col \in Collection, NEW o \in Obj
  PROVE  /\ Flat(col).rows[o] = [mod |-> col.rows[o].mod, usn |-> col.rows[o].usn]
         /\ Flat(col).rows[o] \in P!Row
         /\ col.rows[o] \in Row
         /\ Has(col, o) <=> Flat(col).rows[o] # P!Absent
         /\ ~Has(col, o) => col.rows[o].mod = -1 /\ col.rows[o].usn = 0
         /\ Has(col, o) => col.rows[o].mod \in Nat
<1>1. col.rows[o] \in Row
  BY DEF Collection
<1>2. Flat(col).rows[o] = [mod |-> col.rows[o].mod, usn |-> col.rows[o].usn]
  BY DEF Flat
<1>3. CASE col.rows[o] = Absent
  BY <1>2, <1>3 DEF Absent, Has, P!Absent, P!Row, Row
<1>4. CASE col.rows[o] \in [mod : Nat, by : Stamps, shape : {0, 1}, usn : Nat \cup {Unsent}]
  BY <1>2, <1>4 DEF Absent, Has, P!Absent, P!Row, Row, P!Unsent, Unsent
<1>5. QED
  BY <1>1, <1>2, <1>3, <1>4 DEF Row

LEMMA FlatGraves ==
  ASSUME NEW col \in Collection
  PROVE  /\ Flat(col).graves \subseteq Grave
         /\ \A g : g \in Flat(col).graves <=> \E i \in DOMAIN col.graves : col.graves[i] = g
<1>1. \A i \in DOMAIN col.graves : col.graves[i] \in Grave
  BY DEF Collection
<1>2. QED
  BY <1>1 DEF Flat

LEMMA FlatOK ==
  ASSUME NEW col \in Collection
  PROVE  Flat(col) \in P!Collection /\ Flat(col).usn = col.usn
<1>1. Flat(col).rows \in [Obj -> P!Row]
  BY FlatRow DEF Flat
<1>2. Flat(col).graves \in SUBSET P!Grave
  BY FlatGraves DEF Grave, P!Grave, Unsent, P!Unsent
<1>3. Flat(col).usn = col.usn /\ col.usn \in Nat
  BY DEF Flat, Collection
<1>4. Flat(col) = [rows |-> Flat(col).rows, graves |-> Flat(col).graves, usn |-> Flat(col).usn]
  BY DEF Flat
<1>5. QED
  BY <1>1, <1>2, <1>3, <1>4 DEF P!Collection

\* A row that is stamped, marked or packed is a row.
LEMMA RowOps ==
  ASSUME NEW r \in Row, NEW u \in Nat, NEW t \in Nat, NEW c \in Clients
  PROVE  /\ [r EXCEPT !.mod = t, !.by = c, !.usn = Unsent] \in Row
         /\ r # Absent => [r EXCEPT !.usn = u] \in Row /\ [r EXCEPT !.shape = 1] \in Row
         /\ [r EXCEPT !.usn = u].mod = r.mod /\ [r EXCEPT !.usn = u].usn = u
         /\ IsUnsent(r) => r # Absent
         /\ r.mod \in Int /\ r.usn \in Int
         /\ [First EXCEPT !.usn = Unsent] \in Row
<1>1. [First EXCEPT !.usn = Unsent] \in Row
  BY DEF First, Row, Unsent, Stamps
<1>2. c \in Stamps
  BY DEF Stamps
<1>3. r \in RowType
  BY DEF Row, RowType, Absent, Stamps, Unsent
<1>4. [r EXCEPT !.mod = t, !.by = c, !.usn = Unsent] \in Row
  BY <1>2, <1>3 DEF RowType, Row, Unsent
<1>5. CASE r = Absent
  BY <1>1, <1>3, <1>4, <1>5 DEF RowType, Absent, IsUnsent, Unsent
<1>6. CASE r \in [mod : Nat, by : Stamps, shape : {0, 1}, usn : Nat \cup {Unsent}]
  <2>1. r # Absent
    BY <1>6 DEF Absent
  <2>2. [r EXCEPT !.usn = u] \in Row /\ [r EXCEPT !.shape = 1] \in Row
    BY <1>6 DEF Row, Unsent
  <2>3. QED
    BY <1>1, <1>4, <1>6, <2>1, <2>2 DEF Unsent
<1>7. QED
  BY <1>5, <1>6 DEF Row

RowsIn(received, S) == \A o \in S \cap Obj : received[o] \in Row

LEMMA TakeOK ==
  ASSUME NEW col \in Collection, NEW received, NEW S, RowsIn(received, S)
  PROVE  /\ Take(col, received, S) \in Collection
         /\ Take(col, received, S) = [col EXCEPT !.rows = Take(col, received, S).rows]
         /\ \A o \in Obj : Take(col, received, S).rows[o] =
                              IF o \in S THEN received[o] ELSE col.rows[o]
  BY DEF Take, Collection, RowsIn

LEMMA WriteOK ==
  ASSUME NEW col \in Collection, NEW c \in Clients, NEW S, now' \in Nat
  PROVE  LET new == Write(col, c, S)
         IN  /\ new \in Collection
             /\ new.conf = col.conf /\ new.mod = col.mod /\ new.scm = col.scm /\ new.usn = col.usn
             /\ new.graves = col.graves
             /\ \A o \in Obj : new.rows[o] = IF o \in S THEN Stamp(c, col.rows[o]) ELSE col.rows[o]
             /\ \A o \in Obj \cap S : new.rows[o].mod = Seconds(now') /\ new.rows[o].usn = Unsent
<1> DEFINE rows == [o \in Obj |-> IF o \in S THEN Stamp(c, col.rows[o]) ELSE col.rows[o]]
<1>1. Seconds(now') \in Nat
  BY SecondsOK
<1>2. \A o \in Obj : col.rows[o] \in Row
  BY DEF Collection
<1>3. \A o \in Obj : /\ Stamp(c, col.rows[o]) \in Row
                     /\ Stamp(c, col.rows[o]).mod = Seconds(now')
                     /\ Stamp(c, col.rows[o]).usn = Unsent
  <2> SUFFICES ASSUME NEW o \in Obj
               PROVE  /\ Stamp(c, col.rows[o]) \in Row
                      /\ Stamp(c, col.rows[o]).mod = Seconds(now')
                      /\ Stamp(c, col.rows[o]).usn = Unsent
    OBVIOUS
  <2>1. Stamp(c, col.rows[o]) \in Row
    BY <1>1, <1>2, RowOps DEF Stamp
  <2>2. col.rows[o] \in RowType
    BY <1>2 DEF Row, RowType, Absent, Stamps, Unsent
  <2>3. QED
    BY <2>1, <2>2 DEF Stamp, RowType
<1>4. rows \in [Obj -> Row]
  BY <1>2, <1>3
<1> DEFINE new == [col EXCEPT !.rows = rows]
<1>5. Write(col, c, S) = new
  BY DEF Write
<1>6. /\ new \in Collection /\ new.rows = rows /\ new.graves = col.graves
      /\ new.conf = col.conf /\ new.mod = col.mod /\ new.scm = col.scm /\ new.usn = col.usn
  BY <1>4 DEF Collection
<1>7. QED
  BY <1>3, <1>5, <1>6

\* The log of deletions grows by the ids; nothing else is removed.
LEMMA RemoveOK ==
  ASSUME NEW col \in Collection, NEW ids \in Seq(Obj), NEW usn \in Nat \cup {Unsent}
  PROVE  LET new == Remove(col, ids, usn)
         IN  /\ new \in Collection
             /\ new.conf = col.conf /\ new.mod = col.mod /\ new.scm = col.scm /\ new.usn = col.usn
             /\ \A o \in Obj : new.rows[o] = IF \E i \in DOMAIN ids : ids[i] = o THEN Absent
                                            ELSE col.rows[o]
             /\ \A g : g \in Flat(new).graves <=>
                   \/ g \in Flat(col).graves
                   \/ \E i \in DOMAIN ids : g = [obj |-> ids[i], usn |-> usn]
<1> DEFINE rows == [o \in Obj |-> IF \E i \in DOMAIN ids : ids[i] = o THEN Absent ELSE col.rows[o]]
           more == [i \in DOMAIN ids |-> [obj |-> ids[i], usn |-> usn]]
           new == [col EXCEPT !.rows = rows, !.graves = col.graves \o more]
<1>1. new = Remove(col, ids, usn)
  BY DEF Remove
<1>2. rows \in [Obj -> Row]
  BY DEF Collection, Row
<1>3. more \in Seq(Grave) /\ Len(more) = Len(ids) /\ DOMAIN more = DOMAIN ids
  <2>1. Len(ids) \in Nat /\ DOMAIN ids = 1 .. Len(ids)
    OBVIOUS
  <2>2. \A i \in 1 .. Len(ids) : [obj |-> ids[i], usn |-> usn] \in Grave
    BY DEF Grave
  <2>3. [i \in 1 .. Len(ids) |-> [obj |-> ids[i], usn |-> usn]] \in Seq(Grave)
    BY <2>1, <2>2
  <2>4. QED
    BY <2>1, <2>3
<1>4. col.graves \in Seq(Grave)
  BY DEF Collection
<1> HIDE DEF more, rows
<1>5. col.graves \o more \in Seq(Grave)
  BY <1>3, <1>4
<1>6. /\ new \in Collection /\ new.rows = rows /\ new.graves = col.graves \o more
      /\ new.conf = col.conf /\ new.mod = col.mod /\ new.scm = col.scm /\ new.usn = col.usn
  BY <1>2, <1>5 DEF Collection
<1>7. \A g : (\E i \in DOMAIN new.graves : new.graves[i] = g) <=>
                \/ \E i \in DOMAIN col.graves : col.graves[i] = g
                \/ \E i \in DOMAIN more : more[i] = g
  <2>1. \A i \in DOMAIN col.graves :
           i \in DOMAIN (col.graves \o more) /\ (col.graves \o more)[i] = col.graves[i]
    BY <1>3, <1>4
  <2>2. \A i \in DOMAIN more :
           /\ Len(col.graves) + i \in DOMAIN (col.graves \o more)
           /\ (col.graves \o more)[Len(col.graves) + i] = more[i]
    BY <1>3, <1>4
  <2>3. \A i \in DOMAIN (col.graves \o more) :
           \/ i \in DOMAIN col.graves /\ (col.graves \o more)[i] = col.graves[i]
           \/ i - Len(col.graves) \in DOMAIN more
              /\ (col.graves \o more)[i] = more[i - Len(col.graves)]
    BY <1>3, <1>4
  <2>4. QED
    BY <1>6, <2>1, <2>2, <2>3
<1>8. \A g : g \in Flat(new).graves <=>
                g \in Flat(col).graves \/ \E i \in DOMAIN ids : g = [obj |-> ids[i], usn |-> usn]
  <2>1. \A g : (\E i \in DOMAIN more : more[i] = g) <=>
                  \E i \in DOMAIN ids : g = [obj |-> ids[i], usn |-> usn]
    BY DEF more
  <2>2. \A g : g \in Flat(new).graves <=> \E i \in DOMAIN new.graves : new.graves[i] = g
    BY <1>6, FlatGraves
  <2>3. \A g : g \in Flat(col).graves <=> \E i \in DOMAIN col.graves : col.graves[i] = g
    BY FlatGraves
  <2> HIDE DEF new
  <2>4. QED
    BY <1>7, <2>1, <2>2, <2>3
<1>9. \A o \in Obj : new.rows[o] = IF \E i \in DOMAIN ids : ids[i] = o THEN Absent
                                  ELSE col.rows[o]
  BY <1>6 DEF rows
<1> HIDE DEF new
<1>10. QED
  BY <1>1, <1>6, <1>8, <1>9

\* Whatever order the database lists them in, the ids of the chosen graves are
\* all listed, and no others.
LEMMA IdsOK ==
  ASSUME NEW graves \in Seq(Grave), NEW places \in SUBSET DOMAIN graves
  PROVE  /\ Ids(graves, places) \in Seq(Obj)
         /\ \A o : (\E n \in DOMAIN Ids(graves, places) : Ids(graves, places)[n] = o)
                   <=> \E i \in places : graves[i].obj = o
<1> DEFINE count == Cardinality(places)
           Lists(f) == \A i \in places : \E n \in DOMAIN f : f[n] = i
           nth == CHOOSE f \in [1 .. count -> places] : Lists(f)
<1>1. IsFiniteSet(places)
  <2>1. Len(graves) \in Nat /\ DOMAIN graves = 1 .. Len(graves)
    OBVIOUS
  <2>2. IsFiniteSet(1 .. Len(graves))
    BY <2>1, FS_Interval
  <2>3. QED
    BY <2>1, <2>2, FS_Subset
<1>2. count \in Nat /\ \E f \in [1 .. count -> places] : Lists(f)
  <2>1. count \in Nat /\ ExistsBijection(1 .. count, places)
    BY <1>1, FS_CardinalityType
  <2>2. QED
    BY <2>1 DEF ExistsBijection, Bijection, Surjection, Injection
<1>3. nth \in [1 .. count -> places] /\ Lists(nth)
  BY <1>2
<1>4. Ids(graves, places) = [n \in DOMAIN nth |-> graves[nth[n]].obj]
  BY DEF Ids
<1> HIDE DEF nth
<1>5. \A n \in 1 .. count : nth[n] \in places /\ graves[nth[n]] \in Grave
  BY <1>3
<1>6. [n \in 1 .. count |-> graves[nth[n]].obj] \in Seq(Obj)
  BY <1>2, <1>5 DEF Grave
<1>7. QED
  BY <1>3, <1>4, <1>5, <1>6

-----------------------------------------------------------------------------
(* An exchange, here and in CollectionSync.                                *)

LEMMA SameMerge ==
  ASSUME NEW d, NEW o \in Obj
  PROVE  /\ P!Mine(d, o) = Kept(d, Flat(server), o)
         /\ P!Theirs(d, o) = Held(d, Flat(server), o)
         /\ P!ClientTakes(d, o) <=> ClientTook(d, Flat(server), o)
         /\ P!ServerTakes(d, o) <=> ServerTook(d, Flat(server), o)
<1>1. P!Mine(d, o) = Kept(d, Flat(server), o)
  BY DEF P!Mine, P!NewGrave, Kept
<1>2. P!Theirs(d, o) = Held(d, Flat(server), o)
  BY DEF P!Theirs, P!UnsentGrave, P!Unsent, Unsent, Held
<1> USE DEF P!Sent, P!Offered, P!Unsent, Unsent, IsUnsent, Offered
<1>3. P!ClientTakes(d, o) <=> ClientTook(d, Flat(server), o)
  BY <1>1, <1>2, Zenon DEF P!ClientTakes, ClientTook
<1>4. P!ServerTakes(d, o) <=> ServerTook(d, Flat(server), o)
  BY <1>1, <1>2, Zenon DEF P!ServerTakes, ServerTook
<1>5. QED
  BY <1>1, <1>2, <1>3, <1>4

LEMMA SameExchange ==
  ASSUME NEW d
  PROVE  /\ P!ClientAfter(d) = [rows |-> [o \in Obj |-> ClientRow(d, Flat(server), o)],
                                graves |-> ClientGraves(d, Flat(server)),
                                usn |-> Flat(server).usn + 1]
         /\ P!ServerAfter(d) = [rows |-> [o \in Obj |-> ServerRow(d, Flat(server), o)],
                                graves |-> ServerGraves(d, Flat(server)),
                                usn |-> Flat(server).usn + 1]
         /\ P!Whole(d) <=> WholeRows(d, Flat(server))
<1> DEFINE s == Flat(server)
<1>1. \A row : P!Marked(row) = MarkedRow(row, s)
  BY DEF P!Marked, P!Sent, P!Unsent, Unsent, IsUnsent, MarkedRow
<1>2. P!ClientAfter(d).graves = ClientGraves(d, s)
  BY DEF P!ClientAfter, P!NewGrave, P!Unsent, Unsent, ClientGraves
<1>3. P!ServerAfter(d).graves = ServerGraves(d, s)
  BY DEF P!ServerAfter, P!UnsentGrave, P!Unsent, Unsent, ServerGraves
<1>4. [o \in Obj |-> IF P!ClientTakes(d, o)
                     THEN [P!Theirs(d, o) EXCEPT !.usn = IF o \in Small THEN @ ELSE s.usn]
                     ELSE P!Marked(P!Mine(d, o))]
         = [o \in Obj |-> ClientRow(d, s, o)]
  BY <1>1, SameMerge DEF ClientRow
<1>5. [o \in Obj |-> IF P!ServerTakes(d, o) THEN P!Marked(P!Mine(d, o)) ELSE P!Theirs(d, o)]
         = [o \in Obj |-> ServerRow(d, s, o)]
  BY <1>1, SameMerge DEF ServerRow
<1>6. P!Whole(d) <=> WholeRows(d, s)
  BY SameMerge DEF P!Whole, WholeRows, P!UnsentGrave, P!Unsent, Unsent, P!Sent, IsUnsent
<1>7. QED
  BY <1>2, <1>3, <1>4, <1>5, <1>6 DEF P!ClientAfter, P!ServerAfter

-----------------------------------------------------------------------------
(* What a step of the sync looks like from CollectionSync.                 *)

Owed(c) == IF In(c, "finishing") THEN Flat(Committed(c))
           ELSE [rows |-> <<>>, graves |-> {}, usn |-> -1]

\* A session that is in its last phase stays as it is.
KeepsOwed(k) == UNCHANGED session[k] /\ (In(k, "finishing") => UNCHANGED mem[k])

LEMMA SameOwed ==
  ASSUME NEW k \in Clients, KeepsOwed(k)
  PROVE  Owed(k)' = Owed(k) /\ (In(k, "finishing")' <=> In(k, "finishing"))
  BY DEF KeepsOwed, Owed, In, Committed

LEMMA NotOwed ==
  ASSUME NEW k \in Clients, ~In(k, "finishing")
  PROVE  Owed(k) = P!Nothing
  BY DEF Owed, P!Nothing

\* No step of CollectionSync, when neither file nor server change.
LEMMA Unseen ==
  ASSUME UNCHANGED <<disk, server>>, \A k \in Clients : Owed(k)' = Owed(k)
  PROVE  UNCHANGED P!vars
<1>1. [k \in Clients |-> Owed(k)]' = [k \in Clients |-> Owed(k)]
  OBVIOUS
<1>2. QED
  BY <1>1 DEF P!vars, Owed

\* A client that owes nothing writes its file.
LEMMA FileWritten ==
  ASSUME Typed, NEW c \in Clients, NEW new,
         Owed(c) = P!Nothing, \A k \in Clients : Owed(k)' = Owed(k),
         disk' = [disk EXCEPT ![c] = new], UNCHANGED server,
         P!LocalEdit(Flat(disk[c]), Flat(new)),
         new.scm = disk[c].scm \/ new.scm # server.scm
  PROVE  P!Edit(c)
<1> DEFINE file == [k \in Clients |-> Flat(disk[k])]
           owed == [k \in Clients |-> Owed(k)]
           compatible == {k \in Clients : disk[k].scm = server.scm}
<1>1. disk'[c] = new /\ \A k \in Clients \ {c} : disk'[k] = disk[k]
  BY DEF Typed
<1>2. file' = [file EXCEPT ![c] = Flat(new)]
  <2>1. \A k \in Clients : Flat(disk'[k]) = IF k = c THEN Flat(new) ELSE Flat(disk[k])
    BY <1>1
  <2>2. file' = [k \in Clients |-> Flat(disk'[k])]
    OBVIOUS
  <2>3. QED
    BY <2>1, <2>2
<1>3. compatible' \in {compatible, compatible \ {c}}
  BY <1>1
<1>4. owed' = owed /\ owed[c] = P!Nothing
  OBVIOUS
<1>5. file'[c] = Flat(new) /\ file[c] = Flat(disk[c])
  BY <1>2
<1>6. Flat(server)' = Flat(server)
  OBVIOUS
<1>7. /\ owed[c] = P!Nothing
      /\ \E x \in {file'[c]} : P!LocalEdit(file[c], x) /\ file' = [file EXCEPT ![c] = x]
      /\ compatible' \in {compatible, compatible \ {c}}
      /\ UNCHANGED <<Flat(server), owed>>
  BY <1>2, <1>3, <1>4, <1>5, <1>6
<1>8. QED
  BY <1>7, Zenon DEF P!Edit, Owed

LEMMA ServerCommitted ==
  ASSUME Typed, NEW c \in Clients, UNCHANGED disk,
         disk[c].scm = server.scm, server'.scm = server.scm,
         WholeRows(Flat(disk[c]), Flat(server)),
         Owed(c) = P!Nothing, \A k \in Clients \ {c} : Owed(k)' = Owed(k),
         Flat(server') = P!ServerAfter(Flat(disk[c])),
         Owed(c)' = P!ClientAfter(Flat(disk[c]))
  PROVE  P!ServerCommits(c)
<1> DEFINE file == [k \in Clients |-> Flat(disk[k])]
           owed == [k \in Clients |-> Owed(k)]
           compatible == {k \in Clients : disk[k].scm = server.scm}
<1>1. c \in compatible /\ compatible' = compatible /\ file' = file
  OBVIOUS
<1>2. P!Whole(file[c])
  BY SameExchange
<1>3. Flat(server)' = P!ServerAfter(file[c]) /\ owed[c] = P!Nothing
  OBVIOUS
<1>4. owed' = [owed EXCEPT ![c] = P!ClientAfter(file[c])]
  OBVIOUS
<1>5. QED
  BY <1>1, <1>2, <1>3, <1>4 DEF P!ServerCommits, Owed

LEMMA ClientCommitted ==
  ASSUME Typed, NEW c \in Clients, NEW new,
         In(c, "finishing"), ~In(c, "finishing")',
         \A k \in Clients \ {c} : Owed(k)' = Owed(k),
         disk' = [disk EXCEPT ![c] = new], UNCHANGED server,
         Flat(new) = Owed(c), new.scm = disk[c].scm
  PROVE  P!ClientCommits(c)
<1> DEFINE file == [k \in Clients |-> Flat(disk[k])]
           owed == [k \in Clients |-> Owed(k)]
           compatible == {k \in Clients : disk[k].scm = server.scm}
<1>1. disk'[c] = new /\ \A k \in Clients \ {c} : disk'[k] = disk[k]
  BY DEF Typed
<1>2. file' = [file EXCEPT ![c] = owed[c]]
  <2>1. \A k \in Clients : Flat(disk'[k]) = IF k = c THEN owed[c] ELSE Flat(disk[k])
    BY <1>1
  <2>2. file' = [k \in Clients |-> Flat(disk'[k])]
    OBVIOUS
  <2>3. QED
    BY <2>1, <2>2
<1>3. compatible' = compatible /\ Flat(server)' = Flat(server)
  BY <1>1
<1>4. owed[c] # P!Nothing
  <2>1. owed[c].usn = session[c].maxUsn + 1
    BY DEF Owed, Flat, Committed, Typed, Collection
  <2>2. session[c].maxUsn + 1 # -1
    BY DEF Typed, Session
  <2>3. QED
    BY <2>1, <2>2 DEF P!Nothing
<1>5. Owed(c)' = P!Nothing
  BY DEF Owed, P!Nothing
<1>6. owed' = [owed EXCEPT ![c] = P!Nothing]
  BY <1>5
<1>7. QED
  BY <1>2, <1>3, <1>4, <1>6 DEF P!ClientCommits, Owed

LEMMA ClientDropped ==
  ASSUME Typed, NEW c \in Clients, In(c, "finishing"), ~In(c, "finishing")',
         \A k \in Clients \ {c} : Owed(k)' = Owed(k), UNCHANGED <<disk, server>>
  PROVE  P!ClientDrops(c)
<1> DEFINE owed == [k \in Clients |-> Owed(k)]
<1>1. owed[c] # P!Nothing
  <2>1. owed[c].usn = session[c].maxUsn + 1
    BY DEF Owed, Flat, Committed, Typed, Collection
  <2>2. session[c].maxUsn + 1 # -1
    BY DEF Typed, Session
  <2>3. QED
    BY <2>1, <2>2 DEF P!Nothing
<1>2. Owed(c)' = P!Nothing
  BY DEF Owed, P!Nothing
<1>3. owed' = [owed EXCEPT ![c] = P!Nothing]
  BY <1>2
<1>4. QED
  BY <1>1, <1>3 DEF P!ClientDrops, Owed

LEMMA FullyUploaded ==
  ASSUME Typed, NEW c \in Clients, NEW new,
         Owed(c) = P!Nothing, \A k \in Clients : Owed(k)' = Owed(k),
         disk' = [disk EXCEPT ![c] = new], Flat(new) = P!Prepared(Flat(disk[c])),
         new.scm # server.scm, \A k \in Clients \ {c} : disk[k].scm # new.scm,
         server' = server \/ server' = new
  PROVE  P!UploadAll(c)
<1> DEFINE file == [k \in Clients |-> Flat(disk[k])]
           owed == [k \in Clients |-> Owed(k)]
           compatible == {k \in Clients : disk[k].scm = server.scm}
<1>1. disk'[c] = new /\ \A k \in Clients \ {c} : disk'[k] = disk[k]
  BY DEF Typed
<1>2. file' = [file EXCEPT ![c] = P!Prepared(file[c])]
  <2>1. \A k \in Clients : Flat(disk'[k]) = IF k = c THEN P!Prepared(file[c]) ELSE Flat(disk[k])
    BY <1>1
  <2>2. file' = [k \in Clients |-> Flat(disk'[k])]
    OBVIOUS
  <2>3. QED
    BY <2>1, <2>2
<1>3. owed[c] = P!Nothing /\ UNCHANGED owed
  OBVIOUS
<1>4. CASE server' = server
  <2>1. compatible' = compatible \ {c} /\ UNCHANGED Flat(server)
    BY <1>1, <1>4
  <2>2. QED
    BY <1>2, <1>3, <2>1 DEF P!UploadAll, Owed
<1>5. CASE server' = new
  <2>1. compatible' = {c}
    BY <1>1, <1>5
  <2>2. Flat(server)' = P!Prepared(file[c])
    BY <1>5
  <2>3. QED
    BY <1>2, <1>3, <2>1, <2>2 DEF P!UploadAll, Owed
<1>6. QED
  BY <1>4, <1>5

LEMMA FullyDownloaded ==
  ASSUME Typed, NEW c \in Clients,
         Owed(c) = P!Nothing, \A k \in Clients : Owed(k)' = Owed(k),
         disk' = [disk EXCEPT ![c] = server], UNCHANGED server
  PROVE  P!DownloadAll(c)
<1> DEFINE file == [k \in Clients |-> Flat(disk[k])]
           owed == [k \in Clients |-> Owed(k)]
           compatible == {k \in Clients : disk[k].scm = server.scm}
<1>1. disk'[c] = server /\ \A k \in Clients \ {c} : disk'[k] = disk[k]
  BY DEF Typed
<1>2. file' = [file EXCEPT ![c] = Flat(server)]
  <2>1. \A k \in Clients : Flat(disk'[k]) = IF k = c THEN Flat(server) ELSE Flat(disk[k])
    BY <1>1
  <2>2. file' = [k \in Clients |-> Flat(disk'[k])]
    OBVIOUS
  <2>3. QED
    BY <2>1, <2>2
<1>3. compatible' = compatible \cup {c} /\ UNCHANGED Flat(server)
  BY <1>1
<1>4. owed[c] = P!Nothing /\ UNCHANGED owed
  OBVIOUS
<1>5. QED
  BY <1>2, <1>3, <1>4 DEF P!DownloadAll, Owed

-----------------------------------------------------------------------------
(* What a step of one client leaves alone.                                 *)

LEMMA PastLater ==
  ASSUME NEW col \in Collection, Past(col), now \in Nat, now' = now \/ now' = now + 1
  PROVE  /\ \A o \in Obj : col.rows[o].mod <= Seconds(now')
         /\ col.scm <= now'
<1>1. Seconds(now) \in Nat /\ Seconds(now') \in Nat /\ Seconds(now) <= Seconds(now')
  BY SecondsOK
<1>2. \A o \in Obj : col.rows[o].mod \in Int
  <2> SUFFICES ASSUME NEW o \in Obj PROVE col.rows[o].mod \in Int
    OBVIOUS
  <2>1. col.rows[o] \in Row
    BY DEF Collection
  <2>2. QED
    BY <2>1 DEF Row, Absent
<1>3. col.scm \in Nat
  BY DEF Collection
<1>4. QED
  BY <1>1, <1>2, <1>3 DEF Past

LEMMA OtherSession ==
  ASSUME NEW k \in Clients, SessionOK(k),
         UNCHANGED <<mem[k], disk[k], session[k], modified[k]>>,
         Busy(k) => UNCHANGED <<server, remote>>,
         server'.scm = server.scm \/ (~In(k, "clashed") => mem[k].scm # server'.scm)
  PROVE  SessionOK(k)'
<1>1. \A phase : In(k, phase)' <=> In(k, phase)
  BY DEF In
<1>2. Open(k)' <=> Open(k)
  BY DEF Open
<1>3. Busy(k)' <=> Busy(k)
  BY <1>1, <1>2 DEF Busy
<1>4. In(k, "idle") /\ Resting(k) => Resting(k)'
  BY DEF Resting, In
<1>5. Busy(k) /\ Begun(k) => Begun(k)'
  BY <1>1 DEF Begun
<1>6. Open(k) /\ Opened(k) => Opened(k)'
  <2> SUFFICES ASSUME Open(k), Opened(k) PROVE Opened(k)'
    OBVIOUS
  <2>1. UNCHANGED <<server, remote>>
    BY DEF Busy
  <2>2. \A o \in Obj : RowInSession(k, o)'
    BY <1>1, <2>1 DEF Opened, RowInSession
  <2>3. QED
    BY <1>1, <2>1, <2>2 DEF Opened
<1>7. QED
  BY <1>1, <1>2, <1>3, <1>4, <1>5, <1>6 DEF SessionOK, Busy

\* Nothing of the other clients changes.
OthersKeep(c) == \A k \in Clients \ {c} : UNCHANGED <<mem[k], disk[k], session[k], modified[k]>>

\* The step keeps the invariant, and CollectionSync takes the same step or none.
Follows == IInv' /\ (P!Next \/ UNCHANGED P!vars)

\* A step of one client: what is left to show is about this client alone, and
\* that CollectionSync can follow.
LEMMA StepOK ==
  ASSUME IInv, NEW c \in Clients, Typed', OthersKeep(c),
         \A k \in Clients \ {c} : Busy(k) => UNCHANGED <<server, remote>>,
         now' = now \/ now' = now + 1,
         Past(disk[c])', ~In(c, "clashed")' => Past(mem[c])',
         Past(server)', remote' # NoSession => Past(remote.col)',
         server'.scm = server.scm \/ server'.scm = now + 1,
         Busy(c)' => Busy(c) \/ \A k \in Clients : ~Busy(k),
         remote' # NoSession => Open(c)' \/ (remote' = remote /\ ~Open(c)),
         SessionOK(c)', P!Next \/ UNCHANGED P!vars
  PROVE  Follows
<1>1. \A k \in Clients \ {c} : Busy(k)' = Busy(k) /\ Open(k)' = Open(k) /\ In(k, "clashed")' = In(k, "clashed")
  BY DEF OthersKeep, Busy, Open, In
<1>2. ASSUME NEW k \in Clients PROVE Past(disk[k])' /\ (~In(k, "clashed")' => Past(mem[k])')
  <2>1. CASE k = c
    BY <2>1
  <2>2. CASE k # c
    <3>1. disk[k] \in Collection /\ mem[k] \in Collection /\ now \in Nat
      BY DEF IInv, Typed
    <3>2. Past(disk[k]) /\ (~In(k, "clashed") => Past(mem[k]))
      BY DEF IInv
    <3>3. disk'[k] = disk[k] /\ mem'[k] = mem[k]
      BY <2>2 DEF OthersKeep
    <3>4. Past(disk[k])'
      BY <3>1, <3>2, <3>3, PastLater DEF Past
    <3>5. ~In(k, "clashed")' => Past(mem[k])'
      BY <1>1, <2>2, <3>1, <3>2, <3>3, PastLater DEF Past
    <3>6. QED
      BY <3>4, <3>5
  <2>3. QED
    BY <2>1, <2>2
<1>3. \A k, j \in Clients : Busy(k)' /\ Busy(j)' => k = j
  BY <1>1 DEF IInv
<1>4. remote' # NoSession => \E k \in Clients : Open(k)'
  BY <1>1 DEF IInv
<1>5. ASSUME NEW k \in Clients PROVE SessionOK(k)'
  <2>1. CASE k = c
    BY <2>1
  <2>2. CASE k # c
    <3>1. ~In(k, "clashed") => mem[k].scm # now + 1
      <4>1. mem[k] \in Collection /\ now \in Nat
        BY DEF IInv, Typed
      <4>2. ~In(k, "clashed") => mem[k].scm <= now
        BY DEF IInv, Past
      <4>3. QED
        BY <4>1, <4>2 DEF Collection
    <3>2. QED
      BY <2>2, <3>1, OtherSession DEF OthersKeep, IInv
  <2>3. QED
    BY <2>1, <2>2
<1>6. P!IInv'
  BY P!StepIInv DEF IInv
<1>7. QED
  BY <1>2, <1>3, <1>4, <1>5, <1>6 DEF IInv, Follows

-----------------------------------------------------------------------------
(* What users do.                                                          *)

LEMMA UserStep ==
  ASSUME IInv, NEW c \in Clients, UserAct(c), born' \subseteq Obj,
         NEW d \in Collection, NEW m \in Collection,
         disk' = [disk EXCEPT ![c] = d], mem' = [mem EXCEPT ![c] = m],
         P!LocalEdit(Flat(disk[c]), Flat(d)), P!LocalEdit(Flat(d), Flat(m)),
         m.graves = d.graves, \A o \in Obj \ Small : m.rows[o] = d.rows[o],
         d.scm = disk[c].scm, m.scm \in {mem[c].scm, now'}, Past(d)', Past(m)'
  PROVE  Follows
<1>1. Typed
  BY DEF IInv
<1>2. /\ mem'[c] = m /\ disk'[c] = d /\ modified'[c] = TRUE /\ session' = session
      /\ server' = server /\ remote' = remote /\ In(c, "idle") /\ now' = now + 1
  BY <1>1 DEF UserAct, Typed
<1>3. Typed'
  BY <1>1 DEF Typed, UserAct
<1>4. OthersKeep(c)
  BY <1>1 DEF OthersKeep, UserAct, Typed
<1>5. \A k \in Clients : In(k, "idle")' = In(k, "idle") /\ Busy(k)' = Busy(k) /\ Open(k)' = Open(k)
  BY <1>2 DEF In, Busy, Open
<1>6. Past(server)' /\ (remote' # NoSession => Past(remote.col)')
  <2>1. server \in Collection /\ (remote # NoSession => remote.col \in Collection)
    BY <1>1 DEF Typed, Remote
  <2>2. Past(server) /\ (remote # NoSession => Past(remote.col)) /\ now \in Nat
    BY <1>1 DEF IInv, Typed
  <2>3. QED
    BY <1>2, <2>1, <2>2, PastLater DEF Past
<1>7. SessionOK(c)'
  <2>1. ~Busy(c)' /\ ~Open(c)' /\ ~In(c, "finishing")' /\ ~In(c, "met")' /\ In(c, "idle")'
    BY <1>2 DEF Busy, Open, In
  <2>2. mem'[c].scm = disk'[c].scm \/ mem'[c].scm # server'.scm
    <3>1. server \in Collection /\ server.scm <= now /\ now \in Nat
      BY <1>1 DEF IInv, Typed, Past
    <3>2. now' # server.scm
      BY <1>2, <3>1 DEF Collection
    <3>3. mem[c].scm = disk[c].scm \/ mem[c].scm # server.scm
      BY <1>2 DEF IInv, SessionOK, Resting
    <3>4. QED
      BY <1>2, <3>2, <3>3
  <2>4. Resting(c)'
    BY <1>2, <2>2 DEF Resting
  <2>3. QED
    BY <2>1, <2>4 DEF SessionOK
<1>8. P!Next
  <2>1. \A k \in Clients : Owed(k)' = Owed(k)
    <3>1. \A k \in Clients : KeepsOwed(k)
      BY <1>1, <1>2 DEF KeepsOwed, In, Typed
    <3>2. QED
      BY <3>1, SameOwed
  <2>2. Owed(c) = P!Nothing
    BY <1>2, NotOwed DEF In
  <2>3. P!Edit(c)
    BY <1>1, <1>2, <2>1, <2>2, FileWritten
  <2>4. QED
    BY <2>3 DEF P!Next
<1>9. Past(disk[c])' /\ Past(mem[c])'
  BY <1>2 DEF Past
<1>10. /\ \A k \in Clients \ {c} : Busy(k) => UNCHANGED <<server, remote>>
       /\ Busy(c)' => Busy(c) \/ \A k \in Clients : ~Busy(k)
       /\ remote' # NoSession => Open(c)' \/ (remote' = remote /\ ~Open(c))
  BY <1>2, <1>5 DEF Open, In
<1>11. QED
  BY <1>2, <1>3, <1>4, <1>6, <1>7, <1>8, <1>9, <1>10, StepOK

\* A row that was written by hand.
Rewritten(new, old, o, t) ==
    /\ new.rows[o].usn = Unsent
    /\ old.rows[o].mod <= new.rows[o].mod /\ 0 <= new.rows[o].mod
    /\ new.rows[o].mod <= t
    /\ o \in Logs => new.rows[o].mod = 0

Buried(new, o) == new.rows[o] = Absent /\ [obj |-> o, usn |-> Unsent] \in Flat(new).graves

LEMMA EditedFlat ==
  ASSUME NEW old \in Collection, NEW new \in Collection, NEW t, new.usn = old.usn,
         Flat(old).graves \subseteq Flat(new).graves,
         \A g \in Flat(new).graves : g \in Flat(old).graves \/ g.usn = Unsent,
         \A o \in Obj : \/ new.rows[o].mod = old.rows[o].mod /\ new.rows[o].usn = old.rows[o].usn
                        \/ Rewritten(new, old, o, t)
                        \/ Buried(new, o)
  PROVE  P!LocalEdit(Flat(old), Flat(new))
<1>1. Flat(new) \in P!Collection /\ Flat(new).usn = Flat(old).usn
  BY FlatOK
<1>2. ASSUME NEW o \in Obj
      PROVE  \/ Flat(new).rows[o] = Flat(old).rows[o]
             \/ /\ Flat(new).rows[o].usn = P!Unsent
                /\ Flat(new).rows[o].mod >= Flat(old).rows[o].mod
                /\ Flat(new).rows[o].mod >= 0
                /\ o \in Logs => Flat(new).rows[o].mod = 0
             \/ Flat(new).rows[o] = P!Absent /\ P!UnsentGrave(Flat(new), o)
  <2>1. /\ Flat(new).rows[o] = [mod |-> new.rows[o].mod, usn |-> new.rows[o].usn]
        /\ Flat(old).rows[o] = [mod |-> old.rows[o].mod, usn |-> old.rows[o].usn]
        /\ new.rows[o] \in Row /\ old.rows[o] \in Row
    BY FlatRow
  <2>2. CASE new.rows[o].mod = old.rows[o].mod /\ new.rows[o].usn = old.rows[o].usn
    BY <2>1, <2>2
  <2>3. CASE Rewritten(new, old, o, t)
    <3>1. old.rows[o].mod \in Int /\ new.rows[o].mod \in Int
      BY <2>1 DEF Row, Absent
    <3>2. QED
      BY <2>1, <2>3, <3>1 DEF Rewritten, P!Unsent, Unsent
  <2>4. CASE Buried(new, o)
    BY <2>1, <2>4 DEF Buried, P!UnsentGrave, P!Unsent, Unsent, Absent, P!Absent
  <2>5. QED
    BY <2>2, <2>3, <2>4
<1>3. \A g \in Flat(new).graves \ Flat(old).graves : g.usn = P!Unsent
  BY DEF P!Unsent, Unsent
<1>4. QED
  BY <1>1, <1>2, <1>3 DEF P!LocalEdit

\* A client between syncs.
LEMMA AtRest ==
  ASSUME IInv, NEW c \in Clients, In(c, "idle")
  PROVE  /\ disk[c] \in Collection /\ mem[c] \in Collection /\ now \in Nat
         /\ disk[c].usn = mem[c].usn /\ mem[c].graves = disk[c].graves
         /\ \A o \in Obj \ Small : mem[c].rows[o] = disk[c].rows[o]
         /\ \A o \in Obj :
               \/ mem[c].rows[o].mod = disk[c].rows[o].mod /\ mem[c].rows[o].usn = disk[c].rows[o].usn
               \/ /\ mem[c].rows[o].usn = Unsent
                  /\ mem[c].rows[o].mod >= disk[c].rows[o].mod
                  /\ mem[c].rows[o].mod >= 0
                  /\ o \in Logs => mem[c].rows[o].mod = 0
               \/ Buried(mem[c], o)
         /\ Past(disk[c]) /\ Past(mem[c])
<1>1. disk[c] \in Collection /\ mem[c] \in Collection /\ now \in Nat /\ Resting(c)
  BY DEF IInv, Typed, SessionOK
<1>2. ~In(c, "clashed")
  BY DEF In
<1>3. Past(disk[c]) /\ Past(mem[c])
  BY <1>2 DEF IInv
<1>4. disk[c].usn = mem[c].usn
  BY <1>1, FlatOK DEF Resting, P!LocalEdit
<1>5. ASSUME NEW o \in Obj
      PROVE  \/ mem[c].rows[o].mod = disk[c].rows[o].mod /\ mem[c].rows[o].usn = disk[c].rows[o].usn
             \/ /\ mem[c].rows[o].usn = Unsent
                /\ mem[c].rows[o].mod >= disk[c].rows[o].mod
                /\ mem[c].rows[o].mod >= 0
                /\ o \in Logs => mem[c].rows[o].mod = 0
             \/ Buried(mem[c], o)
  <2>1. /\ Flat(mem[c]).rows[o] = [mod |-> mem[c].rows[o].mod, usn |-> mem[c].rows[o].usn]
        /\ Flat(disk[c]).rows[o] = [mod |-> disk[c].rows[o].mod, usn |-> disk[c].rows[o].usn]
        /\ ~Has(mem[c], o) <=> Flat(mem[c]).rows[o] = P!Absent
    BY <1>1, FlatRow
  <2>2. \/ Flat(mem[c]).rows[o] = Flat(disk[c]).rows[o]
        \/ /\ Flat(mem[c]).rows[o].usn = P!Unsent
           /\ Flat(mem[c]).rows[o].mod >= Flat(disk[c]).rows[o].mod
           /\ Flat(mem[c]).rows[o].mod >= 0
           /\ o \in Logs => Flat(mem[c]).rows[o].mod = 0
        \/ Flat(mem[c]).rows[o] = P!Absent /\ P!UnsentGrave(Flat(mem[c]), o)
    BY <1>1 DEF Resting, P!LocalEdit
  <2>3. QED
    BY <2>1, <2>2 DEF Buried, P!UnsentGrave, P!Unsent, Unsent, Has
<1>6. QED
  BY <1>1, <1>3, <1>4, <1>5 DEF Resting

\* Tables are written in memory and on disk alike, small objects not at all.
TablesEdited(d, m, oldD, oldM, t) ==
    /\ d.usn = oldD.usn /\ d.scm = oldD.scm /\ m.usn = oldM.usn /\ m.scm = oldM.scm
    /\ \A o \in Small : d.rows[o] = oldD.rows[o] /\ m.rows[o] = oldM.rows[o]
    /\ \A o \in Obj \ Small :
        /\ m.rows[o] = d.rows[o]
        /\ d.rows[o] = oldD.rows[o] \/ Rewritten(d, oldD, o, t) \/ Buried(d, o)
    /\ m.graves = d.graves /\ Flat(oldD).graves \subseteq Flat(d).graves
    /\ \A g \in Flat(d).graves : g \in Flat(oldD).graves \/ g.usn = Unsent

LEMMA BothEdited ==
  ASSUME IInv, NEW c \in Clients, UserAct(c), born' \subseteq Obj,
         NEW d \in Collection, NEW m \in Collection,
         disk' = [disk EXCEPT ![c] = d], mem' = [mem EXCEPT ![c] = m],
         TablesEdited(d, m, disk[c], mem[c], Seconds(now'))
  PROVE  Follows
<1> USE DEF TablesEdited
<1>1. In(c, "idle") /\ now' = now + 1
  BY DEF UserAct
<1>2. /\ disk[c] \in Collection /\ mem[c] \in Collection /\ now \in Nat
      /\ disk[c].usn = mem[c].usn /\ mem[c].graves = disk[c].graves
      /\ Past(disk[c]) /\ Past(mem[c])
  BY <1>1, AtRest
<1>3. Flat(m).graves = Flat(d).graves /\ Flat(mem[c]).graves = Flat(disk[c]).graves
  BY <1>2 DEF Flat
<1>4. P!LocalEdit(Flat(disk[c]), Flat(d))
  <2>1. \A o \in Obj : \/ d.rows[o] = disk[c].rows[o]
                       \/ Rewritten(d, disk[c], o, Seconds(now'))
                       \/ Buried(d, o)
    OBVIOUS
  <2>2. QED
    BY <1>2, <2>1, EditedFlat
<1>5. P!LocalEdit(Flat(d), Flat(m))
  <2>1. ASSUME NEW o \in Obj
        PROVE  \/ m.rows[o].mod = d.rows[o].mod /\ m.rows[o].usn = d.rows[o].usn
               \/ Rewritten(m, d, o, Seconds(now'))
               \/ Buried(m, o)
    <3>1. CASE o \in Small
      <4>1. \/ mem[c].rows[o].mod = disk[c].rows[o].mod /\ mem[c].rows[o].usn = disk[c].rows[o].usn
            \/ /\ mem[c].rows[o].usn = Unsent
               /\ mem[c].rows[o].mod >= disk[c].rows[o].mod
               /\ mem[c].rows[o].mod >= 0
               /\ o \in Logs => mem[c].rows[o].mod = 0
            \/ Buried(mem[c], o)
        BY <1>1, AtRest
      <4>2. mem[c].rows[o].mod <= Seconds(now')
        BY <1>1, <1>2, PastLater
      <4>3. mem[c].rows[o].mod \in Int /\ disk[c].rows[o].mod \in Int
        BY <1>2, RowOps, Constants DEF Collection
      <4>4. Buried(mem[c], o) => Buried(m, o)
        BY <1>3, <3>1 DEF Buried
      <4>5. QED
        BY <3>1, <4>1, <4>2, <4>3, <4>4 DEF Rewritten
    <3>2. QED
      BY <3>1
  <2>2. d.usn = m.usn
    BY <1>2
  <2>3. QED
    BY <1>3, <2>1, <2>2, EditedFlat
<1>6. Past(d)' /\ Past(m)'
  <2>1. \A o \in Obj : disk[c].rows[o].mod <= Seconds(now') /\ mem[c].rows[o].mod <= Seconds(now')
    BY <1>1, <1>2, PastLater
  <2>2. disk[c].scm <= now' /\ mem[c].scm <= now'
    BY <1>1, <1>2, PastLater
  <2>3. \A o \in Obj : d.rows[o].mod <= Seconds(now')
    <3>1. \A o \in Obj : Buried(d, o) => d.rows[o].mod = -1
      BY DEF Buried, Absent
    <3>2. -1 <= Seconds(now')
      BY <1>1, <1>2, SecondsOK
    <3>3. QED
      BY <2>1, <3>1, <3>2 DEF Rewritten
  <2>4. \A o \in Obj : m.rows[o].mod <= Seconds(now')
    BY <2>1, <2>3
  <2>5. QED
    BY <2>2, <2>3, <2>4 DEF Past
<1>7. QED
  BY <1>4, <1>5, <1>6, UserStep

\* Small objects and the col row are changed in memory.
LEMMA MemoryEdited ==
  ASSUME IInv, NEW c \in Clients, UserAct(c), UNCHANGED <<disk, born>>,
         NEW m \in Collection, mem' = [mem EXCEPT ![c] = m],
         m.usn = mem[c].usn, m.scm \in {mem[c].scm, now'}, m.graves = mem[c].graves,
         \A o \in Obj : \/ m.rows[o] = mem[c].rows[o]
                        \/ /\ o \in Small /\ m.rows[o].usn = Unsent
                           /\ m.rows[o].mod = Seconds(now')
  PROVE  Follows
<1>1. In(c, "idle") /\ now' = now + 1
  BY DEF UserAct
<1>2. /\ disk[c] \in Collection /\ mem[c] \in Collection /\ now \in Nat
      /\ disk[c].usn = mem[c].usn /\ mem[c].graves = disk[c].graves
      /\ Past(disk[c]) /\ Past(mem[c])
      /\ \A o \in Obj \ Small : mem[c].rows[o] = disk[c].rows[o]
  BY <1>1, AtRest
<1>3. Flat(m).graves = Flat(mem[c]).graves /\ Flat(mem[c]).graves = Flat(disk[c]).graves
  BY <1>2 DEF Flat
<1>4. P!LocalEdit(Flat(disk[c]), Flat(disk[c]))
  BY <1>2, EditedFlat
<1>5. P!LocalEdit(Flat(disk[c]), Flat(m))
  <2>1. ASSUME NEW o \in Obj
        PROVE  \/ m.rows[o].mod = disk[c].rows[o].mod /\ m.rows[o].usn = disk[c].rows[o].usn
               \/ Rewritten(m, disk[c], o, Seconds(now'))
               \/ Buried(m, o)
    <3>1. \/ mem[c].rows[o].mod = disk[c].rows[o].mod /\ mem[c].rows[o].usn = disk[c].rows[o].usn
          \/ /\ mem[c].rows[o].usn = Unsent
             /\ mem[c].rows[o].mod >= disk[c].rows[o].mod
             /\ mem[c].rows[o].mod >= 0
             /\ o \in Logs => mem[c].rows[o].mod = 0
          \/ Buried(mem[c], o)
      BY <1>1, AtRest
    <3>2. mem[c].rows[o].mod <= Seconds(now') /\ disk[c].rows[o].mod <= Seconds(now')
      BY <1>1, <1>2, PastLater
    <3>3. mem[c].rows[o] \in Row /\ disk[c].rows[o] \in Row /\ m.rows[o] \in Row
      BY <1>2 DEF Collection
    <3>4. mem[c].rows[o].mod \in Int /\ disk[c].rows[o].mod \in Int /\ m.rows[o].mod \in Int
      BY <3>3 DEF Row, Absent
    <3>5. CASE m.rows[o] = mem[c].rows[o]
      BY <1>3, <3>1, <3>2, <3>4, <3>5 DEF Rewritten, Buried
    <3>6. CASE o \in Small /\ m.rows[o].usn = Unsent /\ m.rows[o].mod = Seconds(now')
      BY <1>1, <1>2, <3>2, <3>4, <3>6, SecondsOK, Constants DEF Rewritten
    <3>7. QED
      BY <3>5, <3>6
  <2>2. QED
    BY <1>2, <1>3, <2>1, EditedFlat
<1> PICK d \in Collection : d = disk[c]
  BY <1>2
<1>6. Past(d)' /\ Past(m)'
  <2>1. /\ \A o \in Obj : disk[c].rows[o].mod <= Seconds(now') /\ mem[c].rows[o].mod <= Seconds(now')
        /\ disk[c].scm <= now' /\ mem[c].scm <= now'
    BY <1>1, <1>2, PastLater
  <2>2. Seconds(now') \in Int /\ now' \in Int
    BY <1>1, <1>2, SecondsOK
  <2>3. \A o \in Obj : m.rows[o].mod <= Seconds(now')
    BY <2>1, <2>2
  <2>4. m.scm <= now'
    BY <2>1, <2>2
  <2>5. QED
    BY <2>1, <2>3, <2>4 DEF Past
<1>7. disk' = [disk EXCEPT ![c] = d] /\ born' \subseteq Obj
  BY DEF IInv, Typed
<1>8. \A o \in Obj \ Small : m.rows[o] = d.rows[o]
  BY <1>2
<1>9. QED
  BY <1>2, <1>4, <1>5, <1>6, <1>7, <1>8, UserStep

\* Some cards and notes are written.
LEMMA RowsWritten ==
  ASSUME IInv, NEW c \in Clients, UserAct(c), NEW S \in SUBSET (Cards \cup Notes),
         NEW d0 \in Collection, d0 = disk[c], NEW m0 \in Collection, m0 = mem[c]
  PROVE  LET d == Write(d0, c, S)
             m == Write(m0, c, S)
         IN  /\ d \in Collection /\ m \in Collection
             /\ TablesEdited(d, m, d0, m0, Seconds(now'))
             /\ d.graves = d0.graves
<1>1. In(c, "idle") /\ now' = now + 1
  BY DEF UserAct
<1>2. /\ now \in Nat /\ m0.graves = d0.graves
      /\ \A x \in Obj \ Small : m0.rows[x] = d0.rows[x]
      /\ Past(d0)
  BY <1>1, AtRest
<1> DEFINE d == Write(d0, c, S)
           m == Write(m0, c, S)
<1>3. S \subseteq Obj /\ S \cap Small = {} /\ S \cap Logs = {}
  BY Constants, Apart
<1>4. now' \in Nat /\ Seconds(now') \in Nat
  BY <1>1, <1>2, SecondsOK
<1>5. /\ d \in Collection /\ d.scm = d0.scm /\ d.usn = d0.usn /\ d.graves = d0.graves
      /\ \A x \in Obj : d.rows[x] = IF x \in S THEN Stamp(c, d0.rows[x]) ELSE d0.rows[x]
      /\ \A x \in Obj \cap S : d.rows[x].mod = Seconds(now') /\ d.rows[x].usn = Unsent
  BY <1>4, WriteOK
<1>6. /\ m \in Collection /\ m.scm = m0.scm /\ m.usn = m0.usn /\ m.graves = m0.graves
      /\ \A x \in Obj : m.rows[x] = IF x \in S THEN Stamp(c, m0.rows[x]) ELSE m0.rows[x]
  BY <1>4, WriteOK
<1> HIDE DEF d, m
<1>7. \A x \in S : Rewritten(d, d0, x, Seconds(now'))
  BY <1>1, <1>2, <1>3, <1>4, <1>5, PastLater DEF Rewritten
<1>8. \A x \in Small : d.rows[x] = d0.rows[x] /\ m.rows[x] = m0.rows[x]
  BY <1>3, <1>5, <1>6, Constants
<1>9. \A x \in Obj \ Small :
         m.rows[x] = d.rows[x] /\ (d.rows[x] = d0.rows[x] \/ Rewritten(d, d0, x, Seconds(now')))
  BY <1>2, <1>5, <1>6, <1>7
<1>10. Flat(d).graves = Flat(d0).graves
  BY <1>5 DEF Flat
<1>11. TablesEdited(d, m, d0, m0, Seconds(now'))
  BY <1>2, <1>5, <1>6, <1>8, <1>9, <1>10 DEF TablesEdited
<1>12. QED
  BY <1>5, <1>6, <1>11 DEF d, m

LEMMA EditRowStep ==
  ASSUME IInv, NEW c \in Clients, NEW o \in Cards \cup Notes, EditRow(c, o)
  PROVE  Follows
<1>1. UserAct(c) /\ In(c, "idle") /\ UNCHANGED born
  BY DEF EditRow, UserAct
<1>2. born' \subseteq Obj
  BY <1>1 DEF IInv, Typed
<1> PICK d0 \in Collection : d0 = disk[c]
  BY <1>1, AtRest
<1> PICK m0 \in Collection : m0 = mem[c]
  BY <1>1, AtRest
<1> DEFINE d == Write(d0, c, {o})
           m == Write(m0, c, {o})
<1>3. disk' = [disk EXCEPT ![c] = d] /\ mem' = [mem EXCEPT ![c] = m]
  BY DEF EditRow, WriteOnDisk
<1>4. d \in Collection /\ m \in Collection /\ TablesEdited(d, m, d0, m0, Seconds(now'))
  BY <1>1, RowsWritten
<1> HIDE DEF d, m
<1>5. QED
  BY <1>1, <1>2, <1>3, <1>4, BothEdited

LEMMA AddCardStep ==
  ASSUME IInv, NEW c \in Clients, NEW k \in Cards, AddCard(c, k)
  PROVE  Follows
<1>1. UserAct(c) /\ In(c, "idle") /\ born' = born \cup {k, NoteOf[k]}
  BY DEF AddCard, UserAct
<1>2. NoteOf[k] \in Notes
  BY SyncerAssumption DEF SyncerAssumption
<1>3. born' \subseteq Obj
  BY <1>1, <1>2, Constants DEF IInv, Typed
<1> PICK d0 \in Collection : d0 = disk[c]
  BY <1>1, AtRest
<1> PICK m0 \in Collection : m0 = mem[c]
  BY <1>1, AtRest
<1> DEFINE S == {k, NoteOf[k]}
           d == Write(d0, c, S)
           m == Write(m0, c, S)
<1>4. disk' = [disk EXCEPT ![c] = d] /\ mem' = [mem EXCEPT ![c] = m]
  BY DEF AddCard, WriteOnDisk
<1>5. S \in SUBSET (Cards \cup Notes)
  BY <1>2
<1> HIDE DEF S
<1>6. d \in Collection /\ m \in Collection /\ TablesEdited(d, m, d0, m0, Seconds(now'))
  BY <1>1, <1>5, RowsWritten
<1> HIDE DEF d, m
<1>7. QED
  BY <1>1, <1>3, <1>4, <1>6, BothEdited

\* A log is as old as every log.
LEMMA LogsOnDisk ==
  ASSUME IInv, NEW c \in Clients, NEW l \in Logs
  PROVE  disk[c].rows[l].mod <= 0
<1>1. disk[c] \in Collection /\ l \in Obj
  BY Constants DEF IInv, Typed
<1>2. P!LogsOK(Flat(disk[c]))
  BY DEF IInv, P!IInv, P!ColOK
<1>3. P!Has(Flat(disk[c]), l) => Flat(disk[c]).rows[l].mod = 0
  BY <1>1, <1>2 DEF P!LogsOK
<1>4. QED
  <2>1. /\ Flat(disk[c]).rows[l] = [mod |-> disk[c].rows[l].mod, usn |-> disk[c].rows[l].usn]
        /\ Has(disk[c], l) <=> Flat(disk[c]).rows[l] # P!Absent
        /\ ~Has(disk[c], l) => disk[c].rows[l].mod = -1
    BY <1>1, FlatRow
  <2>2. QED
    BY <1>3, <2>1 DEF P!Has

LEMMA ReviewStep ==
  ASSUME IInv, NEW c \in Clients, NEW k \in Cards, NEW l \in Logs, Review(c, k, l)
  PROVE  Follows
<1>1. UserAct(c) /\ In(c, "idle") /\ now' = now + 1 /\ born' = born \cup {l}
  BY DEF Review, UserAct
<1>2. born' \subseteq Obj /\ l \in Obj /\ l \notin Small
  BY <1>1, Constants DEF IInv, Typed
<1> PICK d0 \in Collection : d0 = disk[c]
  BY <1>1, AtRest
<1> PICK m0 \in Collection : m0 = mem[c]
  BY <1>1, AtRest
<1> DEFINE row == [First EXCEPT !.usn = Unsent]
           d1 == Write(d0, c, {k})
           m1 == Write(m0, c, {k})
           d == [d1 EXCEPT !.rows[l] = row]
           m == [m1 EXCEPT !.rows[l] = row]
<1>3. disk' = [disk EXCEPT ![c] = d] /\ mem' = [mem EXCEPT ![c] = m]
  BY DEF Review, Reviewed
<1>4. d1 \in Collection /\ m1 \in Collection /\ TablesEdited(d1, m1, d0, m0, Seconds(now'))
  BY <1>1, RowsWritten
<1>5. row \in Row /\ row.mod = 0 /\ row.usn = Unsent
  BY DEF First, Row, Unsent, Stamps
<1> HIDE DEF d1, m1, row
<1>6. /\ d \in Collection /\ d.usn = d1.usn /\ d.scm = d1.scm /\ d.graves = d1.graves
      /\ \A o \in Obj : d.rows[o] = IF o = l THEN row ELSE d1.rows[o]
  BY <1>2, <1>4, <1>5 DEF Collection
<1>7. /\ m \in Collection /\ m.usn = m1.usn /\ m.scm = m1.scm /\ m.graves = m1.graves
      /\ \A o \in Obj : m.rows[o] = IF o = l THEN row ELSE m1.rows[o]
  BY <1>2, <1>4, <1>5 DEF Collection
<1> HIDE DEF d, m
<1>8. Rewritten(d, d0, l, Seconds(now'))
  <2>1. d0.rows[l].mod <= 0
    BY LogsOnDisk
  <2>2. now' \in Nat /\ Seconds(now') \in Nat
    BY <1>1, SecondsOK DEF IInv, Typed
  <2>3. QED
    BY <1>2, <1>5, <1>6, <2>1, <2>2 DEF Rewritten
<1>9. Flat(d).graves = Flat(d1).graves
  BY <1>6 DEF Flat
<1>10. ASSUME NEW o \in Obj \ Small
       PROVE  /\ m.rows[o] = d.rows[o]
              /\ d.rows[o] = d0.rows[o] \/ Rewritten(d, d0, o, Seconds(now')) \/ Buried(d, o)
  <2>1. CASE o = l
    BY <1>6, <1>7, <1>8, <2>1
  <2>2. CASE o # l
    <3>1. d.rows[o] = d1.rows[o] /\ m.rows[o] = m1.rows[o]
      BY <1>6, <1>7, <2>2
    <3>2. QED
      BY <1>4, <1>9, <3>1 DEF TablesEdited, Rewritten, Buried
  <2>3. QED
    BY <2>1, <2>2
<1>11. TablesEdited(d, m, d0, m0, Seconds(now'))
  <2>1. \A o \in Small : d.rows[o] = d0.rows[o] /\ m.rows[o] = m0.rows[o]
    BY <1>2, <1>4, <1>6, <1>7, Constants DEF TablesEdited
  <2>2. QED
    BY <1>4, <1>6, <1>7, <1>9, <1>10, <2>1 DEF TablesEdited
<1>12. QED
  BY <1>1, <1>2, <1>3, <1>6, <1>7, <1>11, BothEdited

LEMMA RemCardStep ==
  ASSUME IInv, NEW c \in Clients, NEW k \in Cards, RemCard(c, k)
  PROVE  Follows
<1>1. UserAct(c) /\ In(c, "idle") /\ now' = now + 1 /\ UNCHANGED born
  BY DEF RemCard, UserAct
<1>2. born' \subseteq Obj
  BY <1>1 DEF IInv, Typed
<1> PICK d0 \in Collection : d0 = disk[c]
  BY <1>1, AtRest
<1> PICK m0 \in Collection : m0 = mem[c]
  BY <1>1, AtRest
<1>3. PICK ids \in {<<k, NoteOf[k]>>, <<k>>} :
         /\ mem' = [mem EXCEPT ![c] = Remove(m0, ids, Unsent)]
         /\ disk' = [disk EXCEPT ![c] = Remove(d0, ids, Unsent)]
  BY DEF RemCard
<1>4. /\ ids \in Seq(Obj) /\ \A i \in DOMAIN ids : ids[i] \notin Small
  <2>1. NoteOf[k] \in Notes
    BY SyncerAssumption DEF SyncerAssumption
  <2>2. {k, NoteOf[k]} \subseteq Obj /\ k \notin Small /\ NoteOf[k] \notin Small
    BY <2>1, Constants, Apart
  <2>3. ids \in Seq(Obj) /\ \A i \in DOMAIN ids : ids[i] \in {k, NoteOf[k]}
    <3>1. CASE ids = <<k>>
      BY <2>2, <3>1
    <3>2. CASE ids = <<k, NoteOf[k]>>
      BY <2>2, <3>2
    <3>3. QED
      BY <1>3, <3>1, <3>2
  <2>4. QED
    BY <2>2, <2>3
<1> DEFINE d == Remove(d0, ids, Unsent)
           m == Remove(m0, ids, Unsent)
           gone(o) == \E i \in DOMAIN ids : ids[i] = o
<1>5. /\ d \in Collection /\ d.scm = d0.scm /\ d.usn = d0.usn
      /\ \A o \in Obj : d.rows[o] = IF gone(o) THEN Absent ELSE d0.rows[o]
      /\ \A g : g \in Flat(d).graves <=>
            g \in Flat(d0).graves \/ \E i \in DOMAIN ids : g = [obj |-> ids[i], usn |-> Unsent]
  BY <1>4, RemoveOK
<1>6. /\ m \in Collection /\ m.scm = m0.scm /\ m.usn = m0.usn
      /\ \A o \in Obj : m.rows[o] = IF gone(o) THEN Absent ELSE m0.rows[o]
  BY <1>4, RemoveOK
<1>7. m.graves = d.graves
  <2>1. m0.graves = d0.graves
    BY <1>1, AtRest
  <2>2. QED
    BY <2>1 DEF Remove, Collection
<1>8. \A o \in Obj \ Small : m0.rows[o] = d0.rows[o]
  BY <1>1, AtRest
<1> HIDE DEF d, m
<1>9. \A o \in Obj : gone(o) => Buried(d, o)
  BY <1>5 DEF Buried
<1>10. \A o \in Small : d.rows[o] = d0.rows[o] /\ m.rows[o] = m0.rows[o]
  BY <1>4, <1>5, <1>6, Constants
<1>11. \A o \in Obj \ Small : m.rows[o] = d.rows[o] /\ (d.rows[o] = d0.rows[o] \/ Buried(d, o))
  BY <1>5, <1>6, <1>8, <1>9
<1>12. TablesEdited(d, m, d0, m0, Seconds(now'))
  BY <1>5, <1>6, <1>7, <1>10, <1>11 DEF TablesEdited
<1>13. disk' = [disk EXCEPT ![c] = d] /\ mem' = [mem EXCEPT ![c] = m]
  BY <1>3 DEF d, m
<1>14. QED
  BY <1>1, <1>2, <1>5, <1>6, <1>12, <1>13, BothEdited

LEMMA EditSmallStep ==
  ASSUME IInv, NEW c \in Clients, NEW o \in Small, EditSmall(c, o)
  PROVE  Follows
<1>1. UserAct(c) /\ In(c, "idle") /\ now' = now + 1 /\ UNCHANGED <<disk, born>>
  BY DEF EditSmall, UserAct
<1> PICK m0 \in Collection : m0 = mem[c]
  BY <1>1, AtRest
<1> DEFINE m == Write(m0, c, {o})
<1>2. now' \in Nat /\ o \in Obj
  BY <1>1, Constants DEF IInv, Typed
<1>3. /\ m \in Collection /\ m.scm = m0.scm /\ m.usn = m0.usn /\ m.graves = m0.graves
      /\ \A x \in Obj : m.rows[x] = IF x \in {o} THEN Stamp(c, m0.rows[x]) ELSE m0.rows[x]
      /\ \A x \in Obj \cap {o} : m.rows[x].mod = Seconds(now') /\ m.rows[x].usn = Unsent
  BY <1>2, WriteOK
<1>4. mem' = [mem EXCEPT ![c] = m]
  BY DEF EditSmall
<1> HIDE DEF m
<1>5. \A x \in Obj : \/ m.rows[x] = mem[c].rows[x]
                     \/ /\ x \in Small /\ m.rows[x].usn = Unsent
                        /\ m.rows[x].mod = Seconds(now')
  BY <1>2, <1>3
<1>6. QED
  BY <1>1, <1>3, <1>4, <1>5, MemoryEdited

LEMMA ImportModelStep ==
  ASSUME IInv, NEW c \in Clients, NEW o \in Models, ImportModel(c, o)
  PROVE  Follows
<1>1. UserAct(c) /\ In(c, "idle") /\ now' = now + 1 /\ UNCHANGED <<disk, born>>
  BY DEF ImportModel, UserAct
<1> PICK m0 \in Collection : m0 = mem[c]
  BY <1>1, AtRest
<1> DEFINE m1 == Write(m0, c, {o})
           m == [m1 EXCEPT !.rows[o].shape = 1]
<1>2. now' \in Nat /\ o \in Obj /\ o \in Small /\ Seconds(now') \in Nat
  BY <1>1, Constants, SecondsOK DEF IInv, Typed, Small
<1>3. /\ m1 \in Collection /\ m1.scm = m0.scm /\ m1.usn = m0.usn /\ m1.graves = m0.graves
      /\ \A x \in Obj : m1.rows[x] = IF x \in {o} THEN Stamp(c, m0.rows[x]) ELSE m0.rows[x]
      /\ \A x \in Obj \cap {o} : m1.rows[x].mod = Seconds(now') /\ m1.rows[x].usn = Unsent
  BY <1>2, WriteOK
<1>4. mem' = [mem EXCEPT ![c] = m]
  BY DEF ImportModel
<1> HIDE DEF m1
<1>5. m1.rows[o] \in [mod : Nat, by : Stamps, shape : {0, 1}, usn : Nat \cup {Unsent}]
  <2>1. m1.rows[o] \in Row /\ m1.rows[o].mod # -1
    BY <1>2, <1>3 DEF Collection
  <2>2. QED
    BY <2>1 DEF Row, Absent
<1>6. m = [m1 EXCEPT !.rows = [m1.rows EXCEPT ![o] = [m1.rows[o] EXCEPT !.shape = 1]]]
  BY <1>2, <1>3 DEF Collection
<1> DEFINE row == [m1.rows[o] EXCEPT !.shape = 1]
<1>7. row \in Row /\ row.mod = m1.rows[o].mod /\ row.usn = m1.rows[o].usn
  BY <1>5 DEF Row
<1> HIDE DEF m, row
<1>8. /\ m \in Collection /\ m.scm = m0.scm /\ m.usn = m0.usn /\ m.graves = m0.graves
      /\ \A x \in Obj : m.rows[x] = IF x = o THEN row ELSE m1.rows[x]
  BY <1>2, <1>3, <1>6, <1>7 DEF Collection, row
<1>9. \A x \in Obj : \/ m.rows[x] = mem[c].rows[x]
                     \/ /\ x \in Small /\ m.rows[x].usn = Unsent
                        /\ m.rows[x].mod = Seconds(now')
  BY <1>2, <1>3, <1>7, <1>8
<1>10. QED
  BY <1>1, <1>4, <1>8, <1>9, MemoryEdited

LEMMA EditConfStep ==
  ASSUME IInv, NEW c \in Clients, EditConf(c) \/ ModSchema(c)
  PROVE  Follows
<1>1. UserAct(c) /\ In(c, "idle") /\ now' = now + 1 /\ UNCHANGED <<disk, born>>
  BY DEF EditConf, ModSchema, UserAct
<1> PICK m0 \in Collection : m0 = mem[c]
  BY <1>1, AtRest
<1>2. now' \in Nat
  BY <1>1 DEF IInv, Typed
<1>3. PICK m \in {[m0 EXCEPT !.conf = now'], [m0 EXCEPT !.scm = now']} : mem' = [mem EXCEPT ![c] = m]
  BY DEF EditConf, ModSchema
<1>4. /\ m \in Collection /\ m.scm \in {m0.scm, now'} /\ m.usn = m0.usn /\ m.graves = m0.graves
      /\ m.rows = m0.rows
  BY <1>2, <1>3 DEF Collection
<1>5. QED
  BY <1>1, <1>3, <1>4, MemoryEdited

LEMMA RemDeckStep ==
  ASSUME IInv, NEW c \in Clients, NEW k \in Decks, RemDeck(c, k)
  PROVE  Follows
<1>1. UserAct(c) /\ In(c, "idle") /\ now' = now + 1 /\ UNCHANGED born
  BY DEF RemDeck, UserAct
<1>2. born' \subseteq Obj /\ k \in Obj /\ k \in Small
  BY <1>1, Constants DEF IInv, Typed, Small
<1> PICK d0 \in Collection : d0 = disk[c]
  BY <1>1, AtRest
<1> PICK m0 \in Collection : m0 = mem[c]
  BY <1>1, AtRest
<1> DEFINE g == [obj |-> k, usn |-> Unsent]
           ids == <<k>>
           m == Remove(m0, ids, Unsent)
           d == [d0 EXCEPT !.graves = Append(d0.graves, g)]
<1>3. mem' = [mem EXCEPT ![c] = m] /\ disk' = [disk EXCEPT ![c] = d]
  BY DEF RemDeck
<1>4. ids \in Seq(Obj) /\ DOMAIN ids = {1} /\ ids[1] = k
  BY <1>2
<1> HIDE DEF ids
<1>5. /\ m \in Collection /\ m.scm = m0.scm /\ m.usn = m0.usn
      /\ \A o \in Obj : m.rows[o] = IF \E i \in DOMAIN ids : ids[i] = o THEN Absent ELSE m0.rows[o]
      /\ \A x : x \in Flat(m).graves <=>
            x \in Flat(m0).graves \/ \E i \in DOMAIN ids : x = [obj |-> ids[i], usn |-> Unsent]
  BY <1>4, RemoveOK
<1>6. m0.graves = d0.graves /\ m0.usn = d0.usn /\ Flat(m0).graves = Flat(d0).graves
  <2>1. m0.graves = d0.graves /\ m0.usn = d0.usn
    BY <1>1, AtRest
  <2>2. QED
    BY <2>1 DEF Flat
<1>7. g \in Grave /\ d0.graves \in Seq(Grave)
  BY <1>2 DEF Grave, Collection
<1>8. m.graves = Append(d0.graves, g)
  <2>1. m.graves = m0.graves \o [i \in DOMAIN ids |-> [obj |-> ids[i], usn |-> Unsent]]
    BY DEF Remove, Collection
  <2>2. [i \in DOMAIN ids |-> [obj |-> ids[i], usn |-> Unsent]] = <<g>>
    BY DEF ids
  <2>3. d0.graves \o <<g>> = Append(d0.graves, g)
    BY <1>7
  <2>4. QED
    BY <1>6, <2>1, <2>2, <2>3
<1>9. /\ d \in Collection /\ d.scm = d0.scm /\ d.usn = d0.usn /\ d.rows = d0.rows
      /\ d.graves = m.graves
  <2>1. Append(d0.graves, g) \in Seq(Grave)
    BY <1>7
  <2>2. QED
    BY <1>8, <2>1 DEF Collection
<1> HIDE DEF m, d
<1>10. Flat(d).graves = Flat(m).graves
  BY <1>9 DEF Flat
<1>11. /\ Flat(d0).graves \subseteq Flat(d).graves
       /\ \A x \in Flat(d).graves : x \in Flat(d0).graves \/ x.usn = Unsent
       /\ g \in Flat(d).graves
  BY <1>4, <1>5, <1>6, <1>10
<1>12. P!LocalEdit(Flat(d0), Flat(d))
  BY <1>9, <1>11, EditedFlat
<1>13. P!LocalEdit(Flat(d), Flat(m))
  <2>1. ASSUME NEW o \in Obj
        PROVE  \/ m.rows[o].mod = d.rows[o].mod /\ m.rows[o].usn = d.rows[o].usn
               \/ Rewritten(m, d, o, Seconds(now'))
               \/ Buried(m, o)
    <3>1. CASE o = k
      BY <1>4, <1>5, <1>10, <1>11, <3>1 DEF Buried
    <3>2. CASE o # k
      <4>1. m.rows[o] = m0.rows[o] /\ d.rows[o] = d0.rows[o]
        BY <1>4, <1>5, <1>9, <3>2
      <4>2. \/ m0.rows[o].mod = d0.rows[o].mod /\ m0.rows[o].usn = d0.rows[o].usn
            \/ /\ m0.rows[o].usn = Unsent
               /\ m0.rows[o].mod >= d0.rows[o].mod
               /\ m0.rows[o].mod >= 0
               /\ o \in Logs => m0.rows[o].mod = 0
            \/ Buried(m0, o)
        BY <1>1, AtRest
      <4>3. m0.rows[o].mod <= Seconds(now')
        BY <1>1, AtRest, PastLater
      <4>4. Buried(m0, o) => Buried(m, o)
        BY <1>5, <4>1 DEF Buried
      <4>5. m0.rows[o].mod \in Int /\ d0.rows[o].mod \in Int
        <5>1. m0.rows[o] \in Row /\ d0.rows[o] \in Row
          BY DEF Collection
        <5>2. QED
          BY <5>1 DEF Row, Absent
      <4>6. QED
        BY <4>1, <4>2, <4>3, <4>4, <4>5 DEF Rewritten
    <3>3. QED
      BY <3>1, <3>2
  <2>2. QED
    BY <1>5, <1>6, <1>9, <1>10, <2>1, EditedFlat
<1>14. Past(d)' /\ Past(m)'
  <2>1. \A o \in Obj : d0.rows[o].mod <= Seconds(now') /\ m0.rows[o].mod <= Seconds(now')
    BY <1>1, AtRest, PastLater
  <2>2. d0.scm <= now' /\ m0.scm <= now'
    BY <1>1, AtRest, PastLater
  <2>3. -1 <= Seconds(now')
    BY <1>1, SecondsOK DEF IInv, Typed
  <2>4. \A o \in Obj : m.rows[o].mod <= Seconds(now')
    BY <1>4, <1>5, <2>1, <2>3 DEF Absent
  <2>5. \A o \in Obj : d.rows[o].mod <= Seconds(now')
    BY <1>9, <2>1
  <2>6. QED
    BY <1>5, <1>9, <2>2, <2>4, <2>5 DEF Past
<1>15. \A o \in Obj \ Small : m.rows[o] = d.rows[o]
  <2>1. \A o \in Obj \ Small : m0.rows[o] = d0.rows[o]
    BY <1>1, AtRest
  <2>2. QED
    BY <1>2, <1>4, <1>5, <1>9, <2>1
<1>16. QED
  BY <1>1, <1>2, <1>3, <1>5, <1>9, <1>12, <1>13, <1>14, <1>15, UserStep

LEMMA UserKeeps ==
  ASSUME IInv, NEW c \in Clients, User(c)
  PROVE  Follows
<1>1. CASE \E o \in Cards \cup Notes : EditRow(c, o)
  BY <1>1, EditRowStep
<1>2. CASE \E k \in Cards, l \in Logs : Review(c, k, l)
  BY <1>2, ReviewStep
<1>3. CASE \E k \in Cards : AddCard(c, k) \/ RemCard(c, k)
  BY <1>3, AddCardStep, RemCardStep
<1>4. CASE \E o \in Small : EditSmall(c, o)
  BY <1>4, EditSmallStep
<1>5. CASE \E m \in Models : ImportModel(c, m)
  BY <1>5, ImportModelStep
<1>6. CASE \E d \in Decks : RemDeck(c, d)
  BY <1>6, RemDeckStep
<1>7. CASE EditConf(c) \/ ModSchema(c)
  BY <1>7, EditConfStep
<1>8. QED
  BY <1>1, <1>2, <1>3, <1>4, <1>5, <1>6, <1>7 DEF User

-----------------------------------------------------------------------------
(* A session, step by step.                                                *)

LEMMA OthersOwed ==
  ASSUME NEW c \in Clients, OthersKeep(c)
  PROVE  \A k \in Clients \ {c} : Owed(k)' = Owed(k)
  BY SameOwed DEF OthersKeep, KeepsOwed

LEMMA NothingOwed ==
  ASSUME NEW c \in Clients, OthersKeep(c), ~In(c, "finishing"), ~In(c, "finishing")'
  PROVE  (\A k \in Clients : Owed(k)' = Owed(k)) /\ Owed(c) = P!Nothing
<1>1. Owed(c) = P!Nothing /\ Owed(c)' = P!Nothing
  BY DEF Owed, P!Nothing
<1>2. QED
  BY <1>1, OthersOwed

\* A step that writes neither the file nor the server's collection.
LEMMA PastKept ==
  ASSUME IInv, NEW c \in Clients, UNCHANGED <<disk, server>>, now' = now \/ now' = now + 1
  PROVE  Past(disk[c])' /\ Past(server)'
<1>1. disk[c] \in Collection /\ server \in Collection /\ now \in Nat
  BY DEF IInv, Typed
<1>2. Past(disk[c]) /\ Past(server)
  BY DEF IInv
<1>3. QED
  BY <1>1, <1>2, PastLater DEF Past

LEMMA MetaStep ==
  ASSUME IInv, NEW c \in Clients, Meta(c)
  PROVE  Follows
<1>1. /\ In(c, "idle") /\ \A k \in Clients : session[k].phase \in {"idle", "clashed", "finishing"}
      /\ now' = now \/ now' = now + 1
      /\ UNCHANGED <<server, remote, born, ops, fails, uploads>>
  BY DEF Meta, ServerFree
<1>2. Typed /\ now \in Nat /\ mem[c] \in Collection /\ disk[c] \in Collection /\ Resting(c)
  BY <1>1 DEF IInv, Typed, SessionOK
<1> DEFINE time == IF modified[c] THEN now' ELSE mem[c].mod
           x == [mem[c] EXCEPT !.mod = time]
           newer == x.mod > server.mod
           met == [Idle EXCEPT !.phase = "met", !.minUsn = x.usn, !.maxUsn = server.usn,
                               !.lNewer = newer]
<1>3. /\ mem' = [mem EXCEPT ![c] = x] /\ disk' = [disk EXCEPT ![c] = x]
      /\ modified' = [modified EXCEPT ![c] = FALSE]
      /\ \/ UNCHANGED session
         \/ /\ x.scm = server.scm
            /\ session' = [session EXCEPT ![c] = met]
  BY DEF Meta, Go
<1>20. time \in Nat
  BY <1>1, <1>2 DEF Collection
<1> HIDE DEF time
<1>4. /\ x \in Collection /\ x.rows = mem[c].rows /\ x.graves = mem[c].graves
      /\ x.scm = mem[c].scm /\ x.usn = mem[c].usn
  BY <1>2, <1>20 DEF Collection
<1>5. Flat(x) = Flat(mem[c])
  BY <1>4 DEF Flat
<1> HIDE DEF x
<1>6. session'[c] = session[c] \/
        /\ x.scm = server.scm /\ session'[c] \in Session
        /\ session'[c].phase = "met" /\ session'[c].minUsn = x.usn
        /\ session'[c].maxUsn = server.usn /\ session'[c].sent = {}
  <2>1. x.usn \in Nat /\ server.usn \in Nat
    BY <1>2, <1>4 DEF Typed, Collection
  <2>2. Idle \in Session
    BY DEF Idle, Session, Phases, Lefts
  <2>3. newer \in BOOLEAN
    OBVIOUS
  <2> HIDE DEF newer, Idle
  <2>4. /\ met \in Session /\ met.phase = "met"
        /\ met.minUsn = x.usn /\ met.maxUsn = server.usn /\ met.sent = Idle.sent
    BY <2>1, <2>2, <2>3 DEF Session, Phases
  <2>5. session'[c] = session[c] \/ (x.scm = server.scm /\ session'[c] = met)
    BY <1>2, <1>3 DEF Typed
  <2>6. Idle.sent = {}
    BY DEF Idle
  <2> HIDE DEF met
  <2>7. QED
    BY <2>4, <2>5, <2>6
<1>7. Typed'
  <2>1. \A k \in Clients : session'[k] \in Session
    BY <1>2, <1>3, <1>6 DEF Typed
  <2>2. session' \in [Clients -> Session]
    BY <1>2, <1>3, <2>1 DEF Typed
  <2>3. mem' \in [Clients -> Collection] /\ disk' \in [Clients -> Collection]
        /\ modified' \in [Clients -> BOOLEAN]
    BY <1>2, <1>3, <1>4 DEF Typed
  <2>4. QED
    BY <1>1, <1>2, <2>2, <2>3 DEF Typed
<1>8. OthersKeep(c)
  BY <1>2, <1>3 DEF Typed, OthersKeep
<1>9. mem'[c] = x /\ disk'[c] = x /\ modified'[c] = FALSE
  BY <1>2, <1>3 DEF Typed
<1>10. \A k \in Clients : ~Busy(k) /\ ~Open(k)
  BY <1>1 DEF Busy, Open, In
<1>11. remote = NoSession
  BY <1>10 DEF IInv
<1>12. (In(c, "idle")' \/ In(c, "met")') /\ ~In(c, "finishing") /\ ~In(c, "finishing")'
       /\ ~Open(c)'
  BY <1>1, <1>6 DEF In, Open
<1>13. P!Next
  <2>1. P!LocalEdit(Flat(disk[c]), Flat(x))
    BY <1>2, <1>5 DEF Resting
  <2>2. x.scm = disk[c].scm \/ x.scm # server.scm
    BY <1>2, <1>4 DEF Resting
  <2>3. P!Edit(c)
    BY <1>1, <1>2, <1>3, <1>4, <1>8, <1>12, <2>1, <2>2, NothingOwed, FileWritten
  <2>4. QED
    BY <2>3 DEF P!Next
<1>14. SessionOK(c)'
  <2>1. P!LocalEdit(Flat(x), Flat(x))
    BY <1>4, EditedFlat
  <2>2. Resting(c)'
    BY <1>9, <2>1 DEF Resting
  <2>3. In(c, "met")' => Begun(c)'
    BY <1>1, <1>6, <1>9, <1>10 DEF Begun, In
  <2>4. QED
    BY <1>9, <1>12, <2>2, <2>3 DEF SessionOK, Busy, In
<1>15. Past(disk[c])' /\ Past(mem[c])' /\ Past(server)'
  <2>1. Past(mem[c]) /\ Past(server)
    BY <1>1 DEF IInv, In
  <2>2. \A o \in Obj : mem[c].rows[o].mod <= Seconds(now') /\ server.rows[o].mod <= Seconds(now')
    BY <1>1, <1>2, <2>1, PastLater DEF Typed
  <2>3. mem[c].scm <= now' /\ server.scm <= now'
    BY <1>1, <1>2, <2>1, PastLater DEF Typed
  <2>4. QED
    BY <1>1, <1>4, <1>9, <2>2, <2>3 DEF Past
<1>16. QED
  BY <1>1, <1>7, <1>8, <1>10, <1>11, <1>12, <1>13, <1>14, <1>15, StepOK

\* A step of a session that is seen by no one else.
LEMMA HiddenStep ==
  ASSUME IInv, NEW c \in Clients, Typed', OthersKeep(c), UNCHANGED <<disk, server, now>>,
         Busy(c), Busy(c)' => remote' # NoSession, remote' # NoSession => Open(c)',
         ~In(c, "clashed")' => Past(mem[c])', remote' # NoSession => Past(remote.col)',
         ~In(c, "finishing")', SessionOK(c)'
  PROVE  Follows
<1>1. \A k \in Clients \ {c} : ~Busy(k)
  BY DEF IInv
<1>2. ~In(c, "finishing")
  BY DEF Busy, Open, In
<1>3. UNCHANGED P!vars
  BY <1>2, NothingOwed, Unseen
<1>4. Past(disk[c])' /\ Past(server)'
  BY PastKept
<1>5. QED
  BY <1>1, <1>3, <1>4, StepOK

\* What a client knows when it has begun.
LEMMA InABegunSession ==
  ASSUME IInv, NEW c \in Clients, Busy(c)
  PROVE  /\ mem[c] \in Collection /\ disk[c] \in Collection /\ server \in Collection
         /\ session[c] \in Session /\ modified[c] = FALSE /\ Begun(c)
         /\ Past(mem[c]) /\ Past(disk[c]) /\ Past(server)
         /\ Open(c) => /\ Opened(c) /\ remote \in Remote /\ remote.col \in Collection
                       /\ Past(remote.col)
         /\ ~Open(c) => remote = NoSession
<1>1. ~In(c, "idle") /\ ~In(c, "clashed")
  BY DEF Busy, Open, In
<1>2. SessionOK(c) /\ Typed
  BY DEF IInv
<1>3. modified[c] \in BOOLEAN /\ ~modified[c]
  BY <1>1, <1>2 DEF SessionOK, Typed
<1>4. ~Open(c) => remote = NoSession
  BY DEF IInv, Busy
<1>5. Open(c) => Opened(c)
  BY <1>2 DEF SessionOK
<1>6. Opened(c) => remote \in Remote /\ remote.col \in Collection /\ Past(remote.col)
  BY <1>2 DEF IInv, Opened, Typed, Remote
<1>7. QED
  BY <1>1, <1>2, <1>3, <1>4, <1>5, <1>6 DEF IInv, SessionOK, Typed

LEMMA StartStep ==
  ASSUME IInv, NEW c \in Clients, Start(c)
  PROVE  Follows
<1>1. In(c, "met") /\ UNCHANGED <<disk, modified, server, born, now, ops, fails, uploads>>
  BY DEF Start
<1>2. Busy(c) /\ ~Open(c)
  BY <1>1 DEF Busy, Open, In
<1>3. /\ mem[c] \in Collection /\ disk[c] \in Collection /\ server \in Collection
      /\ session[c] \in Session /\ modified[c] = FALSE /\ Begun(c)
      /\ Past(mem[c]) /\ Past(disk[c]) /\ Past(server) /\ mem[c] = disk[c] /\ Typed
  BY <1>1, <1>2, InABegunSession DEF IInv, SessionOK
<1> PICK d0 \in Collection : d0 = disk[c]
  BY <1>3
<1> PICK s0 \in Collection : s0 = server
  BY <1>3
<1> DEFINE minUsn == d0.usn
           maxUsn == s0.usn
           mark(g) == IF IsUnsent(g) THEN [g EXCEPT !.usn = maxUsn] ELSE g
           lgraves == Ids(d0.graves, {i \in DOMAIN d0.graves : IsUnsent(d0.graves[i])})
           rgraves == Ids(s0.graves, {i \in DOMAIN s0.graves : ServerSends(s0.graves[i], minUsn)})
           marked == [d0 EXCEPT !.graves = [i \in DOMAIN d0.graves |-> mark(d0.graves[i])]]
           m == Remove(marked, rgraves, marked.usn)
           r == Remove(s0, lgraves, s0.usn)
<1>4. /\ session[c].minUsn = minUsn /\ session[c].maxUsn = maxUsn /\ mem[c] = d0
      /\ minUsn \in Nat /\ maxUsn \in Nat /\ d0.scm = s0.scm
  BY <1>3 DEF Begun, Collection
<1>5. /\ mem' = [mem EXCEPT ![c] = m]
      /\ remote' = [client |-> c, col |-> r, minUsn |-> minUsn, maxUsn |-> maxUsn,
                    lNewer |-> ~session[c].lNewer, left |-> Tables, sent |-> {}]
      /\ session' = [session EXCEPT ![c] = [session[c] EXCEPT !.phase = "started"]]
  BY <1>4 DEF Start, Go
<1>6. /\ lgraves \in Seq(Obj)
      /\ \A o : (\E n \in DOMAIN lgraves : lgraves[n] = o) <=>
                   \E i \in DOMAIN d0.graves : IsUnsent(d0.graves[i]) /\ d0.graves[i].obj = o
  <2>1. d0.graves \in Seq(Grave)
    BY DEF Collection
  <2> DEFINE places == {i \in DOMAIN d0.graves : IsUnsent(d0.graves[i])}
  <2>2. places \in SUBSET DOMAIN d0.graves
    OBVIOUS
  <2>3. /\ Ids(d0.graves, places) \in Seq(Obj)
        /\ \A o : (\E n \in DOMAIN Ids(d0.graves, places) : Ids(d0.graves, places)[n] = o)
                     <=> \E i \in places : d0.graves[i].obj = o
    <3> HIDE DEF places
    <3>1. QED
      BY <2>1, <2>2, IdsOK
  <2>4. QED
    BY <2>3
<1>7. /\ rgraves \in Seq(Obj)
      /\ \A o : (\E n \in DOMAIN rgraves : rgraves[n] = o) <=>
                   \E i \in DOMAIN s0.graves : ServerSends(s0.graves[i], minUsn) /\ s0.graves[i].obj = o
  <2>1. s0.graves \in Seq(Grave)
    BY DEF Collection
  <2> DEFINE places == {i \in DOMAIN s0.graves : ServerSends(s0.graves[i], minUsn)}
  <2>2. places \in SUBSET DOMAIN s0.graves
    OBVIOUS
  <2>3. /\ Ids(s0.graves, places) \in Seq(Obj)
        /\ \A o : (\E n \in DOMAIN Ids(s0.graves, places) : Ids(s0.graves, places)[n] = o)
                     <=> \E i \in places : s0.graves[i].obj = o
    <3> HIDE DEF places
    <3>1. QED
      BY <2>1, <2>2, IdsOK
  <2>4. QED
    BY <2>3
<1>8. /\ marked \in Collection /\ marked.rows = d0.rows /\ marked.scm = d0.scm
      /\ marked.usn = d0.usn /\ DOMAIN marked.graves = DOMAIN d0.graves
      /\ \A i \in DOMAIN d0.graves : marked.graves[i] = mark(d0.graves[i])
  <2>1. d0.graves \in Seq(Grave) /\ \A i \in DOMAIN d0.graves : d0.graves[i] \in Grave
    BY DEF Collection
  <2>2. \A g \in Grave : mark(g) \in Grave
    BY <1>4 DEF Grave
  <2> DEFINE graves == [i \in DOMAIN d0.graves |-> mark(d0.graves[i])]
  <2>3. graves \in Seq(Grave)
    <3>1. Len(d0.graves) \in Nat /\ DOMAIN d0.graves = 1 .. Len(d0.graves)
      BY <2>1
    <3> HIDE DEF mark
    <3>2. [i \in 1 .. Len(d0.graves) |-> mark(d0.graves[i])] \in Seq(Grave)
      BY <2>1, <2>2, <3>1
    <3>3. QED
      BY <3>1, <3>2
  <2>4. marked = [d0 EXCEPT !.graves = graves]
    OBVIOUS
  <2>5. DOMAIN graves = DOMAIN d0.graves /\ \A i \in DOMAIN d0.graves : graves[i] = mark(d0.graves[i])
    OBVIOUS
  <2> HIDE DEF graves, marked, mark
  <2>6. marked \in Collection /\ marked.graves = graves /\ marked.rows = d0.rows
        /\ marked.scm = d0.scm /\ marked.usn = d0.usn
    BY <2>3, <2>4 DEF Collection
  <2>7. QED
    BY <2>5, <2>6
<1> HIDE DEF lgraves, rgraves, marked
<1>9. /\ m \in Collection /\ m.scm = marked.scm /\ m.usn = marked.usn
      /\ \A o \in Obj : m.rows[o] = IF \E i \in DOMAIN rgraves : rgraves[i] = o THEN Absent
                                    ELSE marked.rows[o]
      /\ \A g : g \in Flat(m).graves <=>
                   \/ g \in Flat(marked).graves
                   \/ \E i \in DOMAIN rgraves : g = [obj |-> rgraves[i], usn |-> marked.usn]
  <2>1. marked.usn \in Nat \cup {Unsent}
    BY <1>4, <1>8
  <2>2. QED
    BY <1>7, <1>8, <2>1, RemoveOK
<1>10. /\ r \in Collection /\ r.scm = s0.scm
       /\ \A o \in Obj : r.rows[o] = IF \E i \in DOMAIN lgraves : lgraves[i] = o THEN Absent
                                     ELSE s0.rows[o]
       /\ \A g : g \in Flat(r).graves <=>
                    \/ g \in Flat(s0).graves
                    \/ \E i \in DOMAIN lgraves : g = [obj |-> lgraves[i], usn |-> s0.usn]
  <2>1. s0.usn \in Nat \cup {Unsent}
    BY <1>4
  <2>2. QED
    BY <1>6, <2>1, RemoveOK
<1> HIDE DEF m, r, mark
<1>11. \A o : /\ (\E n \in DOMAIN rgraves : rgraves[n] = o) <=>
                      o \in Obj /\ \E g \in Flat(s0).graves : g.obj = o /\ g.usn >= Flat(d0).usn
              /\ (\E n \in DOMAIN lgraves : lgraves[n] = o) <=>
                      o \in Obj /\ [obj |-> o, usn |-> Unsent] \in Flat(d0).graves
  <2> SUFFICES ASSUME NEW o
               PROVE  /\ (\E n \in DOMAIN rgraves : rgraves[n] = o) <=>
                            o \in Obj /\ \E g \in Flat(s0).graves : g.obj = o /\ g.usn >= Flat(d0).usn
                      /\ (\E n \in DOMAIN lgraves : lgraves[n] = o) <=>
                            o \in Obj /\ [obj |-> o, usn |-> Unsent] \in Flat(d0).graves
    OBVIOUS
  <2>1. /\ (\E n \in DOMAIN rgraves : rgraves[n] = o) => o \in Obj
        /\ (\E n \in DOMAIN lgraves : lgraves[n] = o) => o \in Obj
    BY <1>6, <1>7
  <2>2. (\E n \in DOMAIN rgraves : rgraves[n] = o) <=>
           \E g \in Flat(s0).graves : g.obj = o /\ g.usn >= Flat(d0).usn
    <3>1. (\E n \in DOMAIN rgraves : rgraves[n] = o) <=>
             \E i \in DOMAIN s0.graves : s0.graves[i].usn >= d0.usn /\ s0.graves[i].obj = o
      BY <1>7 DEF ServerSends
    <3>2. Flat(d0).usn = d0.usn /\ Flat(s0).graves = {s0.graves[i] : i \in DOMAIN s0.graves}
      BY DEF Flat
    <3>3. QED
      BY <3>1, <3>2
  <2>3. (\E n \in DOMAIN lgraves : lgraves[n] = o) <=>
           [obj |-> o, usn |-> Unsent] \in Flat(d0).graves
    <3>1. (\E n \in DOMAIN lgraves : lgraves[n] = o) <=>
             \E i \in DOMAIN d0.graves : d0.graves[i].usn = Unsent /\ d0.graves[i].obj = o
      BY <1>6 DEF IsUnsent
    <3>2. \A i \in DOMAIN d0.graves : d0.graves[i] \in Grave
      BY DEF Collection
    <3>3. \A i \in DOMAIN d0.graves :
             d0.graves[i].usn = Unsent /\ d0.graves[i].obj = o <=>
                d0.graves[i] = [obj |-> o, usn |-> Unsent]
      BY <3>2 DEF Grave
    <3>4. QED
      BY <3>1, <3>3, FlatGraves
  <2>4. QED
    BY <2>1, <2>2, <2>3
<1>12. \A o \in Obj : StartedRow(Flat(m).rows[o], Flat(r).rows[o], Flat(d0), Flat(s0), o)
  <2> SUFFICES ASSUME NEW o \in Obj
               PROVE  StartedRow(Flat(m).rows[o], Flat(r).rows[o], Flat(d0), Flat(s0), o)
    OBVIOUS
  <2>3. /\ Flat(m).rows[o] = [mod |-> m.rows[o].mod, usn |-> m.rows[o].usn]
        /\ Flat(r).rows[o] = [mod |-> r.rows[o].mod, usn |-> r.rows[o].usn]
        /\ Flat(d0).rows[o] = [mod |-> d0.rows[o].mod, usn |-> d0.rows[o].usn]
        /\ Flat(s0).rows[o] = [mod |-> s0.rows[o].mod, usn |-> s0.rows[o].usn]
    BY DEF Flat
  <2>1. (\E n \in DOMAIN rgraves : rgraves[n] = o) <=>
           \E g \in Flat(s0).graves : g.obj = o /\ g.usn >= Flat(d0).usn
    BY <1>11
  <2>4. Flat(m).rows[o] = Kept(Flat(d0), Flat(s0), o)
    BY <1>8, <1>9, <2>1, <2>3 DEF Kept, Absent, P!Absent
  <2>5. Flat(r).rows[o] = Held(Flat(d0), Flat(s0), o)
    BY <1>10, <1>11, <2>3 DEF Held, Absent, P!Absent
  <2>6. QED
    BY <2>4, <2>5 DEF StartedRow
<1>13. Flat(m).graves = ClientGraves(Flat(d0), Flat(s0))
  <2> DEFINE Mark(g) == [obj |-> g.obj, usn |-> IF g.usn = Unsent THEN s0.usn ELSE g.usn]
  <2>1. \A g \in Grave : mark(g) = Mark(g)
    BY DEF mark, IsUnsent, Grave
  <2>2. \A i \in DOMAIN d0.graves : d0.graves[i] \in Grave
    BY DEF Collection
  <2>3. \A x : x \in Flat(marked).graves <=> \E i \in DOMAIN d0.graves : x = Mark(d0.graves[i])
    <3>1. \A x : x \in Flat(marked).graves <=> \E i \in DOMAIN marked.graves : marked.graves[i] = x
      BY <1>8, FlatGraves
    <3>2. QED
      BY <1>8, <2>1, <2>2, <3>1
  <2>4. \A x : x \in Flat(marked).graves <=> \E g \in Flat(d0).graves : x = Mark(g)
    <3>1. \A x : x \in Flat(d0).graves <=> \E i \in DOMAIN d0.graves : d0.graves[i] = x
      BY FlatGraves
    <3>2. QED
      BY <2>3, <3>1
  <2>5. Flat(d0).usn = d0.usn /\ Flat(s0).usn = s0.usn
    BY DEF Flat
  <2>6. \A x : (\E n \in DOMAIN rgraves : x = [obj |-> rgraves[n], usn |-> marked.usn]) <=>
           \E o \in {y \in Obj : \E g \in Flat(s0).graves : g.obj = y /\ g.usn >= Flat(d0).usn} :
              x = [obj |-> o, usn |-> Flat(d0).usn]
    BY <1>8, <1>11, <2>5
  <2>7. \A x : x \in ClientGraves(Flat(d0), Flat(s0)) <=>
           \/ \E g \in Flat(d0).graves : x = Mark(g)
           \/ \E o \in {y \in Obj : \E g \in Flat(s0).graves : g.obj = y /\ g.usn >= Flat(d0).usn} :
                 x = [obj |-> o, usn |-> Flat(d0).usn]
    BY <2>5 DEF ClientGraves
  <2>8. ASSUME NEW x PROVE x \in Flat(m).graves <=> x \in ClientGraves(Flat(d0), Flat(s0))
    <3>1. x \in Flat(m).graves <=>
             x \in Flat(marked).graves \/ \E n \in DOMAIN rgraves : x = [obj |-> rgraves[n], usn |-> marked.usn]
      BY <1>9
    <3>2. QED
      BY <2>4, <2>6, <2>7, <3>1
  <2>9. QED
    BY <2>8
<1>14. Flat(r).graves = ServerGraves(Flat(d0), Flat(s0))
  <2> DEFINE gone(x) == \E o \in {y \in Obj : [obj |-> y, usn |-> Unsent] \in Flat(d0).graves} :
                           x = [obj |-> o, usn |-> Flat(s0).usn]
  <2>1. Flat(s0).usn = s0.usn
    BY DEF Flat
  <2>2. \A x : (\E n \in DOMAIN lgraves : x = [obj |-> lgraves[n], usn |-> s0.usn]) <=> gone(x)
    BY <1>11, <2>1
  <2>3. \A x : x \in ServerGraves(Flat(d0), Flat(s0)) <=> x \in Flat(s0).graves \/ gone(x)
    BY DEF ServerGraves
  <2> HIDE DEF gone
  <2>4. \A x : x \in Flat(r).graves <=> x \in Flat(s0).graves \/ gone(x)
    BY <1>10, <2>2
  <2>5. QED
    BY <2>3, <2>4
<1>15. session'[c] \in Session /\ session'[c].phase = "started"
       /\ session'[c].minUsn = d0.usn /\ session'[c].maxUsn = s0.usn /\ session'[c].sent = {}
  <2>1. session'[c] = [session[c] EXCEPT !.phase = "started"]
    BY <1>3, <1>5 DEF Typed
  <2>2. QED
    BY <1>1, <1>3, <1>4, <2>1 DEF Session, Phases, Begun, In
<1>16. remote' \in Remote
  <2>1. (~session[c].lNewer) \in BOOLEAN
    OBVIOUS
  <2>2. Tables \in Lefts
    BY DEF Lefts
  <2>3. QED
    BY <1>4, <1>5, <1>10, <2>1, <2>2 DEF Remote
<1>17. mem'[c] = m /\ disk'[c] = d0 /\ server' = s0 /\ modified'[c] = FALSE
  BY <1>1, <1>3, <1>5 DEF Typed
<1>18. /\ remote'.client = c /\ remote'.col = r /\ remote'.minUsn = d0.usn /\ remote'.maxUsn = s0.usn
       /\ remote' # NoSession /\ remote'.left = Tables /\ remote'.sent = {}
  BY <1>5, <1>16 DEF NoSession, Remote
<1>19. Typed' /\ OthersKeep(c)
  <2>1. \A k \in Clients : session'[k] \in Session
    BY <1>3, <1>5, <1>15 DEF Typed
  <2>2. session' \in [Clients -> Session] /\ mem' \in [Clients -> Collection]
    BY <1>3, <1>5, <1>9, <2>1 DEF Typed
  <2>3. Typed'
    BY <1>1, <1>3, <1>16, <2>2 DEF Typed
  <2>4. OthersKeep(c)
    BY <1>1, <1>3, <1>5 DEF Typed, OthersKeep
  <2>5. QED
    BY <2>3, <2>4
<1>20. \A phase : In(c, phase)' <=> phase = "started"
  BY <1>15 DEF In
<1>21. Open(c)' /\ Busy(c)'
  BY <1>15 DEF Open, Busy
<1>22. Begun(c)'
  BY <1>4, <1>8, <1>9, <1>15, <1>17 DEF Begun
<1>23. Opened(c)'
  <2>1. \A o \in Obj : RowInSession(c, o)'
    BY <1>12, <1>17, <1>18, <1>20 DEF RowInSession
  <2>2. QED
    BY <1>10, <1>13, <1>14, <1>17, <1>18, <1>20, <2>1 DEF Opened
<1>24. SessionOK(c)'
  BY <1>17, <1>20, <1>21, <1>22, <1>23 DEF SessionOK
<1>25. Past(mem[c])' /\ Past(remote.col)'
  <2>1. now \in Nat /\ -1 <= Seconds(now)
    BY <1>3, SecondsOK DEF Typed
  <2>2. QED
    BY <1>1, <1>3, <1>4, <1>8, <1>9, <1>10, <1>17, <1>18, <2>1 DEF Past, Absent
<1>26. QED
  BY <1>1, <1>2, <1>18, <1>19, <1>20, <1>21, <1>24, <1>25, HiddenStep

\* Small objects that one side marks, sends and merges with the other's.
SentSmall(m, u) == [x \in Small \cap UnsentRows(m) |-> [m.rows[x] EXCEPT !.usn = u]]
GivenSmall(r, u) == [x \in Small \cap NewsSince(r, u) |-> r.rows[x]]
MarkedSmall(m, u) == Take(m, SentSmall(m, u), DOMAIN SentSmall(m, u))
OursMerged(m, r, d, s) ==
    Take(MarkedSmall(m, s.usn), GivenSmall(r, d.usn),
         NewerSmall(MarkedSmall(m, s.usn), GivenSmall(r, d.usn)))
TheirsMerged(m, r, s) == Take(r, SentSmall(m, s.usn), NewerSmall(r, SentSmall(m, s.usn)))

AllStarted(m, r, d, s) == \A o \in Small : StartedRow(Flat(m).rows[o], Flat(r).rows[o], d, s, o)

LEMMA SmallExchanged ==
  ASSUME NEW m \in Collection, NEW r \in Collection, NEW d, NEW s,
         AllStarted(m, r, d, s), d.usn \in Nat, s.usn \in Nat
  PROVE  LET new == OursMerged(m, r, d, s)
             theirs == TheirsMerged(m, r, s)
         IN  /\ new \in Collection /\ theirs \in Collection
             /\ new = [m EXCEPT !.rows = new.rows] /\ theirs = [r EXCEPT !.rows = theirs.rows]
             /\ \A x \in Obj \ Small : new.rows[x] = m.rows[x] /\ theirs.rows[x] = r.rows[x]
             /\ \A o \in Small : ExchangedRow(Flat(new).rows[o], Flat(theirs).rows[o], d, s, o)
<1> DEFINE lchg == SentSmall(m, s.usn)
           rchg == GivenSmall(r, d.usn)
           marked == Take(m, lchg, DOMAIN lchg)
           newerL == NewerSmall(marked, rchg)
           newerR == NewerSmall(r, lchg)
           new == Take(marked, rchg, newerL)
           theirs == Take(r, lchg, newerR)
<1>1. \A x \in Obj : m.rows[x] \in Row /\ r.rows[x] \in Row
  BY DEF Collection
<1>2. /\ DOMAIN lchg = Small \cap UnsentRows(m) /\ DOMAIN rchg = Small \cap NewsSince(r, d.usn)
      /\ \A x \in DOMAIN lchg : lchg[x] = [m.rows[x] EXCEPT !.usn = s.usn]
      /\ \A x \in DOMAIN rchg : rchg[x] = r.rows[x]
  BY DEF SentSmall, GivenSmall
<1>3. \A x \in DOMAIN lchg :
         /\ lchg[x] \in Row /\ lchg[x].mod = m.rows[x].mod /\ lchg[x].usn = s.usn
  <2> SUFFICES ASSUME NEW x \in DOMAIN lchg
               PROVE  lchg[x] \in Row /\ lchg[x].mod = m.rows[x].mod /\ lchg[x].usn = s.usn
    OBVIOUS
  <2>1. m.rows[x] \in [mod : Nat, by : Stamps, shape : {0, 1}, usn : Nat \cup {Unsent}]
    BY <1>1, <1>2 DEF UnsentRows, Has, Row
  <2>2. lchg[x] = [m.rows[x] EXCEPT !.usn = s.usn]
    BY <1>2
  <2>3. QED
    BY <2>1, <2>2 DEF Row
<1>4. \A x \in DOMAIN rchg : rchg[x] \in Row /\ rchg[x] = r.rows[x]
  BY <1>1, <1>2, Constants
<1> HIDE DEF lchg, rchg, marked, newerL, newerR, new, theirs
<1>5. /\ marked \in Collection /\ marked = [m EXCEPT !.rows = marked.rows]
      /\ \A x \in Obj : marked.rows[x] = IF x \in DOMAIN lchg THEN lchg[x] ELSE m.rows[x]
  <2>1. RowsIn(lchg, DOMAIN lchg)
    BY <1>3 DEF RowsIn
  <2>2. QED
    BY <2>1, TakeOK DEF marked
<1>6. newerL = {x \in DOMAIN rchg : rchg[x].mod > marked.rows[x].mod}
      /\ newerR = {x \in DOMAIN lchg : lchg[x].mod > r.rows[x].mod}
  BY DEF newerL, newerR, NewerSmall
<1>7. /\ new \in Collection /\ new = [marked EXCEPT !.rows = new.rows]
      /\ \A x \in Obj : new.rows[x] = IF x \in newerL THEN rchg[x] ELSE marked.rows[x]
  <2>1. RowsIn(rchg, newerL)
    BY <1>4, <1>6 DEF RowsIn
  <2>2. QED
    BY <1>5, <2>1, TakeOK DEF new
<1>8. /\ theirs \in Collection /\ theirs = [r EXCEPT !.rows = theirs.rows]
      /\ \A x \in Obj : theirs.rows[x] = IF x \in newerR THEN lchg[x] ELSE r.rows[x]
  <2>1. RowsIn(lchg, newerR)
    BY <1>3, <1>6 DEF RowsIn
  <2>2. QED
    BY <2>1, TakeOK DEF theirs
<1>9. new = [m EXCEPT !.rows = new.rows]
  BY <1>5, <1>7 DEF Collection
<1>10. \A x \in Obj \ Small : new.rows[x] = m.rows[x] /\ theirs.rows[x] = r.rows[x]
  BY <1>2, <1>5, <1>6, <1>7, <1>8
<1>11. ASSUME NEW o \in Small
       PROVE  ExchangedRow(Flat(new).rows[o], Flat(theirs).rows[o], d, s, o)
  <2>1. o \in Obj /\ o \notin Logs /\ StartedRow(Flat(m).rows[o], Flat(r).rows[o], d, s, o)
    BY Constants DEF AllStarted
  <2> DEFINE l == Kept(d, s, o)
             h == Held(d, s, o)
  <2>2. /\ l = [mod |-> m.rows[o].mod, usn |-> m.rows[o].usn]
        /\ h = [mod |-> r.rows[o].mod, usn |-> r.rows[o].usn]
    BY <2>1 DEF StartedRow, Flat
  <2>3. /\ m.rows[o].mod \in Int /\ r.rows[o].mod \in Int
        /\ Has(m, o) <=> l # P!Absent
        /\ Has(r, o) <=> h # P!Absent
    <3>1. /\ Has(m, o) <=> Flat(m).rows[o] # P!Absent
          /\ Has(r, o) <=> Flat(r).rows[o] # P!Absent
      BY <2>1, FlatRow
    <3>2. m.rows[o].mod \in Int /\ r.rows[o].mod \in Int
      BY <1>1, <2>1 DEF Row, Absent
    <3>3. QED
      BY <2>1, <3>1, <3>2 DEF StartedRow
  <2>4. o \in DOMAIN lchg <=> IsUnsent(l)
    <3>1. o \in DOMAIN lchg <=> Has(m, o) /\ m.rows[o].usn = Unsent
      BY <1>2, <2>1 DEF UnsentRows, IsUnsent
    <3>2. ~Has(m, o) => m.rows[o].usn # Unsent
      BY DEF Has, Absent, Unsent
    <3>3. QED
      BY <2>2, <3>1, <3>2 DEF IsUnsent
  <2>5. o \in DOMAIN rchg <=> Offered(d, s, o)
    BY <1>2, <2>1, <2>2, <2>3 DEF NewsSince, ServerSends, Offered
  <2>6. marked.rows[o].mod = l.mod
    <3>1. m.rows[o].mod = l.mod
      BY <2>2
    <3>2. QED
      BY <1>3, <1>5, <2>1, <3>1
  <2>0. P!Age(o, l) = l.mod /\ P!Age(o, h) = h.mod
    BY Apart DEF P!Age
  <2>7. o \in newerL <=> ClientTook(d, s, o)
    BY <1>4, <1>6, <2>1, <2>2, <2>3, <2>5, <2>6, <2>0 DEF ClientTook
  <2>8. o \in newerR <=> ServerTook(d, s, o)
    BY <1>3, <1>6, <2>1, <2>2, <2>3, <2>4, <2>0 DEF ServerTook
  <2>9. /\ Flat(new).rows[o] = [mod |-> new.rows[o].mod, usn |-> new.rows[o].usn]
        /\ Flat(theirs).rows[o] = [mod |-> theirs.rows[o].mod, usn |-> theirs.rows[o].usn]
    BY <2>1 DEF Flat
  <2>10. MarkedRow(l, s) = [mod |-> marked.rows[o].mod, usn |-> marked.rows[o].usn]
    <3>1. CASE o \in DOMAIN lchg
      <4>1. marked.rows[o] = lchg[o] /\ lchg[o].mod = m.rows[o].mod /\ lchg[o].usn = s.usn
        BY <1>3, <1>5, <2>1, <3>1
      <4>2. MarkedRow(l, s) = [mod |-> m.rows[o].mod, usn |-> s.usn]
        BY <2>2, <2>4, <3>1 DEF MarkedRow
      <4>3. QED
        BY <4>1, <4>2
    <3>2. CASE o \notin DOMAIN lchg
      BY <1>5, <2>1, <2>2, <2>4, <3>2 DEF MarkedRow
    <3>3. QED
      BY <3>1, <3>2
  <2>11. Flat(new).rows[o] = ClientRow(d, s, o)
    <3>1. CASE ClientTook(d, s, o)
      <4>1. new.rows[o] = r.rows[o]
        BY <1>4, <1>6, <1>7, <2>1, <2>7, <3>1
      <4>2. [h EXCEPT !.usn = h.usn] = h
        BY <2>2
      <4>3. ClientRow(d, s, o) = h
        BY <3>1, <4>2 DEF ClientRow
      <4>4. QED
        BY <2>2, <2>9, <4>1, <4>3
    <3>2. CASE ~ClientTook(d, s, o)
      <4>1. new.rows[o] = marked.rows[o]
        BY <1>7, <2>1, <2>7, <3>2
      <4>2. QED
        BY <2>9, <2>10, <3>2, <4>1 DEF ClientRow
    <3>3. QED
      BY <3>1, <3>2
  <2>12. Flat(theirs).rows[o] = ServerRow(d, s, o)
    <3>1. CASE ServerTook(d, s, o)
      <4>1. theirs.rows[o] = marked.rows[o]
        BY <1>5, <1>6, <1>8, <2>1, <2>8, <3>1
      <4>2. QED
        BY <2>9, <2>10, <3>1, <4>1 DEF ServerRow
    <3>2. CASE ~ServerTook(d, s, o)
      BY <1>8, <2>1, <2>2, <2>8, <2>9, <3>2 DEF ServerRow
    <3>3. QED
      BY <3>1, <3>2
  <2>13. QED
    BY <2>11, <2>12 DEF ExchangedRow
<1>12. QED
  BY <1>7, <1>8, <1>9, <1>10, <1>11
  DEF lchg, rchg, marked, newerL, newerR, new, theirs, OursMerged, TheirsMerged, MarkedSmall

\* Every row of a session is as old as the client's or the server's.
LEMMA RowMods ==
  ASSUME NEW d \in P!Collection, NEW s \in P!Collection, NEW o \in Obj
  PROVE  \A row \in {Kept(d, s, o), Held(d, s, o), Fetched(d, s, o), ClientRow(d, s, o), ServerRow(d, s, o)} :
            row \in P!Row /\ row.mod \in {d.rows[o].mod, s.rows[o].mod, -1}
<1>1. d.rows[o] \in P!Row /\ s.rows[o] \in P!Row /\ s.usn \in Nat
  BY DEF P!Collection
<1>2. P!Absent \in P!Row /\ P!Absent.mod = -1
  BY DEF P!Absent, P!Row
<1>3. \A row \in P!Row : MarkedRow(row, s) \in P!Row /\ MarkedRow(row, s).mod = row.mod
  BY <1>1 DEF MarkedRow, IsUnsent, Unsent, P!Row, P!Absent, P!Unsent
<1>4. \A row \in P!Row : row # P!Absent =>
         [row EXCEPT !.usn = s.usn] \in P!Row /\ [row EXCEPT !.usn = s.usn].mod = row.mod
  BY <1>1 DEF P!Row
<1> DEFINE Mods == {d.rows[o].mod, s.rows[o].mod, -1}
<1>5. Kept(d, s, o) \in P!Row /\ Kept(d, s, o).mod \in Mods
  BY <1>1, <1>2 DEF Kept
<1>6. Held(d, s, o) \in P!Row /\ Held(d, s, o).mod \in Mods
  BY <1>1, <1>2 DEF Held
<1>7. Fetched(d, s, o) \in P!Row /\ Fetched(d, s, o).mod \in Mods
  BY <1>4, <1>5, <1>6 DEF Fetched, ClientTook, Offered
<1>8. ClientRow(d, s, o) \in P!Row /\ ClientRow(d, s, o).mod \in Mods
  <2>1. CASE ClientTook(d, s, o)
    <3>1. Held(d, s, o) # P!Absent
      BY <2>1 DEF ClientTook, Offered
    <3>2. [Held(d, s, o) EXCEPT !.usn = Held(d, s, o).usn] = Held(d, s, o)
      BY <1>6, <3>1 DEF P!Row
    <3>3. ClientRow(d, s, o) \in {Held(d, s, o), [Held(d, s, o) EXCEPT !.usn = s.usn]}
      BY <2>1, <3>2 DEF ClientRow
    <3>4. QED
      BY <1>4, <1>6, <3>1, <3>3
  <2>2. CASE ~ClientTook(d, s, o)
    BY <1>3, <1>5, <2>2 DEF ClientRow
  <2>3. QED
    BY <2>1, <2>2
<1>9. ServerRow(d, s, o) \in P!Row /\ ServerRow(d, s, o).mod \in Mods
  BY <1>3, <1>5, <1>6 DEF ServerRow
<1>10. QED
  BY <1>5, <1>6, <1>7, <1>8, <1>9

LEMMA PastInSession ==
  ASSUME NEW m \in Collection, NEW r \in Collection, NEW d \in Collection, NEW s \in Collection,
         NEW t \in Nat,
         \A o \in Obj : d.rows[o].mod <= t /\ s.rows[o].mod <= t,
         \A o \in Obj :
            /\ Flat(m).rows[o] \in {Kept(Flat(d), Flat(s), o), Fetched(Flat(d), Flat(s), o),
                                    ClientRow(Flat(d), Flat(s), o)}
            /\ Flat(r).rows[o] \in {Held(Flat(d), Flat(s), o), ServerRow(Flat(d), Flat(s), o)}
  PROVE  \A o \in Obj : m.rows[o].mod <= t /\ r.rows[o].mod <= t
<1> SUFFICES ASSUME NEW o \in Obj PROVE m.rows[o].mod <= t /\ r.rows[o].mod <= t
  OBVIOUS
<1>1. Flat(d) \in P!Collection /\ Flat(s) \in P!Collection
  BY FlatOK
<1>2. /\ Flat(m).rows[o].mod = m.rows[o].mod /\ Flat(r).rows[o].mod = r.rows[o].mod
      /\ Flat(d).rows[o].mod = d.rows[o].mod /\ Flat(s).rows[o].mod = s.rows[o].mod
  BY DEF Flat
<1>3. /\ Flat(m).rows[o].mod \in {d.rows[o].mod, s.rows[o].mod, -1}
      /\ Flat(r).rows[o].mod \in {d.rows[o].mod, s.rows[o].mod, -1}
  BY <1>1, <1>2, RowMods
<1>4. QED
  BY <1>2, <1>3

\* The same for a session that goes on.
LEMMA OpenStep ==
  ASSUME IInv, NEW c \in Clients, Typed', OthersKeep(c), UNCHANGED <<disk, server, now, modified>>,
         Busy(c), Open(c)', Begun(c)', Opened(c)'
  PROVE  Follows
<1>1. /\ mem'[c] \in Collection /\ remote' \in Remote /\ remote'.col \in Collection
      /\ disk[c] \in Collection /\ server \in Collection /\ now \in Nat
      /\ modified[c] = FALSE /\ Past(disk[c]) /\ Past(server)
  <2>1. remote' # NoSession
    BY DEF Opened
  <2>2. mem'[c] \in Collection /\ remote' \in Remote
    BY <2>1 DEF Typed
  <2>3. QED
    BY <2>2, InABegunSession DEF IInv, Typed, Remote
<1>2. ~In(c, "idle")' /\ ~In(c, "met")' /\ ~In(c, "clashed")' /\ ~In(c, "finishing")'
  BY DEF Open, In
<1>3. SessionOK(c)'
  BY <1>1, <1>2 DEF SessionOK
<1>4. \A o \in Obj :
         /\ Flat(mem'[c]).rows[o] \in {Kept(Flat(disk[c]), Flat(server), o),
                                       Fetched(Flat(disk[c]), Flat(server), o),
                                       ClientRow(Flat(disk[c]), Flat(server), o)}
         /\ Flat(remote'.col).rows[o] \in {Held(Flat(disk[c]), Flat(server), o),
                                           ServerRow(Flat(disk[c]), Flat(server), o)}
  <2> SUFFICES ASSUME NEW o \in Obj
               PROVE  /\ Flat(mem'[c]).rows[o] \in {Kept(Flat(disk[c]), Flat(server), o),
                                       Fetched(Flat(disk[c]), Flat(server), o),
                                       ClientRow(Flat(disk[c]), Flat(server), o)}
                      /\ Flat(remote'.col).rows[o] \in {Held(Flat(disk[c]), Flat(server), o),
                                           ServerRow(Flat(disk[c]), Flat(server), o)}
    OBVIOUS
  <2>1. RowInSession(c, o)'
    BY DEF Opened
  <2>2. session'[c].phase \in {"started", "downloading", "uploading", "checking", "checked"}
    BY DEF Open
  <2>3. QED
    BY <2>1, <2>2 DEF RowInSession, In, StartedRow, ExchangedRow, DownloadingRow, UploadingRow
<1>5. Seconds(now) \in Nat
  BY <1>1, SecondsOK
<1>6. \A o \in Obj : mem'[c].rows[o].mod <= Seconds(now) /\ remote'.col.rows[o].mod <= Seconds(now)
  BY <1>1, <1>4, <1>5, PastInSession DEF Past
<1>7. mem'[c].scm <= now /\ remote'.col.scm <= now
  BY <1>1 DEF Past, Begun, Opened
<1>8. Past(mem[c])' /\ Past(remote.col)'
  BY <1>6, <1>7 DEF Past
<1>9. remote' # NoSession
  BY DEF Opened
<1>10. QED
  BY <1>2, <1>3, <1>8, <1>9, HiddenStep

LEMMA ChangesStep ==
  ASSUME IInv, NEW c \in Clients, Changes(c)
  PROVE  Follows
<1>1. In(c, "started") /\ UNCHANGED <<disk, modified, server, born, now, ops, fails, uploads>>
  BY DEF Changes
<1>2. Busy(c) /\ Open(c)
  BY <1>1 DEF Busy, Open, In
<1>3. /\ mem[c] \in Collection /\ disk[c] \in Collection /\ server \in Collection
      /\ session[c] \in Session /\ Begun(c) /\ Opened(c) /\ remote \in Remote
      /\ remote.col \in Collection /\ Typed
  BY <1>2, InABegunSession DEF IInv
<1> PICK m0 \in Collection : m0 = mem[c]
  BY <1>3
<1> PICK r0 \in Collection : r0 = remote.col
  BY <1>3
<1> PICK d0 \in Collection : d0 = disk[c]
  BY <1>3
<1> PICK s0 \in Collection : s0 = server
  BY <1>3
<1> DEFINE d == Flat(d0)
           s == Flat(s0)
           new == OursMerged(m0, r0, d, s)
           theirs == TheirsMerged(m0, r0, s)
<1>4. d.usn = d0.usn /\ s.usn = s0.usn /\ d.usn \in Nat /\ s.usn \in Nat
  BY FlatOK DEF Collection
<1>5. session[c].maxUsn = s.usn /\ remote.minUsn = d.usn
  BY <1>3, <1>4 DEF Begun, Opened
<1>6. LocalChanges(c) = SentSmall(m0, s.usn) /\ RemoteChanges = GivenSmall(r0, d.usn)
  BY <1>5 DEF LocalChanges, RemoteChanges, SentSmall, GivenSmall
<1>7. mem' = [mem EXCEPT ![c] = [new EXCEPT !.conf = IF remote.lNewer THEN r0.conf ELSE new.conf]]
  <2>1. mem' = LET a == LocalChanges(c)
                   b == RemoteChanges
                   z == Take(mem[c], a, DOMAIN a)
                   y == Take(z, b, NewerSmall(z, b))
               IN  [mem EXCEPT ![c] = [y EXCEPT !.conf = IF remote.lNewer THEN remote.col.conf ELSE @]]
    BY DEF Changes
  <2>2. QED
    BY <1>6, <2>1 DEF OursMerged, MarkedSmall
<1>8. remote' = [remote EXCEPT !.col =
                    [theirs EXCEPT !.conf = IF session[c].lNewer THEN m0.conf ELSE theirs.conf]]
  <2>1. remote' = LET a == LocalChanges(c)
                      z == Take(remote.col, a, NewerSmall(remote.col, a))
                  IN  [remote EXCEPT !.col =
                         [z EXCEPT !.conf = IF session[c].lNewer THEN mem[c].conf ELSE @]]
    BY DEF Changes
  <2>2. QED
    BY <1>6, <2>1 DEF TheirsMerged
<1>9. \A o \in Obj : RowInSession(c, o)
  BY <1>3 DEF Opened
<1>10. \A o \in Obj : StartedRow(Flat(m0).rows[o], Flat(r0).rows[o], d, s, o)
  BY <1>1, <1>9 DEF RowInSession
<1>11. /\ new \in Collection /\ theirs \in Collection
       /\ new = [m0 EXCEPT !.rows = new.rows] /\ theirs = [r0 EXCEPT !.rows = theirs.rows]
       /\ \A x \in Obj \ Small : new.rows[x] = m0.rows[x] /\ theirs.rows[x] = r0.rows[x]
       /\ \A o \in Small : ExchangedRow(Flat(new).rows[o], Flat(theirs).rows[o], d, s, o)
  <2>1. AllStarted(m0, r0, d, s)
    BY <1>10, Constants DEF AllStarted
  <2> HIDE DEF d, s
  <2>2. QED
    BY <1>4, <2>1, SmallExchanged
<1> HIDE DEF new, theirs
<1>12. PICK m \in Collection : /\ mem' = [mem EXCEPT ![c] = m] /\ m.rows = new.rows
                               /\ m.graves = m0.graves /\ m.scm = m0.scm /\ m.usn = m0.usn
  <2> DEFINE conf == IF remote.lNewer THEN r0.conf ELSE new.conf
             x == [new EXCEPT !.conf = conf]
  <2>1. conf \in Nat
    BY <1>11 DEF Collection
  <2> HIDE DEF conf
  <2>2. /\ x \in Collection /\ x.rows = new.rows /\ x.graves = new.graves
        /\ x.scm = new.scm /\ x.usn = new.usn
    BY <1>11, <2>1 DEF Collection
  <2>3. new.graves = m0.graves /\ new.scm = m0.scm /\ new.usn = m0.usn
    BY <1>11 DEF Collection
  <2>4. mem' = [mem EXCEPT ![c] = x]
    BY <1>7 DEF conf
  <2> HIDE DEF x
  <2>5. QED
    BY <2>2, <2>3, <2>4
<1>13. PICK r \in Collection : /\ remote' = [remote EXCEPT !.col = r] /\ r.rows = theirs.rows
                               /\ r.graves = r0.graves /\ r.scm = r0.scm /\ r.usn = r0.usn
  <2> DEFINE conf == IF session[c].lNewer THEN m0.conf ELSE theirs.conf
             x == [theirs EXCEPT !.conf = conf]
  <2>1. conf \in Nat
    BY <1>11 DEF Collection
  <2> HIDE DEF conf
  <2>2. /\ x \in Collection /\ x.rows = theirs.rows /\ x.graves = theirs.graves
        /\ x.scm = theirs.scm /\ x.usn = theirs.usn
    BY <1>11, <2>1 DEF Collection
  <2>3. theirs.graves = r0.graves /\ theirs.scm = r0.scm /\ theirs.usn = r0.usn
    BY <1>11 DEF Collection
  <2>4. remote' = [remote EXCEPT !.col = x]
    BY <1>8 DEF conf
  <2> HIDE DEF x
  <2>5. QED
    BY <2>2, <2>3, <2>4
<1>14. /\ mem'[c] = m /\ disk'[c] = d0 /\ server' = s0
       /\ session'[c] = [session[c] EXCEPT !.phase = "downloading"]
  BY <1>1, <1>3, <1>12 DEF Typed, Changes, Go
<1>15. /\ session'[c] \in Session /\ session'[c].phase = "downloading"
       /\ session'[c].minUsn = session[c].minUsn /\ session'[c].maxUsn = session[c].maxUsn
       /\ session'[c].sent = session[c].sent
  BY <1>3, <1>14 DEF Session, Phases
<1>16. /\ remote' \in Remote /\ remote'.col = r /\ remote'.client = remote.client
       /\ remote'.minUsn = remote.minUsn /\ remote'.maxUsn = remote.maxUsn
       /\ remote'.left = remote.left /\ remote'.sent = remote.sent /\ remote' # NoSession
  BY <1>3, <1>13 DEF Remote, NoSession
<1>17. Typed' /\ OthersKeep(c)
  <2>1. session' \in [Clients -> Session]
    BY <1>3, <1>15 DEF Typed, Changes, Go
  <2>2. mem' \in [Clients -> Collection]
    BY <1>3, <1>12 DEF Typed
  <2>3. Typed'
    BY <1>1, <1>3, <1>16, <2>1, <2>2 DEF Typed
  <2>4. OthersKeep(c)
    BY <1>1, <1>3, <1>12 DEF Typed, OthersKeep, Changes, Go
  <2>5. QED
    BY <2>3, <2>4
<1>18. (\A phase : In(c, phase)' <=> phase = "downloading") /\ Open(c)'
  BY <1>15 DEF In, Open
<1>19. Begun(c)'
  BY <1>1, <1>3, <1>12, <1>14, <1>15, <1>18 DEF Begun, In
<1>20. ASSUME NEW o \in Obj PROVE RowInSession(c, o)'
  <2>1. /\ Flat(m).rows[o] = Flat(new).rows[o] /\ Flat(r).rows[o] = Flat(theirs).rows[o]
    BY <1>12, <1>13 DEF Flat
  <2>2. CASE o \in Small
    BY <1>11, <1>14, <1>16, <1>18, <2>1, <2>2 DEF RowInSession
  <2>3. CASE o \notin Small
    <3>1. Flat(m).rows[o] = Flat(m0).rows[o] /\ Flat(r).rows[o] = Flat(r0).rows[o]
      <4>1. m.rows[o] = m0.rows[o] /\ r.rows[o] = r0.rows[o]
        BY <1>11, <1>12, <1>13, <2>3
      <4>2. QED
        BY <4>1 DEF Flat
    <3>2. remote'.left = Tables /\ remote'.sent = {}
      BY <1>1, <1>3, <1>16 DEF Opened
    <3>3. IsLeft(Tables, Table(o))
      <4>1. /\ Tables[1] = "revlog" /\ Tables[2] = "cards" /\ Tables[3] = "notes"
            /\ DOMAIN Tables = 1 .. 3
        BY DEF Tables
      <4>2. Table(o) \in {"revlog", "cards", "notes"}
        BY DEF Table
      <4>3. QED
        BY <4>1, <4>2 DEF IsLeft
    <3>4. DownloadingRow(Flat(m).rows[o], Flat(r).rows[o], d, s, o, Tables, {})
      BY <1>10, <3>1, <3>3 DEF DownloadingRow, StartedRow
    <3>5. QED
      BY <1>14, <1>16, <1>18, <2>3, <3>2, <3>4 DEF RowInSession
  <2>4. QED
    BY <2>2, <2>3
<1>21. Opened(c)'
  <2>1. Flat(m).graves = Flat(m0).graves /\ Flat(r).graves = Flat(r0).graves
    BY <1>12, <1>13 DEF Flat
  <2>2. QED
    BY <1>3, <1>13, <1>14, <1>16, <1>18, <1>20, <2>1 DEF Opened
<1>22. QED
  BY <1>1, <1>2, <1>17, <1>18, <1>19, <1>21, OpenStep

-----------------------------------------------------------------------------
(* How a session ends.                                                     *)

LEMMA IdleTyped == Idle \in Session /\ Idle.phase = "idle"
  BY DEF Idle, Session, Phases, Lefts

\* What a client has between syncs when memory is the file.
LEMMA RestingFacts ==
  ASSUME NEW c \in Clients, disk'[c] \in Collection, mem'[c] = disk'[c]
  PROVE  Resting(c)'
<1>1. P!LocalEdit(Flat(disk'[c]), Flat(disk'[c]))
  BY EditedFlat
<1>2. QED
  BY <1>1 DEF Resting

LEMMA DropStep ==
  ASSUME IInv, NEW c \in Clients, Drop(c), fails' \in Nat
  PROVE  Follows
<1>1. /\ mem' = [mem EXCEPT ![c] = disk[c]] /\ modified' = [modified EXCEPT ![c] = FALSE]
      /\ session' = [session EXCEPT ![c] = Idle]
      /\ remote' = IF remote.client = c THEN NoSession ELSE remote
      /\ UNCHANGED <<disk, server, born, now, ops, uploads>>
  BY DEF Drop, Go
<1>2. Typed
  BY DEF IInv
<1>3. mem'[c] = disk[c] /\ modified'[c] = FALSE /\ session'[c] = Idle /\ disk[c] \in Collection
  BY <1>1, <1>2 DEF Typed
<1>4. Typed'
  <2>1. session' \in [Clients -> Session]
    BY <1>1, <1>2, IdleTyped DEF Typed
  <2>2. QED
    BY <1>1, <1>2, <1>3, <2>1 DEF Typed
<1>5. OthersKeep(c)
  BY <1>1, <1>2 DEF Typed, OthersKeep
<1>6. In(c, "idle")' /\ ~Open(c)' /\ ~Busy(c)' /\ ~In(c, "finishing")' /\ ~In(c, "met")'
  BY <1>3, IdleTyped DEF In, Open, Busy
<1>7. \A k \in Clients : Open(k) => remote # NoSession /\ remote.client = k
  BY DEF IInv, SessionOK, Opened
<1>8. remote' # NoSession => remote' = remote /\ ~Open(c)
  BY <1>1, <1>7
<1>9. \A k \in Clients \ {c} : Busy(k) => UNCHANGED <<server, remote>>
  <2>1. \A k \in Clients \ {c} : Open(k) => remote' = remote
    BY <1>1, <1>7
  <2>2. \A k \in Clients \ {c} : Busy(k) /\ ~Open(k) => remote = NoSession
    BY InABegunSession
  <2>3. QED
    BY <1>1, <2>1, <2>2
<1>10. P!Next \/ UNCHANGED P!vars
  <2>1. CASE In(c, "finishing")
    <3>1. \A k \in Clients \ {c} : Owed(k)' = Owed(k)
      BY <1>5, OthersOwed
    <3>2. P!ClientDrops(c)
      BY <1>1, <1>2, <1>6, <2>1, <3>1, ClientDropped
    <3>3. QED
      BY <3>2 DEF P!Next
  <2>2. CASE ~In(c, "finishing")
    BY <1>1, <1>5, <1>6, <2>2, NothingOwed, Unseen
  <2>3. QED
    BY <2>1, <2>2
<1>11. SessionOK(c)'
  <2>1. Resting(c)'
    BY <1>1, <1>3, RestingFacts
  <2>2. QED
    BY <1>3, <1>6, <2>1 DEF SessionOK
<1>12. Past(disk[c])' /\ Past(server)' /\ Past(mem[c])'
  BY <1>1, <1>3, PastKept DEF Past
<1>13. remote' # NoSession => Past(remote.col)'
  BY <1>1, <1>8 DEF IInv, Past
<1>14. server'.scm = server.scm /\ now' = now
  BY <1>1
<1>15. QED
  BY <1>4, <1>5, <1>6, <1>8, <1>9, <1>10, <1>11, <1>12, <1>13, <1>14, StepOK

LEMMA SchemaClashStep ==
  ASSUME IInv, NEW c \in Clients, SchemaClash(c)
  PROVE  Follows
<1>1. In(c, "started") /\ remote' = NoSession
      /\ UNCHANGED <<disk, modified, server, born, now, ops, fails, uploads>>
  BY DEF SchemaClash
<1>2. Busy(c) /\ Open(c)
  BY <1>1 DEF Busy, Open, In
<1>3. /\ mem[c] \in Collection /\ session[c] \in Session /\ modified[c] = FALSE /\ Typed
  BY <1>2, InABegunSession DEF IInv
<1> DEFINE m == [[mem[c] EXCEPT !.scm = now + 1] EXCEPT !.mod = now + 1]
<1>4. m \in Collection
  <2>1. now + 1 \in Nat
    BY <1>3 DEF Typed
  <2>2. QED
    BY <1>3, <2>1 DEF Collection
<1>5. /\ mem' = [mem EXCEPT ![c] = m]
      /\ session' = [session EXCEPT ![c] = [session[c] EXCEPT !.phase = "clashed"]]
  <2>1. session' = [session EXCEPT ![c] = [session[c] EXCEPT !.phase = "clashed"]]
    BY DEF SchemaClash, Go
  <2>2. mem' = [mem EXCEPT ![c].scm = now + 1, ![c].mod = now + 1]
    BY DEF SchemaClash
  <2>3. QED
    BY <1>3, <2>1, <2>2 DEF Typed
<1> HIDE DEF m
<1>6. session'[c] = [session[c] EXCEPT !.phase = "clashed"]
  BY <1>3, <1>5 DEF Typed
<1>7. session'[c] \in Session /\ session'[c].phase = "clashed"
  BY <1>3, <1>6 DEF Session, Phases
<1>8. Typed' /\ OthersKeep(c)
  <2>1. session' \in [Clients -> Session]
    BY <1>3, <1>5, <1>6, <1>7 DEF Typed
  <2>2. mem' \in [Clients -> Collection]
    BY <1>3, <1>4, <1>5 DEF Typed
  <2>3. QED
    BY <1>1, <1>3, <1>5, <2>1, <2>2 DEF Typed, OthersKeep
<1>9. \A phase : In(c, phase)' <=> phase = "clashed"
  BY <1>7 DEF In
<1>10. ~Open(c)' /\ ~Busy(c)'
  BY <1>7 DEF Busy, Open, In
<1>11. SessionOK(c)'
  BY <1>1, <1>3, <1>9, <1>10 DEF SessionOK
<1>12. QED
  BY <1>1, <1>2, <1>8, <1>9, <1>10, <1>11, HiddenStep

LEMMA DropsStep ==
  ASSUME IInv, NEW c \in Clients, Fail(c) \/ ServerClash(c) \/ AskAfterAbort(c)
  PROVE  Follows
<1>1. Drop(c) /\ fails' \in {fails, fails + 1} /\ fails \in Nat
  BY DEF Fail, ServerClash, AskAfterAbort, IInv, Typed
<1>2. QED
  BY <1>1, DropStep

-----------------------------------------------------------------------------
(* A chunk.                                                                *)

\* What is left of the tables of a chunk's cursor.
LEMMA LeftsOK ==
  ASSUME NEW left \in Lefts
  PROVE  /\ Len(left) \in 0 .. 3 /\ DOMAIN left = 1 .. Len(left)
         /\ \A i \in DOMAIN left : left[i] \in TableNames
         /\ \A i, j \in DOMAIN left : left[i] = left[j] => i = j
         /\ \A n \in 0 .. Len(left) :
               /\ SubSeq(left, n + 1, Len(left)) \in Lefts
               /\ Len(SubSeq(left, n + 1, Len(left))) = Len(left) - n
               /\ \A i \in 1 .. Len(left) - n : SubSeq(left, n + 1, Len(left))[i] = left[n + i]
<1>1. left \in Seq(TableNames) /\ DOMAIN left = 1 .. Len(left)
  <2>1. <<>> \in Seq(TableNames) /\ <<"notes">> \in Seq(TableNames)
    BY DEF TableNames
  <2>2. <<"cards", "notes">> \in Seq(TableNames) /\ Tables \in Seq(TableNames)
    BY DEF TableNames, Tables
  <2>3. left \in Seq(TableNames)
    BY <2>1, <2>2 DEF Lefts
  <2>4. QED
    BY <2>3
<1>2. /\ Len(left) = 0 \/ Len(left) = 1 \/ Len(left) = 2 \/ Len(left) = 3
      /\ Len(left) >= 1 => left[Len(left)] = "notes"
      /\ Len(left) >= 2 => left[Len(left) - 1] = "cards"
      /\ Len(left) >= 3 => left[Len(left) - 2] = "revlog"
  <2>1. CASE left = <<>>
    BY <2>1
  <2>2. CASE left = <<"notes">>
    BY <2>2
  <2>3. CASE left = <<"cards", "notes">>
    BY <2>3
  <2>4. CASE left = Tables
    BY <2>4 DEF Tables
  <2>5. QED
    BY <2>1, <2>2, <2>3, <2>4 DEF Lefts
<1> PICK len \in 0 .. 3 : len = Len(left)
  BY <1>2
<1>3. \A i \in DOMAIN left : left[i] \in TableNames
  BY <1>1, <1>2 DEF TableNames
<1>4. \A i, j \in DOMAIN left : left[i] = left[j] => i = j
  <2>1. \A i \in 1 .. len : left[i] = IF i = len THEN "notes"
                                      ELSE IF i = len - 1 THEN "cards" ELSE "revlog"
    BY <1>2
  <2>2. QED
    BY <1>1, <2>1
<1>5. ASSUME NEW n \in 0 .. len
      PROVE  /\ SubSeq(left, n + 1, len) \in Lefts
             /\ Len(SubSeq(left, n + 1, len)) = len - n
             /\ \A i \in 1 .. len - n : SubSeq(left, n + 1, len)[i] = left[n + i]
  <2> DEFINE rest == SubSeq(left, n + 1, len)
  <2>1. \A i \in n + 1 .. len : left[i] \in TableNames
    BY <1>1, <1>3
  <2>2. /\ rest \in Seq(TableNames)
        /\ Len(rest) = IF n + 1 <= len THEN len - (n + 1) + 1 ELSE 0
        /\ \A i \in 1 .. len - (n + 1) + 1 : rest[i] = left[n + 1 + i - 1]
    BY <2>1, SubSeqProperties
  <2> HIDE DEF rest
  <2>3. Len(rest) = len - n /\ Len(rest) \in 0 .. 3
    BY <2>2
  <2>4. \A i \in 1 .. len - n : rest[i] = left[n + i]
    BY <2>2
  <2>5. /\ Len(rest) >= 1 => rest[Len(rest)] = "notes"
        /\ Len(rest) >= 2 => rest[Len(rest) - 1] = "cards"
        /\ Len(rest) >= 3 => rest[Len(rest) - 2] = "revlog"
    <3>1. Len(rest) >= 1 => rest[Len(rest)] = left[len] /\ len >= 1
      BY <2>3, <2>4
    <3>2. Len(rest) >= 2 => rest[Len(rest) - 1] = left[len - 1] /\ len >= 2
      BY <2>3, <2>4
    <3>3. Len(rest) >= 3 => rest[Len(rest) - 2] = left[len - 2] /\ len >= 3
      BY <2>3, <2>4
    <3>4. QED
      BY <1>2, <3>1, <3>2, <3>3
  <2>6. rest \in Lefts
    <3>1. CASE Len(rest) = 0
      BY <2>2, <3>1 DEF Lefts
    <3>2. CASE Len(rest) = 1
      <4>1. <<"notes">> \in Seq(TableNames) /\ Len(<<"notes">>) = 1
        BY DEF TableNames
      <4>2. \A i \in 1 .. 1 : rest[i] = <<"notes">>[i]
        BY <2>5, <3>2
      <4>3. rest = <<"notes">>
        BY <2>2, <3>2, <4>1, <4>2, SeqEqual
      <4>4. QED
        BY <4>3 DEF Lefts
    <3>3. CASE Len(rest) = 2
      <4>1. <<"cards", "notes">> \in Seq(TableNames) /\ Len(<<"cards", "notes">>) = 2
        BY DEF TableNames
      <4>2. \A i \in 1 .. 2 : rest[i] = <<"cards", "notes">>[i]
        BY <2>5, <3>3
      <4>3. rest = <<"cards", "notes">>
        BY <2>2, <3>3, <4>1, <4>2, SeqEqual
      <4>4. QED
        BY <4>3 DEF Lefts
    <3>4. CASE Len(rest) = 3
      <4>1. Tables \in Seq(TableNames) /\ Len(Tables) = 3
        BY DEF TableNames, Tables
      <4>2. \A i \in 1 .. 3 : rest[i] = Tables[i]
        BY <2>5, <3>4 DEF Tables
      <4>3. rest = Tables
        BY <2>2, <3>4, <4>1, <4>2, SeqEqual
      <4>4. QED
        BY <4>3 DEF Lefts
    <3>5. QED
      BY <2>3, <3>1, <3>2, <3>3, <3>4
  <2>7. QED
    BY <2>3, <2>4, <2>6 DEF rest
<1>6. QED
  BY <1>1, <1>3, <1>4, <1>5

\* Every row that is sent in chunks belongs to one table.
LEMMA TableOK ==
  /\ \A o \in Obj \ Small : Table(o) \in TableNames /\ o \in RowsOf(Table(o))
  /\ \A t \in TableNames : RowsOf(t) \subseteq Obj \ Small /\ \A o \in RowsOf(t) : Table(o) = t
<1>1. \A o \in Obj \ Small : o \in Logs \/ o \in Cards \/ o \in Notes
  BY DEF Obj, Small
<1>2. RowsOf("revlog") = Logs /\ RowsOf("cards") = Cards /\ RowsOf("notes") = Notes
  BY DEF RowsOf
<1>3. /\ \A o \in Logs : Table(o) = "revlog"
      /\ \A o \in Cards : Table(o) = "cards"
      /\ \A o \in Notes : Table(o) = "notes"
  BY Apart DEF Table
<1>4. QED
  BY <1>1, <1>2, <1>3, Apart, Constants DEF TableNames

\* The tables a chunk comes to the end of are the first ones.
LEMMA EndedOK ==
  ASSUME NEW left \in Lefts, NEW sent, NEW ours \in SUBSET Obj
  PROVE  \E n \in 0 .. Len(left) :
            Ended(left, sent, ours) = 1 .. n /\ Cardinality(Ended(left, sent, ours)) = n
<1> DEFINE Read(i) == UNION {Pending(left[j], sent, ours) : j \in 1 .. i}
           ended == Ended(left, sent, ours)
<1>1. PICK len \in 0 .. 3 : len = Len(left) /\ DOMAIN left = 1 .. len
  BY LeftsOK
<1>2. IsFiniteSet(Obj)
  BY Constants
<1>3. ASSUME NEW i \in 1 .. len PROVE IsFiniteSet(Read(i)) /\ Cardinality(Read(i)) \in Nat
  <2>1. Read(i) \subseteq Obj
    BY DEF Pending
  <2>2. IsFiniteSet(Read(i))
    BY <1>2, <2>1, FS_Subset
  <2>3. QED
    BY <2>2, FS_CardinalityType
<1>4. ASSUME NEW i \in 1 .. len, NEW j \in 1 .. i
      PROVE  Cardinality(Read(j)) <= Cardinality(Read(i))
  <2>1. Read(j) \subseteq Read(i)
    OBVIOUS
  <2>2. QED
    BY <1>3, <2>1, FS_Subset
<1> HIDE DEF Read
<1>5. ended = {i \in 1 .. len : Cardinality(Read(i)) < ChunkSize}
  BY <1>1 DEF Ended, UpTo, Read
<1>6. \A i \in 1 .. len : i \in ended => \A j \in 1 .. i : j \in ended
  BY <1>3, <1>4, <1>5, Constants
<1>7. ended \subseteq 1 .. len
  BY <1>5
<1> HIDE DEF ended
<1>8. \E n \in 0 .. len : ended = 1 .. n
  <2>1. CASE 3 \in ended
    <3>1. 3 \in 1 .. len
      BY <1>7, <2>1
    <3>2. \A j \in 1 .. 3 : j \in ended
      BY <1>6, <2>1, <3>1
    <3>3. \A j \in ended : j \in 1 .. 3
      BY <1>7, <2>1
    <3>4. ended = 1 .. 3 /\ 3 \in 0 .. len
      BY <3>1, <3>2, <3>3
    <3>5. QED
      BY <3>4
  <2>2. CASE 3 \notin ended /\ 2 \in ended
    <3>1. 2 \in 1 .. len
      BY <1>7, <2>2
    <3>2. \A j \in 1 .. 2 : j \in ended
      BY <1>6, <2>2, <3>1
    <3>3. \A j \in ended : j \in 1 .. 2
      BY <1>7, <2>2
    <3>4. ended = 1 .. 2 /\ 2 \in 0 .. len
      BY <3>1, <3>2, <3>3
    <3>5. QED
      BY <3>4
  <2>3. CASE 3 \notin ended /\ 2 \notin ended /\ 1 \in ended
    <3>1. 1 \in 1 .. len
      BY <1>7, <2>3
    <3>2. \A j \in 1 .. 1 : j \in ended
      BY <1>6, <2>3, <3>1
    <3>3. \A j \in ended : j \in 1 .. 1
      BY <1>7, <2>3
    <3>4. ended = 1 .. 1 /\ 1 \in 0 .. len
      BY <3>1, <3>2, <3>3
    <3>5. QED
      BY <3>4
  <2>4. CASE 3 \notin ended /\ 2 \notin ended /\ 1 \notin ended
    <3>1. ended = 1 .. 0
      BY <1>7, <2>4
    <3>2. QED
      BY <3>1
  <2>5. QED
    BY <2>1, <2>2, <2>3, <2>4
<1>9. \A n \in 0 .. len : Cardinality(1 .. n) = n
  BY FS_Interval
<1>10. QED
  BY <1>1, <1>8, <1>9 DEF ended

\* What a chunk returns, and the tables it leaves for the next one.
LEMMA ChunkOK ==
  ASSUME NEW left \in Lefts, NEW sent, NEW ours \in SUBSET Obj,
         NEW rows \in ChunkRows(left, sent, ours)
  PROVE  LET ended == Ended(left, sent, ours)
             rest == Remaining(left, ended)
         IN  /\ rest \in Lefts
             /\ \A t : IsLeft(rest, t) => IsLeft(left, t)
             /\ \A t : (\E i \in ended : left[i] = t) <=> IsLeft(left, t) /\ ~IsLeft(rest, t)
             /\ \A o \in rows : o \in ours \ sent /\ o \in Obj \ Small /\ IsLeft(left, Table(o))
             /\ \A o \in ours \ sent :
                   o \notin Small /\ IsLeft(left, Table(o)) /\ ~IsLeft(rest, Table(o)) => o \in rows
<1> DEFINE ended == Ended(left, sent, ours)
           rest == Remaining(left, ended)
           whole == UNION {Pending(left[i], sent, ours) : i \in ended}
<1>1. PICK len \in 0 .. 3 : len = Len(left) /\ DOMAIN left = 1 .. len
  BY LeftsOK
<1>2. PICK n \in 0 .. len : ended = 1 .. n /\ Cardinality(ended) = n
  BY <1>1, EndedOK
<1>3. rest = SubSeq(left, n + 1, len)
  BY <1>1, <1>2 DEF Remaining
<1>4. /\ rest \in Lefts /\ Len(rest) = len - n
      /\ \A i \in 1 .. len - n : rest[i] = left[n + i]
  BY <1>1, <1>3, LeftsOK
<1>5. /\ \A i \in 1 .. len : left[i] \in TableNames
      /\ \A i, j \in 1 .. len : left[i] = left[j] => i = j
      /\ DOMAIN rest = 1 .. len - n
  BY <1>1, <1>4, LeftsOK
<1> HIDE DEF rest
<1>6. \A t : IsLeft(rest, t) <=> \E i \in n + 1 .. len : left[i] = t
  <2> TAKE t
  <2>1. ASSUME NEW i \in 1 .. len - n, rest[i] = t PROVE \E j \in n + 1 .. len : left[j] = t
    <3>1. n + i \in n + 1 .. len /\ left[n + i] = t
      BY <1>4, <2>1
    <3>2. QED
      BY <3>1
  <2>2. ASSUME NEW j \in n + 1 .. len, left[j] = t PROVE \E i \in 1 .. len - n : rest[i] = t
    <3>1. j - n \in 1 .. len - n /\ n + (j - n) = j
      OBVIOUS
    <3>2. rest[j - n] = t
      BY <1>4, <2>2, <3>1
    <3>3. QED
      BY <3>1, <3>2
  <2>3. QED
    BY <1>5, <2>1, <2>2 DEF IsLeft
<1>7. \A t : IsLeft(left, t) <=> \E i \in 1 .. len : left[i] = t
  BY <1>1 DEF IsLeft
<1>8. \A t : IsLeft(rest, t) => IsLeft(left, t)
  BY <1>6, <1>7
<1>9. \A t : (\E i \in ended : left[i] = t) <=> IsLeft(left, t) /\ ~IsLeft(rest, t)
  <2> TAKE t
  <2>1. ASSUME NEW i \in 1 .. n, left[i] = t PROVE IsLeft(left, t) /\ ~IsLeft(rest, t)
    <3>1. i \in 1 .. len /\ \A j \in n + 1 .. len : j # i /\ j \in 1 .. len
      OBVIOUS
    <3>2. \A j \in n + 1 .. len : left[j] # t
      BY <1>5, <2>1, <3>1
    <3>3. QED
      BY <1>6, <1>7, <2>1, <3>1, <3>2
  <2>2. ASSUME IsLeft(left, t), ~IsLeft(rest, t) PROVE \E i \in 1 .. n : left[i] = t
    <3>1. PICK i \in 1 .. len : left[i] = t
      BY <1>7, <2>2
    <3>2. i \notin n + 1 .. len
      BY <1>6, <2>2, <3>1
    <3>3. i \in 1 .. n
      BY <3>2
    <3>4. QED
      BY <3>1, <3>3
  <2>3. QED
    BY <1>2, <2>1, <2>2
<1>10. ASSUME NEW i \in 1 .. len, NEW o \in Pending(left[i], sent, ours)
       PROVE  o \in ours \ sent /\ o \in Obj \ Small /\ IsLeft(left, Table(o)) /\ Table(o) = left[i]
  <2>1. o \in RowsOf(left[i]) /\ o \in ours \ sent
    BY <1>10 DEF Pending
  <2>2. Table(o) = left[i] /\ o \in Obj \ Small
    BY <1>5, <2>1, TableOK
  <2>3. QED
    BY <1>7, <2>1, <2>2
<1>11. \/ n = len /\ rows = whole
       \/ n < len /\ \E part \in SUBSET Pending(left[n + 1], sent, ours) : rows = whole \cup part
  <2>1. n = len => ChunkRows(left, sent, ours) = {whole}
    BY <1>1, <1>2 DEF ChunkRows
  <2>2. n < len => \A x \in ChunkRows(left, sent, ours) :
            \E part \in SUBSET Pending(left[n + 1], sent, ours) : x = whole \cup part
    <3> DEFINE room == ChunkSize - Cardinality(whole)
    <3>1. ChunkRows(left, sent, ours) =
            IF Len(left) = Cardinality(ended) THEN {whole}
            ELSE {whole \cup part :
                    part \in {p \in SUBSET Pending(left[Cardinality(ended) + 1], sent, ours) :
                                Cardinality(p) = room}}
      BY DEF ChunkRows
    <3> HIDE DEF ended, whole, room
    <3>2. n < len => ChunkRows(left, sent, ours) =
            {whole \cup part :
               part \in {p \in SUBSET Pending(left[n + 1], sent, ours) : Cardinality(p) = room}}
      BY <1>1, <1>2, <3>1
    <3>3. QED
      BY <3>2
  <2>3. n = len \/ n < len
    OBVIOUS
  <2>4. QED
    BY <2>1, <2>2, <2>3
<1>12. ASSUME NEW o \in rows
       PROVE  o \in ours \ sent /\ o \in Obj \ Small /\ IsLeft(left, Table(o))
  <2>1. \E i \in 1 .. len : o \in Pending(left[i], sent, ours)
    <3>1. CASE o \in whole
      BY <1>2, <3>1
    <3>2. CASE o \notin whole
      <4>1. n + 1 \in 1 .. len /\ o \in Pending(left[n + 1], sent, ours)
        BY <1>11, <3>2
      <4>2. QED
        BY <4>1
    <3>3. QED
      BY <3>1, <3>2
  <2>2. QED
    BY <1>10, <2>1
<1>13. ASSUME NEW o \in ours \ sent, o \notin Small, IsLeft(left, Table(o)), ~IsLeft(rest, Table(o))
       PROVE  o \in rows
  <2>1. PICK i \in ended : left[i] = Table(o)
    BY <1>9, <1>13
  <2>2. o \in RowsOf(left[i])
    BY <1>13, <2>1, TableOK
  <2>3. o \in whole
    BY <2>1, <2>2 DEF Pending
  <2>4. QED
    BY <1>11, <2>3
<1>14. QED
  BY <1>4, <1>8, <1>9, <1>12, <1>13 DEF rest

\* A row that is still unsent after the download is the client's own, and the
\* others are as they will be.
LEMMA FetchedFacts ==
  ASSUME NEW d \in P!Collection, NEW s \in P!Collection, NEW o \in Obj \ Small
  PROVE  /\ Fetched(d, s, o) \in P!Row /\ Held(d, s, o) \in P!Row /\ Kept(d, s, o) \in P!Row
         /\ ~Offered(d, s, o) => Fetched(d, s, o) = Kept(d, s, o)
         /\ IsUnsent(Fetched(d, s, o)) =>
               /\ Fetched(d, s, o) = Kept(d, s, o)
               /\ ClientRow(d, s, o) = [Kept(d, s, o) EXCEPT !.usn = s.usn]
               /\ ServerTook(d, s, o) => ServerRow(d, s, o) = [Kept(d, s, o) EXCEPT !.usn = s.usn]
         /\ ~IsUnsent(Fetched(d, s, o)) =>
               /\ ClientRow(d, s, o) = Fetched(d, s, o)
               /\ ServerRow(d, s, o) = Held(d, s, o)
<1>1. /\ Fetched(d, s, o) \in P!Row /\ Held(d, s, o) \in P!Row /\ Kept(d, s, o) \in P!Row
  BY RowMods
<1>2. ~Offered(d, s, o) => Fetched(d, s, o) = Kept(d, s, o)
  BY DEF Fetched, ClientTook
<1>3. s.usn \in Nat
  BY DEF P!Collection
<1>4. CASE ClientTook(d, s, o)
  <2>1. Fetched(d, s, o) = [Held(d, s, o) EXCEPT !.usn = s.usn]
    BY <1>4 DEF Fetched
  <2>2. Held(d, s, o) # P!Absent
    BY <1>4 DEF ClientTook, Offered
  <2>3. ~IsUnsent(Fetched(d, s, o))
    BY <1>1, <1>3, <2>1, <2>2 DEF IsUnsent, Unsent, P!Row
  <2>4. ClientRow(d, s, o) = Fetched(d, s, o)
    BY <1>4, <2>1 DEF ClientRow
  <2>5. ~ServerTook(d, s, o)
    <3>1. P!Age(o, Kept(d, s, o)) \in Int /\ P!Age(o, Held(d, s, o)) \in Int
      BY <1>1 DEF P!Row, P!Absent, P!Age
    <3>2. CASE o \in Logs
      <4>1. Kept(d, s, o) = P!Absent
        BY <1>4, <3>2 DEF ClientTook
      <4>2. QED
        BY <4>1 DEF ServerTook, IsUnsent, Unsent, P!Absent
    <3>3. CASE o \notin Logs
      <4>1. IsUnsent(Kept(d, s, o)) => P!Age(o, Kept(d, s, o)) < P!Age(o, Held(d, s, o))
        BY <1>4, <3>3 DEF ClientTook
      <4>2. Offered(d, s, o)
        BY <1>4 DEF ClientTook
      <4>3. ServerTook(d, s, o) =>
               IsUnsent(Kept(d, s, o)) /\ P!Age(o, Held(d, s, o)) < P!Age(o, Kept(d, s, o))
        BY <3>3, <4>2 DEF ServerTook
      <4>4. QED
        BY <3>1, <4>1, <4>3
    <3>4. QED
      BY <3>2, <3>3
  <2>6. QED
    BY <1>1, <1>2, <2>3, <2>4, <2>5 DEF ServerRow
<1>5. CASE ~ClientTook(d, s, o)
  <2>1. Fetched(d, s, o) = Kept(d, s, o)
    BY <1>5 DEF Fetched
  <2>2. ClientRow(d, s, o) = MarkedRow(Kept(d, s, o), s)
    BY <1>5 DEF ClientRow
  <2>3. QED
    BY <1>1, <1>2, <2>1, <2>2 DEF MarkedRow, ServerRow, ServerTook
<1>6. QED
  BY <1>4, <1>5

LEMMA FlatMarked ==
  ASSUME NEW r \in Row, r # Absent, NEW u \in Nat
  PROVE  /\ [r EXCEPT !.usn = u] \in Row
         /\ [mod |-> [r EXCEPT !.usn = u].mod, usn |-> [r EXCEPT !.usn = u].usn]
              = [[mod |-> r.mod, usn |-> r.usn] EXCEPT !.usn = u]
<1>1. r \in [mod : Nat, by : Stamps, shape : {0, 1}, usn : Nat \cup {Unsent}]
  BY DEF Row
<1>2. [r EXCEPT !.usn = u] \in Row /\ [r EXCEPT !.usn = u].mod = r.mod /\ [r EXCEPT !.usn = u].usn = u
  BY <1>1 DEF Row
<1>3. QED
  BY <1>2

\* What a chunk does to the side that receives it.
Accepted(col, from, rows, ours, o) ==
    /\ o \in rows
    /\ o \in ours => o \notin Notes /\ col.rows[o].mod < from.rows[o].mod
    /\ o \in Logs => ~Has(col, o)

AllIn(rows, from) == \A o \in rows : Has(from, o)

LEMMA MergeOK ==
  ASSUME NEW col \in Collection, NEW from \in Collection, NEW rows \in SUBSET Obj,
         AllIn(rows, from), NEW u \in Nat, NEW ours
  PROVE  LET new == MergeChunk(col, Packed(from, rows, u), ours)
         IN  /\ new \in Collection
             /\ new.graves = col.graves /\ new.conf = col.conf /\ new.mod = col.mod
             /\ new.scm = col.scm /\ new.usn = col.usn
             /\ \A o \in Obj : new.rows[o] = IF Accepted(col, from, rows, ours, o)
                                            THEN [from.rows[o] EXCEPT !.usn = u] ELSE col.rows[o]
<1> DEFINE received == Packed(from, rows, u)
           S == {o \in NewerRows(col, received, ours) : o \in Logs => ~Has(col, o)}
           new == Take(col, received, S)
<1>1. \A o \in rows : from.rows[o] \in Row /\ from.rows[o] # Absent
  BY DEF Collection, Has, AllIn
<1>2. DOMAIN received = rows /\ \A o \in rows : received[o] = [from.rows[o] EXCEPT !.usn = u]
  BY DEF Packed
<1>3. \A o \in rows : received[o] \in Row /\ received[o].mod = from.rows[o].mod
  <2> SUFFICES ASSUME NEW o \in rows PROVE received[o] \in Row /\ received[o].mod = from.rows[o].mod
    OBVIOUS
  <2>1. from.rows[o] \in [mod : Nat, by : Stamps, shape : {0, 1}, usn : Nat \cup {Unsent}]
    BY <1>1 DEF Row
  <2>2. received[o] = [from.rows[o] EXCEPT !.usn = u]
    BY <1>2
  <2>3. QED
    BY <2>1, <2>2 DEF Row
<1> HIDE DEF received
<1>4. \A o \in Obj : o \in S <=> Accepted(col, from, rows, ours, o)
  BY <1>2, <1>3 DEF NewerRows, Accepted
<1>5. RowsIn(received, S)
  BY <1>3, <1>4 DEF RowsIn, Accepted
<1> HIDE DEF S
<1>6. /\ new \in Collection /\ new = [col EXCEPT !.rows = new.rows]
      /\ \A o \in Obj : new.rows[o] = IF o \in S THEN received[o] ELSE col.rows[o]
  BY <1>5, TakeOK
<1>7. \A o \in Obj : new.rows[o] = IF Accepted(col, from, rows, ours, o)
                                   THEN [from.rows[o] EXCEPT !.usn = u] ELSE col.rows[o]
  BY <1>2, <1>4, <1>6 DEF Accepted
<1> HIDE DEF new
<1>8. /\ new.graves = col.graves /\ new.conf = col.conf /\ new.mod = col.mod
      /\ new.scm = col.scm /\ new.usn = col.usn
  BY <1>6 DEF Collection
<1>9. MergeChunk(col, Packed(from, rows, u), ours) = new
  BY DEF MergeChunk, new, S, received
<1>10. QED
  BY <1>6, <1>7, <1>8, <1>9

\* Of two rows that are there, a note is never the newer.
LEMMA AgeRead ==
  ASSUME NEW o, NEW x \in P!Row, NEW y \in P!Row, y # P!Absent,
         IsUnsent(x) \/ x # P!Absent
  PROVE  P!Age(o, x) < P!Age(o, y) <=> o \notin Notes /\ x.mod < y.mod
<1>1. x # P!Absent
  BY DEF IsUnsent, Unsent, P!Absent
<1>2. QED
  BY <1>1 DEF P!Age, P!Row

\* A row of the server's chunk, once merged.
LEMMA ReceivedRow ==
  ASSUME NEW m \in Collection, NEW r \in Collection, NEW d \in P!Collection, NEW s \in P!Collection,
         NEW rows \in SUBSET Obj, NEW o \in rows \ Small, NEW new \in Collection,
         Flat(m).rows[o] = Kept(d, s, o), Flat(r).rows[o] = Held(d, s, o), Offered(d, s, o),
         new.rows[o] = IF Accepted(m, r, rows, UnsentRows(m), o)
                       THEN [r.rows[o] EXCEPT !.usn = s.usn] ELSE m.rows[o]
  PROVE  Flat(new).rows[o] = Fetched(d, s, o)
<1>1. /\ Kept(d, s, o) = [mod |-> m.rows[o].mod, usn |-> m.rows[o].usn]
      /\ Held(d, s, o) = [mod |-> r.rows[o].mod, usn |-> r.rows[o].usn]
      /\ Has(m, o) <=> Kept(d, s, o) # P!Absent
      /\ Has(r, o) <=> Held(d, s, o) # P!Absent
      /\ r.rows[o] \in Row /\ m.rows[o] \in Row
      /\ Flat(new).rows[o] = [mod |-> new.rows[o].mod, usn |-> new.rows[o].usn]
  BY FlatRow
<1>2. o \in UnsentRows(m) <=> IsUnsent(Kept(d, s, o))
  BY <1>1 DEF UnsentRows, Has, Absent, IsUnsent, Unsent
<1>3. Accepted(m, r, rows, UnsentRows(m), o) <=> ClientTook(d, s, o)
  <2>1. CASE o \in Logs
    <3>1. IsUnsent(Kept(d, s, o)) => Kept(d, s, o) # P!Absent
      BY DEF IsUnsent, Unsent, P!Absent
    <3>2. QED
      BY <1>1, <1>2, <2>1, <3>1 DEF Accepted, ClientTook
  <2>2. CASE o \notin Logs
    <3>1. Kept(d, s, o) \in P!Row /\ Held(d, s, o) \in P!Row /\ Held(d, s, o) # P!Absent
      BY FlatRow DEF Offered
    <3>2. ASSUME IsUnsent(Kept(d, s, o))
          PROVE  P!Age(o, Kept(d, s, o)) < P!Age(o, Held(d, s, o))
                    <=> o \notin Notes /\ m.rows[o].mod < r.rows[o].mod
      <4>1. Kept(d, s, o).mod = m.rows[o].mod /\ Held(d, s, o).mod = r.rows[o].mod
        BY <1>1
      <4>2. QED
        BY <3>1, <3>2, <4>1, AgeRead
    <3>3. ClientTook(d, s, o) <=>
             (IsUnsent(Kept(d, s, o)) => P!Age(o, Kept(d, s, o)) < P!Age(o, Held(d, s, o)))
      BY <2>2 DEF ClientTook
    <3>4. QED
      BY <1>2, <2>2, <3>2, <3>3 DEF Accepted
  <2>3. QED
    BY <2>1, <2>2
<1>4. CASE ClientTook(d, s, o)
  <2>1. r.rows[o] # Absent /\ s.usn \in Nat
    BY <1>1, <1>4 DEF ClientTook, Offered, Has, P!Collection
  <2>2. QED
    BY <1>1, <1>3, <1>4, <2>1, FlatMarked DEF Fetched
<1>5. CASE ~ClientTook(d, s, o)
  BY <1>1, <1>3, <1>5 DEF Fetched
<1>6. QED
  BY <1>4, <1>5

\* A row of the client's chunk, once merged.
Delivered(new, r, m, rows, d, s, o) ==
    new.rows[o] = IF Accepted(r, m, rows, NewsSince(r, d.usn), o)
                  THEN [m.rows[o] EXCEPT !.usn = s.usn] ELSE r.rows[o]

LEMMA DeliveredRow ==
  ASSUME NEW m \in Collection, NEW r \in Collection, NEW d \in P!Collection, NEW s \in P!Collection,
         NEW rows \in SUBSET Obj, NEW o \in rows \ Small, NEW new \in Collection,
         Flat(m).rows[o] = Fetched(d, s, o), Flat(r).rows[o] = Held(d, s, o),
         IsUnsent(Fetched(d, s, o)), Delivered(new, r, m, rows, d, s, o)
  PROVE  Flat(new).rows[o] = ServerRow(d, s, o)
<1>0. Fetched(d, s, o) = Kept(d, s, o)
  BY FetchedFacts
<1>1. /\ Kept(d, s, o) = [mod |-> m.rows[o].mod, usn |-> m.rows[o].usn]
      /\ Held(d, s, o) = [mod |-> r.rows[o].mod, usn |-> r.rows[o].usn]
      /\ Has(m, o) <=> Kept(d, s, o) # P!Absent
      /\ Has(r, o) <=> Held(d, s, o) # P!Absent
      /\ r.rows[o] \in Row /\ m.rows[o] \in Row
      /\ Flat(new).rows[o] = [mod |-> new.rows[o].mod, usn |-> new.rows[o].usn]
  BY <1>0, FlatRow
<1>2. o \in NewsSince(r, d.usn) <=> Offered(d, s, o)
  BY <1>1 DEF NewsSince, ServerSends, Offered
<1>3. Accepted(r, m, rows, NewsSince(r, d.usn), o) <=> ServerTook(d, s, o)
  <2>1. CASE o \in Logs
    BY <1>0, <1>1, <1>2, <2>1 DEF Accepted, ServerTook, Offered
  <2>2. CASE o \notin Logs
    <3>1. Kept(d, s, o) \in P!Row /\ Held(d, s, o) \in P!Row /\ Kept(d, s, o) # P!Absent
      <4>1. Kept(d, s, o) \in P!Row /\ Held(d, s, o) \in P!Row
        <5>1. Flat(m).rows[o] \in P!Row
          BY FlatRow
        <5>2. Flat(r).rows[o] \in P!Row
          BY FlatRow
        <5>3. QED
          BY <1>0, <5>1, <5>2
      <4>2. IsUnsent(Kept(d, s, o))
        BY <1>0
      <4>3. QED
        BY <4>1, <4>2 DEF IsUnsent, Unsent, P!Absent
    <3>2. ASSUME Offered(d, s, o)
          PROVE  P!Age(o, Held(d, s, o)) < P!Age(o, Kept(d, s, o))
                    <=> o \notin Notes /\ r.rows[o].mod < m.rows[o].mod
      <4>1. Kept(d, s, o).mod = m.rows[o].mod /\ Held(d, s, o).mod = r.rows[o].mod
        BY <1>1
      <4>2. Held(d, s, o) # P!Absent
        BY <3>2 DEF Offered
      <4>3. QED
        BY <3>1, <4>1, <4>2, AgeRead
    <3>3. ServerTook(d, s, o) <=>
             (Offered(d, s, o) => P!Age(o, Held(d, s, o)) < P!Age(o, Kept(d, s, o)))
      BY <1>0, <2>2 DEF ServerTook
    <3>4. QED
      BY <1>2, <2>2, <3>2, <3>3 DEF Accepted
  <2>3. QED
    BY <2>1, <2>2
<1>4. CASE ServerTook(d, s, o)
  <2>1. m.rows[o] # Absent /\ s.usn \in Nat
    BY <1>0, <1>1 DEF IsUnsent, Unsent, Absent, P!Collection
  <2>2. ServerRow(d, s, o) = [Kept(d, s, o) EXCEPT !.usn = s.usn]
    BY <1>0, <1>4, FetchedFacts
  <2>3. QED
    BY <1>1, <1>3, <1>4, <2>1, <2>2, FlatMarked DEF Delivered
<1>5. CASE ~ServerTook(d, s, o)
  BY <1>1, <1>3, <1>5 DEF ServerRow, Delivered
<1>6. QED
  BY <1>4, <1>5

\* What is true of the two sides in an open session.
LEMMA InAnOpenSession ==
  ASSUME IInv, NEW c \in Clients, Open(c)
  PROVE  /\ Typed /\ Busy(c) /\ Begun(c) /\ Opened(c)
         /\ mem[c] \in Collection /\ disk[c] \in Collection /\ server \in Collection
         /\ session[c] \in Session /\ remote \in Remote /\ remote.col \in Collection
         /\ modified[c] = FALSE
         /\ Flat(disk[c]) \in P!Collection /\ Flat(server) \in P!Collection
         /\ remote.minUsn = Flat(disk[c]).usn /\ remote.maxUsn = Flat(server).usn
         /\ session[c].maxUsn = Flat(server).usn /\ Flat(server).usn \in Nat
         /\ \A o \in Obj : RowInSession(c, o)
<1>1. Busy(c)
  BY DEF Busy
<1>2. /\ Typed /\ Busy(c) /\ Begun(c) /\ Opened(c)
      /\ mem[c] \in Collection /\ disk[c] \in Collection /\ server \in Collection
      /\ session[c] \in Session /\ remote \in Remote /\ remote.col \in Collection
      /\ modified[c] = FALSE
  BY <1>1, InABegunSession DEF IInv
<1>3. Flat(disk[c]) \in P!Collection /\ Flat(disk[c]).usn = disk[c].usn
  BY <1>2, FlatOK
<1>4. Flat(server) \in P!Collection /\ Flat(server).usn = server.usn /\ server.usn \in Nat
  BY <1>2, FlatOK DEF Collection
<1>5. QED
  BY <1>2, <1>3, <1>4 DEF Begun, Opened

LEMMA AllTablesLeft == \A o \in Obj : IsLeft(Tables, Table(o)) /\ ~IsLeft(<<>>, Table(o))
<1>1. /\ Tables[1] = "revlog" /\ Tables[2] = "cards" /\ Tables[3] = "notes"
      /\ DOMAIN Tables = 1 .. 3
  BY DEF Tables
<1>2. \A o \in Obj : Table(o) \in {"revlog", "cards", "notes"}
  BY DEF Table
<1>3. QED
  BY <1>1, <1>2 DEF IsLeft

LEMMA DownloadStep ==
  ASSUME IInv, NEW c \in Clients, Download(c)
  PROVE  Follows
<1>1. In(c, "downloading") /\ UNCHANGED <<disk, modified, server, born, now, ops, fails, uploads>>
  BY DEF Download
<1>2. Open(c)
  BY <1>1 DEF Open, In
<1>3. /\ Typed /\ Busy(c) /\ Begun(c) /\ Opened(c)
      /\ mem[c] \in Collection /\ disk[c] \in Collection /\ server \in Collection
      /\ session[c] \in Session /\ remote \in Remote /\ remote.col \in Collection
      /\ remote.minUsn = Flat(disk[c]).usn /\ remote.maxUsn = Flat(server).usn
      /\ \A o \in Obj : RowInSession(c, o)
  BY <1>2, InAnOpenSession
<1> PICK m0 \in Collection : m0 = mem[c]
  BY <1>3
<1> PICK r0 \in Collection : r0 = remote.col
  BY <1>3
<1> PICK d \in P!Collection : d = Flat(disk[c])
  BY <1>2, InAnOpenSession
<1> PICK s \in P!Collection : s = Flat(server)
  BY <1>2, InAnOpenSession
<1> PICK left \in Lefts : left = remote.left
  BY <1>3 DEF Remote
<1> PICK sent \in SUBSET Obj : sent = remote.sent
  BY <1>3 DEF Remote
<1> DEFINE news == NewsSince(r0, d.usn)
           rest == Remaining(left, Ended(left, sent, news))
<1>4. PICK rows \in ChunkRows(left, sent, news) :
         /\ mem' = [mem EXCEPT ![c] = MergeChunk(m0, Packed(r0, rows, s.usn), UnsentRows(m0))]
         /\ remote' = [remote EXCEPT !.left = rest, !.sent = sent \cup rows]
         /\ session' = [session EXCEPT ![c] =
                IF rest = <<>> THEN [session[c] EXCEPT !.phase = "uploading", !.left = Tables]
                ELSE session[c]]
  BY <1>3 DEF Download, Go
<1>5. news \in SUBSET Obj
  BY DEF NewsSince
<1> HIDE DEF news
<1>6. /\ rest \in Lefts
      /\ \A o \in rows : o \in news \ sent /\ o \in Obj \ Small /\ IsLeft(left, Table(o))
      /\ \A o \in news \ sent :
            o \notin Small /\ IsLeft(left, Table(o)) /\ ~IsLeft(rest, Table(o)) => o \in rows
  BY <1>4, <1>5, ChunkOK
<1> HIDE DEF rest
<1>7. rows \in SUBSET Obj /\ AllIn(rows, r0)
  BY <1>6 DEF news, NewsSince, AllIn
<1> DEFINE new == MergeChunk(m0, Packed(r0, rows, s.usn), UnsentRows(m0))
<1>8. /\ new \in Collection
      /\ new.graves = m0.graves /\ new.scm = m0.scm /\ new.usn = m0.usn
      /\ \A o \in Obj : new.rows[o] = IF Accepted(m0, r0, rows, UnsentRows(m0), o)
                                      THEN [r0.rows[o] EXCEPT !.usn = s.usn] ELSE m0.rows[o]
  <2>1. s.usn \in Nat
    BY DEF P!Collection
  <2>2. QED
    BY <1>7, <2>1, MergeOK
<1> HIDE DEF new
<1>9. mem' = [mem EXCEPT ![c] = new] /\ mem'[c] = new
  BY <1>3, <1>4 DEF new, Typed
<1>10. /\ remote' \in Remote /\ remote'.col = r0 /\ remote'.client = remote.client
       /\ remote'.minUsn = remote.minUsn /\ remote'.maxUsn = remote.maxUsn
       /\ remote'.left = rest /\ remote'.sent = sent \cup rows /\ remote' # NoSession
  BY <1>3, <1>4, <1>6, <1>7 DEF Remote, NoSession
<1>11. /\ session'[c] \in Session /\ session'[c].sent = session[c].sent
       /\ session'[c].minUsn = session[c].minUsn /\ session'[c].maxUsn = session[c].maxUsn
       /\ session'[c].phase = IF rest = <<>> THEN "uploading" ELSE "downloading"
       /\ rest = <<>> => session'[c].left = Tables
  <2>1. session'[c] = IF rest = <<>>
                      THEN [session[c] EXCEPT !.phase = "uploading", !.left = Tables]
                      ELSE session[c]
    BY <1>3, <1>4 DEF Typed
  <2>2. "uploading" \in Phases /\ Tables \in Lefts
    BY DEF Phases, Lefts
  <2> HIDE DEF Phases, Tables
  <2>3. CASE rest = <<>>
    BY <1>3, <2>1, <2>2, <2>3 DEF Session
  <2>4. CASE rest # <<>>
    BY <1>1, <1>3, <2>1, <2>4 DEF In
  <2>5. QED
    BY <2>3, <2>4
<1>12. Typed' /\ OthersKeep(c)
  <2>1. session' \in [Clients -> Session]
    BY <1>3, <1>4, <1>11 DEF Typed
  <2>2. mem' \in [Clients -> Collection]
    BY <1>3, <1>8, <1>9 DEF Typed
  <2>3. Typed'
    BY <1>1, <1>3, <1>10, <2>1, <2>2 DEF Typed
  <2>4. OthersKeep(c)
    BY <1>1, <1>3, <1>4, <1>9 DEF Typed, OthersKeep
  <2>5. QED
    BY <2>3, <2>4
<1>13. /\ Open(c)'
       /\ \A phase : In(c, phase)' <=> phase = IF rest = <<>> THEN "uploading" ELSE "downloading"
  BY <1>11 DEF Open, In
<1>14. session[c].sent = {}
  BY <1>1, <1>3 DEF Begun, In
<1>15. Begun(c)'
  BY <1>1, <1>3, <1>8, <1>9, <1>11, <1>14 DEF Begun
<1>16. disk'[c] = disk[c] /\ server' = server
  BY <1>1
<1>17. ASSUME NEW o \in Obj PROVE RowInSession(c, o)'
  <2>1. CASE o \in Small
    <3>1. ~Accepted(m0, r0, rows, UnsentRows(m0), o)
      BY <1>6, <2>1 DEF Accepted
    <3>2. Flat(new).rows[o] = Flat(m0).rows[o]
      BY <1>8, <3>1 DEF Flat
    <3>3. ExchangedRow(Flat(m0).rows[o], Flat(r0).rows[o], d, s, o)
      BY <1>1, <1>3, <2>1 DEF RowInSession
    <3>4. QED
      BY <1>9, <1>10, <1>13, <1>16, <2>1, <3>2, <3>3 DEF RowInSession
  <2>2. CASE o \notin Small
    <3>1. DownloadingRow(Flat(m0).rows[o], Flat(r0).rows[o], d, s, o, left, sent)
      BY <1>1, <1>3, <2>2 DEF RowInSession
    <3>2. o \in news <=> Offered(d, s, o)
      <4>1. Flat(r0).rows[o] = Held(d, s, o)
        BY <3>1 DEF DownloadingRow
      <4>2. /\ Flat(r0).rows[o] = [mod |-> r0.rows[o].mod, usn |-> r0.rows[o].usn]
            /\ Has(r0, o) <=> Flat(r0).rows[o] # P!Absent
        BY FlatRow
      <4>3. QED
        BY <4>1, <4>2 DEF news, NewsSince, ServerSends, Offered
    <3>3. Flat(new).rows[o] = IF o \in sent \cup rows THEN Fetched(d, s, o) ELSE Kept(d, s, o)
      <4>1. CASE o \in rows
        <5>1. o \notin sent /\ Offered(d, s, o)
          BY <1>6, <3>2, <4>1
        <5>2. Flat(m0).rows[o] = Kept(d, s, o) /\ Flat(r0).rows[o] = Held(d, s, o)
          BY <3>1, <5>1 DEF DownloadingRow
        <5>3. new.rows[o] = IF Accepted(m0, r0, rows, UnsentRows(m0), o)
                            THEN [r0.rows[o] EXCEPT !.usn = s.usn] ELSE m0.rows[o]
          BY <1>8
        <5>4. o \in rows \ Small
          BY <2>2, <4>1
        <5>5. Flat(new).rows[o] = Fetched(d, s, o)
          BY <1>7, <1>8, <5>1, <5>2, <5>3, <5>4, ReceivedRow
        <5>6. QED
          BY <4>1, <5>5
      <4>2. CASE o \notin rows
        <5>1. Flat(new).rows[o] = Flat(m0).rows[o]
          BY <1>8, <4>2 DEF Flat, Accepted
        <5>2. QED
          BY <3>1, <4>2, <5>1 DEF DownloadingRow
      <4>3. QED
        BY <4>1, <4>2
    <3>4. ~IsLeft(rest, Table(o)) /\ Offered(d, s, o) => o \in sent \cup rows
      BY <1>6, <2>2, <3>1, <3>2 DEF DownloadingRow
    <3>5. Flat(r0).rows[o] = Held(d, s, o)
      BY <3>1 DEF DownloadingRow
    <3>6. CASE rest # <<>>
      <4>1. DownloadingRow(Flat(new).rows[o], Flat(r0).rows[o], d, s, o, rest, sent \cup rows)
        BY <3>3, <3>4, <3>5 DEF DownloadingRow
      <4>2. QED
        BY <1>9, <1>10, <1>13, <1>16, <2>2, <3>6, <4>1 DEF RowInSession
    <3>7. CASE rest = <<>>
      <4>1. Flat(new).rows[o] = Fetched(d, s, o)
        BY <2>2, <3>3, <3>4, <3>7, AllTablesLeft, FetchedFacts
      <4>2. UploadingRow(Flat(new).rows[o], Flat(r0).rows[o], d, s, o, Tables, {})
        BY <3>5, <4>1, AllTablesLeft DEF UploadingRow
      <4>3. QED
        BY <1>9, <1>10, <1>11, <1>13, <1>14, <1>16, <2>2, <3>7, <4>2 DEF RowInSession
    <3>8. QED
      BY <3>6, <3>7
  <2>3. QED
    BY <2>1, <2>2
<1>18. Opened(c)'
  <2>1. Flat(new).graves = Flat(m0).graves
    BY <1>8 DEF Flat
  <2>2. QED
    BY <1>3, <1>9, <1>10, <1>13, <1>16, <1>17, <2>1 DEF Opened
<1>19. QED
  BY <1>1, <1>3, <1>12, <1>13, <1>15, <1>18, OpenStep

LEMMA UploadStep ==
  ASSUME IInv, NEW c \in Clients, Upload(c)
  PROVE  Follows
<1>1. In(c, "uploading") /\ UNCHANGED <<disk, modified, server, born, now, ops, fails, uploads>>
  BY DEF Upload
<1>2. Open(c)
  BY <1>1 DEF Open, In
<1>3. /\ Typed /\ Busy(c) /\ Begun(c) /\ Opened(c)
      /\ mem[c] \in Collection /\ disk[c] \in Collection /\ server \in Collection
      /\ session[c] \in Session /\ remote \in Remote /\ remote.col \in Collection
      /\ remote.minUsn = Flat(disk[c]).usn /\ session[c].maxUsn = Flat(server).usn
      /\ \A o \in Obj : RowInSession(c, o)
  BY <1>2, InAnOpenSession
<1> PICK m0 \in Collection : m0 = mem[c]
  BY <1>3
<1> PICK r0 \in Collection : r0 = remote.col
  BY <1>3
<1> PICK d \in P!Collection : d = Flat(disk[c])
  BY <1>2, InAnOpenSession
<1> PICK s \in P!Collection : s = Flat(server)
  BY <1>2, InAnOpenSession
<1> PICK left \in Lefts : left = session[c].left
  BY <1>3 DEF Session
<1> PICK sent \in SUBSET Obj : sent = session[c].sent
  BY <1>3 DEF Session
<1> DEFINE unsent == UnsentRows(m0)
           ended == Ended(left, sent, unsent)
           rest == Remaining(left, ended)
           done == unsent \cap UNION {RowsOf(left[i]) : i \in ended}
           newRows == [o \in Obj |-> IF o \in done THEN [m0.rows[o] EXCEPT !.usn = s.usn]
                                     ELSE m0.rows[o]]
           m == [m0 EXCEPT !.rows = newRows]
<1>4. PICK rows \in ChunkRows(left, sent, unsent) :
         /\ remote' = [remote EXCEPT !.col =
                MergeChunk(r0, Packed(m0, rows, s.usn), NewsSince(r0, d.usn))]
         /\ mem' = [mem EXCEPT ![c] = m]
         /\ session' = [session EXCEPT ![c] =
                IF rest = <<>> THEN [session[c] EXCEPT !.phase = "checking", !.left = <<>>, !.sent = {}]
                ELSE [session[c] EXCEPT !.left = rest, !.sent = sent \cup rows]]
  <2> DEFINE un == UnsentRows(mem[c])
             en == Ended(session[c].left, session[c].sent, un)
             dn == un \cap UNION {RowsOf(session[c].left[i]) : i \in en}
             rs == Remaining(session[c].left, en)
  <2>1. \E rows \in ChunkRows(session[c].left, session[c].sent, un) :
         /\ remote' = [remote EXCEPT !.col =
                MergeChunk(remote.col, Packed(mem[c], rows, session[c].maxUsn),
                           NewsSince(remote.col, remote.minUsn))]
         /\ mem' = [mem EXCEPT ![c].rows =
                [o \in Obj |-> IF o \in dn THEN [mem[c].rows[o] EXCEPT !.usn = session[c].maxUsn]
                               ELSE mem[c].rows[o]]]
         /\ session' = [session EXCEPT ![c] =
                IF rs = <<>> THEN [session[c] EXCEPT !.phase = "checking", !.left = <<>>, !.sent = {}]
                ELSE [session[c] EXCEPT !.left = rs, !.sent = session[c].sent \cup rows]]
    BY DEF Upload, Go
  <2>2. unsent = un /\ ended = en /\ rest = rs /\ done = dn
    OBVIOUS
  <2>3. newRows = [o \in Obj |-> IF o \in dn THEN [mem[c].rows[o] EXCEPT !.usn = session[c].maxUsn]
                                 ELSE mem[c].rows[o]]
    BY <1>3
  <2> HIDE DEF newRows
  <2>4. \E rows \in ChunkRows(left, sent, unsent) :
         /\ remote' = [remote EXCEPT !.col =
                MergeChunk(r0, Packed(m0, rows, s.usn), NewsSince(r0, d.usn))]
         /\ mem' = [mem EXCEPT ![c].rows = newRows]
         /\ session' = [session EXCEPT ![c] =
                IF rest = <<>> THEN [session[c] EXCEPT !.phase = "checking", !.left = <<>>, !.sent = {}]
                ELSE [session[c] EXCEPT !.left = rest, !.sent = sent \cup rows]]
    <3> HIDE DEF un, en, rs, dn, unsent, ended, rest, done
    <3>1. QED
      BY <1>3, <2>1, <2>2, <2>3
  <2>5. [mem EXCEPT ![c].rows = newRows] = [mem EXCEPT ![c] = m]
    OBVIOUS
  <2> HIDE DEF rest, unsent, m
  <2> DEFINE after == [mem EXCEPT ![c].rows = newRows]
             next(rows) == IF rest = <<>>
                THEN [session[c] EXCEPT !.phase = "checking", !.left = <<>>, !.sent = {}]
                ELSE [session[c] EXCEPT !.left = rest, !.sent = sent \cup rows]
  <2>6. \E rows \in ChunkRows(left, sent, unsent) :
         /\ remote' = [remote EXCEPT !.col =
                MergeChunk(r0, Packed(m0, rows, s.usn), NewsSince(r0, d.usn))]
         /\ mem' = after /\ session' = [session EXCEPT ![c] = next(rows)]
    BY <2>4
  <2>7. after = [mem EXCEPT ![c] = m]
    BY <2>5
  <2> HIDE DEF after
  <2>8. \E rows \in ChunkRows(left, sent, unsent) :
         /\ remote' = [remote EXCEPT !.col =
                MergeChunk(r0, Packed(m0, rows, s.usn), NewsSince(r0, d.usn))]
         /\ mem' = [mem EXCEPT ![c] = m] /\ session' = [session EXCEPT ![c] = next(rows)]
    BY <2>6, <2>7
  <2>9. QED
    BY <2>8
<1>5. unsent \in SUBSET Obj
  BY DEF UnsentRows
<1> HIDE DEF unsent
<1>6. /\ rest \in Lefts
      /\ \A t : IsLeft(rest, t) => IsLeft(left, t)
      /\ \A t : (\E i \in ended : left[i] = t) <=> IsLeft(left, t) /\ ~IsLeft(rest, t)
      /\ \A o \in rows : o \in unsent \ sent /\ o \in Obj \ Small /\ IsLeft(left, Table(o))
      /\ \A o \in unsent \ sent :
            o \notin Small /\ IsLeft(left, Table(o)) /\ ~IsLeft(rest, Table(o)) => o \in rows
  BY <1>4, <1>5, ChunkOK
<1>7. \A i \in ended : left[i] \in TableNames
  BY LeftsOK DEF Ended
<1> HIDE DEF rest, ended
<1>8. \A o \in Obj : o \in done <=>
         o \in unsent /\ o \notin Small /\ IsLeft(left, Table(o)) /\ ~IsLeft(rest, Table(o))
  <2> SUFFICES ASSUME NEW o \in Obj
               PROVE  o \in done <=> /\ o \in unsent /\ o \notin Small
                                     /\ IsLeft(left, Table(o)) /\ ~IsLeft(rest, Table(o))
    OBVIOUS
  <2>1. o \in done <=> o \in unsent /\ \E i \in ended : o \in RowsOf(left[i])
    OBVIOUS
  <2>2. \A i \in ended : o \in RowsOf(left[i]) <=> o \notin Small /\ left[i] = Table(o)
    BY <1>7, TableOK
  <2>3. (\E i \in ended : left[i] = Table(o)) <=> IsLeft(left, Table(o)) /\ ~IsLeft(rest, Table(o))
    BY <1>6
  <2> HIDE DEF done
  <2>4. QED
    BY <2>1, <2>2, <2>3
<1> HIDE DEF done
<1>9. rows \in SUBSET Obj /\ AllIn(rows, m0)
  BY <1>6 DEF unsent, UnsentRows, AllIn
<1> DEFINE new == MergeChunk(r0, Packed(m0, rows, s.usn), NewsSince(r0, d.usn))
<1>10. /\ new \in Collection /\ new.graves = r0.graves /\ new.scm = r0.scm
       /\ \A o \in Obj : new.rows[o] = IF Accepted(r0, m0, rows, NewsSince(r0, d.usn), o)
                                       THEN [m0.rows[o] EXCEPT !.usn = s.usn] ELSE r0.rows[o]
  <2>1. s.usn \in Nat
    BY DEF P!Collection
  <2>2. QED
    BY <1>9, <2>1, MergeOK
<1> HIDE DEF new
<1>11. \A o \in Obj : /\ newRows[o] \in Row
                      /\ newRows[o] = IF o \in done THEN [m0.rows[o] EXCEPT !.usn = s.usn] ELSE m0.rows[o]
  <2> SUFFICES ASSUME NEW o \in Obj
               PROVE  /\ newRows[o] \in Row
                      /\ newRows[o] = IF o \in done THEN [m0.rows[o] EXCEPT !.usn = s.usn] ELSE m0.rows[o]
    OBVIOUS
  <2>1. newRows[o] = IF o \in done THEN [m0.rows[o] EXCEPT !.usn = s.usn] ELSE m0.rows[o]
    OBVIOUS
  <2>2. m0.rows[o] \in Row /\ s.usn \in Nat
    BY DEF Collection, P!Collection
  <2>3. o \in done => m0.rows[o] # Absent
    BY <1>8 DEF unsent, UnsentRows, Has
  <2>4. QED
    BY <2>1, <2>2, <2>3, FlatMarked
<1>12. newRows = [o \in Obj |-> newRows[o]]
  OBVIOUS
<1> HIDE DEF newRows
<1>13. /\ m \in Collection /\ m.rows = newRows /\ m.graves = m0.graves
       /\ m.scm = m0.scm /\ m.usn = m0.usn
  <2>1. newRows \in [Obj -> Row]
    BY <1>11, <1>12
  <2>2. QED
    BY <2>1 DEF Collection
<1> HIDE DEF m
<1>14. mem'[c] = m
  BY <1>3, <1>4 DEF Typed
<1>15. /\ remote' \in Remote /\ remote'.col = new /\ remote'.client = remote.client
       /\ remote'.minUsn = remote.minUsn /\ remote'.maxUsn = remote.maxUsn /\ remote' # NoSession
  BY <1>3, <1>4, <1>10 DEF Remote, NoSession, new
<1>16. /\ session'[c] \in Session
       /\ session'[c].minUsn = session[c].minUsn /\ session'[c].maxUsn = session[c].maxUsn
       /\ session'[c].phase = IF rest = <<>> THEN "checking" ELSE "uploading"
       /\ rest = <<>> => session'[c].sent = {}
       /\ rest # <<>> => session'[c].left = rest /\ session'[c].sent = sent \cup rows
  <2>1. session'[c] = IF rest = <<>>
                      THEN [session[c] EXCEPT !.phase = "checking", !.left = <<>>, !.sent = {}]
                      ELSE [session[c] EXCEPT !.left = rest, !.sent = sent \cup rows]
    BY <1>3, <1>4 DEF Typed
  <2>2. "checking" \in Phases /\ <<>> \in Lefts
    BY DEF Phases, Lefts
  <2> HIDE DEF Phases
  <2>3. CASE rest = <<>>
    BY <1>3, <2>1, <2>2, <2>3 DEF Session
  <2>4. CASE rest # <<>>
    <3>1. rest \in Lefts /\ sent \cup rows \in SUBSET Obj /\ session[c].phase = "uploading"
      BY <1>1, <1>6, <1>9 DEF In
    <3>2. session'[c] = [session[c] EXCEPT !.left = rest, !.sent = sent \cup rows]
      BY <2>1, <2>4
    <3>3. QED
      BY <1>3, <2>4, <3>1, <3>2 DEF Session
  <2>5. QED
    BY <2>3, <2>4
<1>17. Typed' /\ OthersKeep(c)
  <2>1. session' \in [Clients -> Session]
    BY <1>3, <1>4, <1>16 DEF Typed
  <2>2. mem' \in [Clients -> Collection]
    BY <1>3, <1>4, <1>13 DEF Typed
  <2>3. Typed'
    BY <1>1, <1>3, <1>15, <2>1, <2>2 DEF Typed
  <2>4. OthersKeep(c)
    BY <1>1, <1>3, <1>4 DEF Typed, OthersKeep
  <2>5. QED
    BY <2>3, <2>4
<1>18. /\ Open(c)'
       /\ \A phase : In(c, phase)' <=> phase = IF rest = <<>> THEN "checking" ELSE "uploading"
  BY <1>16 DEF Open, In
<1>19. Begun(c)'
  BY <1>1, <1>3, <1>13, <1>14, <1>16, <1>18 DEF Begun
<1>20. disk'[c] = disk[c] /\ server' = server
  BY <1>1
<1>21. ASSUME NEW o \in Obj PROVE RowInSession(c, o)'
  <2>1. CASE o \in Small
    <3>1. /\ ~Accepted(r0, m0, rows, NewsSince(r0, d.usn), o) /\ o \notin done
      BY <1>6, <1>8, <2>1 DEF Accepted
    <3>2. Flat(new).rows[o] = Flat(r0).rows[o] /\ Flat(m).rows[o] = Flat(m0).rows[o]
      BY <1>10, <1>11, <1>13, <3>1 DEF Flat
    <3>3. ExchangedRow(Flat(m0).rows[o], Flat(r0).rows[o], d, s, o)
      BY <1>1, <1>3, <2>1 DEF RowInSession
    <3>4. QED
      BY <1>14, <1>15, <1>18, <1>20, <2>1, <3>2, <3>3 DEF RowInSession
  <2>2. CASE o \notin Small
    <3>1. UploadingRow(Flat(m0).rows[o], Flat(r0).rows[o], d, s, o, left, sent)
      BY <1>1, <1>3, <2>2 DEF RowInSession
    <3>2. o \in unsent <=> IsUnsent(Flat(m0).rows[o])
      <4>1. Flat(m0).rows[o] = [mod |-> m0.rows[o].mod, usn |-> m0.rows[o].usn]
        BY FlatRow
      <4>2. IsUnsent(m0.rows[o]) => Has(m0, o)
        BY DEF Has, Absent, IsUnsent, Unsent
      <4>3. QED
        BY <4>1, <4>2 DEF unsent, UnsentRows, IsUnsent
    <3>3. Flat(new).rows[o] = IF o \in sent \cup rows THEN ServerRow(d, s, o) ELSE Held(d, s, o)
      <4>1. CASE o \in rows
        <5>1. o \notin sent /\ IsLeft(left, Table(o)) /\ o \in unsent
          BY <1>6, <4>1
        <5>2. Flat(m0).rows[o] = Fetched(d, s, o) /\ Flat(r0).rows[o] = Held(d, s, o)
          BY <3>1, <5>1 DEF UploadingRow
        <5>3. IsUnsent(Fetched(d, s, o))
          BY <3>2, <5>1, <5>2
        <5>4. new.rows[o] = IF Accepted(r0, m0, rows, NewsSince(r0, d.usn), o)
                            THEN [m0.rows[o] EXCEPT !.usn = s.usn] ELSE r0.rows[o]
          BY <1>10
        <5>5. o \in rows \ Small
          BY <2>2, <4>1
        <5>6. Flat(new).rows[o] = ServerRow(d, s, o)
          <6>1. rows \in SUBSET Obj /\ new \in Collection
            BY <1>9, <1>10
          <6>2. Delivered(new, r0, m0, rows, d, s, o)
            BY <5>4 DEF Delivered
          <6>3. QED
            BY <5>2, <5>3, <5>5, <6>1, <6>2, DeliveredRow
        <5>7. QED
          BY <4>1, <5>6
      <4>2. CASE o \notin rows
        <5>1. Flat(new).rows[o] = Flat(r0).rows[o]
          BY <1>10, <4>2 DEF Flat, Accepted
        <5>2. QED
          BY <3>1, <4>2, <5>1 DEF UploadingRow
      <4>3. QED
        BY <4>1, <4>2
    <3>4. Flat(m).rows[o] = IF IsLeft(rest, Table(o)) THEN Fetched(d, s, o) ELSE ClientRow(d, s, o)
      <4>1. CASE o \in done
        <5>1. o \in unsent /\ IsLeft(left, Table(o)) /\ ~IsLeft(rest, Table(o))
          BY <1>8, <4>1
        <5>2. Flat(m0).rows[o] = Fetched(d, s, o) /\ IsUnsent(Fetched(d, s, o))
          BY <3>1, <3>2, <5>1 DEF UploadingRow
        <5>3. ClientRow(d, s, o) = [Flat(m0).rows[o] EXCEPT !.usn = s.usn]
          BY <2>2, <5>2, FetchedFacts
        <5>4. m0.rows[o] # Absent /\ m0.rows[o] \in Row /\ s.usn \in Nat
          BY <5>1 DEF unsent, UnsentRows, Has, Collection, P!Collection
        <5>5. m.rows[o] = [m0.rows[o] EXCEPT !.usn = s.usn]
          BY <1>11, <1>13, <4>1
        <5>6. Flat(m).rows[o] = [Flat(m0).rows[o] EXCEPT !.usn = s.usn]
          <6>1. /\ Flat(m).rows[o] = [mod |-> m.rows[o].mod, usn |-> m.rows[o].usn]
                /\ Flat(m0).rows[o] = [mod |-> m0.rows[o].mod, usn |-> m0.rows[o].usn]
            BY <1>13, FlatRow
          <6>2. [mod |-> [m0.rows[o] EXCEPT !.usn = s.usn].mod,
                 usn |-> [m0.rows[o] EXCEPT !.usn = s.usn].usn]
                  = [[mod |-> m0.rows[o].mod, usn |-> m0.rows[o].usn] EXCEPT !.usn = s.usn]
            BY <5>4, FlatMarked
          <6>3. QED
            BY <5>5, <6>1, <6>2
        <5>7. QED
          BY <5>1, <5>3, <5>6
      <4>2. CASE o \notin done
        <5>1. Flat(m).rows[o] = Flat(m0).rows[o]
          BY <1>11, <1>13, <4>2 DEF Flat
        <5>2. CASE IsLeft(left, Table(o)) /\ ~IsLeft(rest, Table(o))
          <6>1. o \notin unsent
            BY <1>8, <2>2, <4>2, <5>2
          <6>2. Flat(m0).rows[o] = Fetched(d, s, o) /\ ~IsUnsent(Fetched(d, s, o))
            BY <3>1, <3>2, <5>2, <6>1 DEF UploadingRow
          <6>3. QED
            BY <2>2, <5>1, <5>2, <6>2, FetchedFacts
        <5>3. CASE ~(IsLeft(left, Table(o)) /\ ~IsLeft(rest, Table(o)))
          <6>1. IsLeft(rest, Table(o)) <=> IsLeft(left, Table(o))
            BY <1>6, <5>3
          <6>2. QED
            BY <3>1, <5>1, <6>1 DEF UploadingRow
        <5>4. QED
          BY <5>2, <5>3
      <4>3. QED
        BY <4>1, <4>2
    <3>5. ~IsLeft(rest, Table(o)) /\ IsUnsent(Fetched(d, s, o)) => o \in sent \cup rows
      <4> SUFFICES ASSUME ~IsLeft(rest, Table(o)), IsUnsent(Fetched(d, s, o)), o \notin sent
                   PROVE  o \in rows
        OBVIOUS
      <4>1. IsLeft(left, Table(o))
        BY <3>1 DEF UploadingRow
      <4>2. o \in unsent
        BY <3>1, <3>2, <4>1 DEF UploadingRow
      <4>3. QED
        BY <1>6, <2>2, <4>1, <4>2
    <3>6. CASE rest # <<>>
      <4>1. UploadingRow(Flat(m).rows[o], Flat(new).rows[o], d, s, o, rest, sent \cup rows)
        BY <3>3, <3>4, <3>5 DEF UploadingRow
      <4>2. QED
        BY <1>14, <1>15, <1>16, <1>18, <1>20, <2>2, <3>6, <4>1 DEF RowInSession
    <3>7. CASE rest = <<>>
      <4>1. Flat(m).rows[o] = ClientRow(d, s, o)
        BY <3>4, <3>7, AllTablesLeft
      <4>2. Flat(new).rows[o] = ServerRow(d, s, o)
        BY <2>2, <3>3, <3>5, <3>7, AllTablesLeft, FetchedFacts
      <4>3. ExchangedRow(Flat(m).rows[o], Flat(new).rows[o], d, s, o)
        BY <4>1, <4>2 DEF ExchangedRow
      <4>4. QED
        BY <1>14, <1>15, <1>18, <1>20, <2>2, <3>7, <4>3 DEF RowInSession
    <3>8. QED
      BY <3>6, <3>7
  <2>3. QED
    BY <2>1, <2>2
<1>22. Opened(c)'
  <2>1. Flat(new).graves = Flat(r0).graves /\ Flat(m).graves = Flat(m0).graves
    BY <1>10, <1>13 DEF Flat
  <2>2. QED
    BY <1>3, <1>10, <1>14, <1>15, <1>18, <1>20, <1>21, <2>1 DEF Opened
<1>23. QED
  BY <1>1, <1>3, <1>17, <1>18, <1>19, <1>22, OpenStep

-----------------------------------------------------------------------------
(* The end of a session.                                                   *)

\* What CollectionSync knows of a client whose schema is the server's.
LEMMA Standing ==
  ASSUME IInv, NEW c \in Clients
  PROVE  /\ P!ColOK(Flat(disk[c])) /\ P!ServerOK(Flat(server))
         /\ disk[c].scm = server.scm => P!InStep(Flat(disk[c]), Flat(server))
  BY DEF IInv, P!IInv

\* Of two collections with as many rows of each kind, one cannot have a row
\* more.
LEMMA CountsTell ==
  ASSUME NEW m, NEW r, \A o \in Obj : Has(r, o) => Has(m, o), SameCounts(m, r)
  PROVE  \A o \in Obj : Has(m, o) => Has(r, o)
<1> DEFINE There(col, S) == {o \in S : Has(col, o)}
<1>1. ASSUME NEW S \in {Logs, Cards, Notes, Decks, Models}
      PROVE  There(m, S) = There(r, S)
  <2>1. S \in SUBSET Obj
    BY Constants
  <2>2. There(m, S) \in SUBSET Obj /\ There(r, S) \in SUBSET There(m, S)
    BY <2>1
  <2>3. Cardinality(There(m, S)) = Cardinality(There(r, S))
    BY DEF SameCounts, Count
  <2>4. IsFiniteSet(There(m, S))
    BY <2>2, Constants, FS_Subset
  <2> HIDE DEF There
  <2>5. QED
    BY <2>2, <2>3, <2>4, FS_Subset
<1>2. QED
  BY <1>1 DEF Obj

\* Whatever the server has after the exchange, the client has too; it lacks
\* what has a grave the client sent and is still there.
LEMMA SidesDiffer ==
  ASSUME NEW d, NEW s, P!ColOK(d), P!ServerOK(s), s = Flat(server), P!InStep(d, s), NEW o \in Obj
  PROVE  /\ ServerRow(d, s, o) # P!Absent => ClientRow(d, s, o) # P!Absent
         /\ ~P!WholeAt(d, o) => /\ ClientRow(d, s, o) # P!Absent
                                /\ ServerRow(d, s, o) = P!Absent
<1>1. d \in P!Collection /\ s \in P!Collection
  BY DEF P!ColOK, P!ServerOK
<1>2. /\ P!ClientAfter(d).rows[o] = ClientRow(d, s, o)
      /\ P!ServerAfter(d).rows[o] = ServerRow(d, s, o)
  BY SameExchange
<1>3. ClientRow(d, s, o) \in P!Row /\ ServerRow(d, s, o) \in P!Row
  BY <1>1, RowMods
<1>4. CASE P!WholeAt(d, o)
  <2>1. P!Age(o, ClientRow(d, s, o)) = P!Age(o, ServerRow(d, s, o))
    BY <1>2, <1>4, P!MergedEqual
  <2>2. QED
    BY <1>3, <1>4, <2>1, P!AgeFacts
<1>5. CASE ~P!WholeAt(d, o)
  <2>1. /\ [obj |-> o, usn |-> Unsent] \in d.graves
        /\ Kept(d, s, o) # P!Absent /\ ~IsUnsent(Kept(d, s, o))
    BY <1>5, SameMerge DEF P!WholeAt, P!UnsentGrave, P!Unsent, Unsent, P!Sent, IsUnsent
  <2>2. Held(d, s, o) = P!Absent
    BY <2>1 DEF Held
  <2>3. ClientRow(d, s, o) = Kept(d, s, o)
    BY <2>1, <2>2 DEF ClientRow, ClientTook, Offered, MarkedRow
  <2>4. ServerRow(d, s, o) = P!Absent
    BY <2>1, <2>2 DEF ServerRow, ServerTook
  <2>5. QED
    BY <2>1, <2>3, <2>4
<1>6. QED
  BY <1>4, <1>5

LEMMA SanityCheckStep ==
  ASSUME IInv, NEW c \in Clients, SanityCheck(c)
  PROVE  Follows
<1>1. In(c, "checking") /\ SameCounts(mem[c], remote.col)
      /\ session' = [session EXCEPT ![c] = [session[c] EXCEPT !.phase = "checked"]]
      /\ UNCHANGED <<mem, disk, modified, server, remote, born, now, ops, fails, uploads>>
  BY DEF SanityCheck, Go
<1>2. Open(c)
  BY <1>1 DEF Open, In
<1>3. /\ Typed /\ Busy(c) /\ Begun(c) /\ Opened(c)
      /\ mem[c] \in Collection /\ session[c] \in Session /\ remote.col \in Collection
      /\ \A o \in Obj : RowInSession(c, o)
  BY <1>2, InAnOpenSession
<1> PICK d \in P!Collection : d = Flat(disk[c])
  BY <1>2, InAnOpenSession
<1> PICK s \in P!Collection : s = Flat(server)
  BY <1>2, InAnOpenSession
<1>4. P!ColOK(d) /\ P!ServerOK(s) /\ P!InStep(d, s)
  BY <1>3, Standing DEF Begun
<1>5. ASSUME NEW o \in Obj
      PROVE  /\ Has(mem[c], o) <=> ClientRow(d, s, o) # P!Absent
             /\ Has(remote.col, o) <=> ServerRow(d, s, o) # P!Absent
  <2>1. ExchangedRow(Flat(mem[c]).rows[o], Flat(remote.col).rows[o], d, s, o)
    BY <1>1, <1>3 DEF RowInSession
  <2>2. QED
    BY <1>3, <2>1, FlatRow DEF ExchangedRow
<1>6. \A o \in Obj : Has(remote.col, o) => Has(mem[c], o)
  BY <1>4, <1>5, SidesDiffer
<1>7. \A o \in Obj : Has(mem[c], o) => Has(remote.col, o)
  BY <1>1, <1>6, CountsTell
<1>8. \A o \in Obj : P!WholeAt(d, o)
  BY <1>4, <1>5, <1>7, SidesDiffer
<1>9. WholeRows(d, s)
  BY <1>8, SameExchange DEF P!WholeAt, P!Whole
<1>10. /\ session'[c] \in Session /\ session'[c].phase = "checked"
       /\ session'[c].minUsn = session[c].minUsn /\ session'[c].maxUsn = session[c].maxUsn
       /\ session'[c].sent = session[c].sent
  <2>1. session'[c] = [session[c] EXCEPT !.phase = "checked"]
    BY <1>1, <1>3 DEF Typed
  <2>2. QED
    BY <1>3, <2>1 DEF Session, Phases
<1>11. Typed' /\ OthersKeep(c)
  <2>1. session' \in [Clients -> Session]
    BY <1>1, <1>3, <1>10 DEF Typed
  <2>2. QED
    BY <1>1, <1>3, <2>1 DEF Typed, OthersKeep
<1>12. Open(c)' /\ \A phase : In(c, phase)' <=> phase = "checked"
  BY <1>10 DEF Open, In
<1>13. session[c].sent = {}
  BY <1>1, <1>3 DEF Begun, In
<1>14. Begun(c)'
  BY <1>1, <1>3, <1>10, <1>13 DEF Begun
<1>15. ASSUME NEW o \in Obj PROVE RowInSession(c, o)'
  <2>1. ExchangedRow(Flat(mem[c]).rows[o], Flat(remote.col).rows[o], d, s, o)
    BY <1>1, <1>3 DEF RowInSession
  <2>2. QED
    BY <1>1, <1>12, <2>1 DEF RowInSession
<1>16. Opened(c)'
  BY <1>1, <1>3, <1>9, <1>12, <1>15 DEF Opened
<1>17. QED
  BY <1>1, <1>3, <1>11, <1>12, <1>14, <1>16, OpenStep

LEMMA SanityErrorStep ==
  ASSUME IInv, NEW c \in Clients, SanityError(c)
  PROVE  Follows
<1>1. /\ In(c, "checking") /\ now' = now + 1 /\ remote' = NoSession
      /\ session' = [session EXCEPT ![c] = Idle]
      /\ UNCHANGED <<modified, server, born, ops, fails, uploads>>
  BY DEF SanityError, Go
<1>2. Open(c)
  BY <1>1 DEF Open, In
<1>3. /\ Typed /\ Busy(c) /\ mem[c] \in Collection /\ disk[c] \in Collection
      /\ server \in Collection /\ modified[c] = FALSE /\ now \in Nat
  BY <1>2, InAnOpenSession DEF Typed
<1> PICK d \in Collection : d = disk[c]
  BY <1>3
<1> DEFINE new == [[[d EXCEPT !.scm = now + 1] EXCEPT !.mod = now + 1] EXCEPT !.conf = mem[c].conf]
<1>4. disk' = [disk EXCEPT ![c] = new] /\ mem' = [mem EXCEPT ![c] = disk'[c]]
  <2>1. disk' = [disk EXCEPT ![c].scm = now + 1, ![c].mod = now + 1, ![c].conf = mem[c].conf]
    BY <1>1 DEF SanityError
  <2>2. QED
    BY <1>3, <2>1 DEF Typed, SanityError
<1>5. /\ new \in Collection /\ new.scm = now + 1 /\ new.rows = d.rows
      /\ new.graves = d.graves /\ new.usn = d.usn
  <2>1. mem[c].conf \in Nat /\ now + 1 \in Nat
    BY <1>3 DEF Collection
  <2>2. QED
    BY <2>1 DEF Collection
<1> HIDE DEF new
<1>6. disk'[c] = new /\ mem'[c] = new /\ session'[c] = Idle
  BY <1>1, <1>3, <1>4 DEF Typed
<1>7. Typed' /\ OthersKeep(c)
  <2>1. session' \in [Clients -> Session]
    BY <1>1, <1>3, IdleTyped DEF Typed
  <2>2. Typed'
    BY <1>1, <1>3, <1>4, <1>5, <1>6, <2>1 DEF Typed
  <2>3. OthersKeep(c)
    BY <1>1, <1>3, <1>4 DEF Typed, OthersKeep
  <2>4. QED
    BY <2>2, <2>3
<1>8. In(c, "idle")' /\ ~Open(c)' /\ ~Busy(c)' /\ ~In(c, "finishing")' /\ ~In(c, "finishing")
  BY <1>1, <1>6, IdleTyped DEF In, Open, Busy
<1>9. \A k \in Clients \ {c} : ~Busy(k)
  BY <1>3 DEF IInv
<1>10. P!Next
  <2>1. Flat(new) = Flat(d)
    BY <1>5 DEF Flat
  <2>2. P!LocalEdit(Flat(disk[c]), Flat(new))
    BY <2>1, EditedFlat
  <2>3. new.scm # server.scm
    <3>1. server.scm \in Nat /\ server.scm <= now
      BY <1>3 DEF IInv, Past, Collection
    <3>2. QED
      BY <1>3, <1>5, <3>1
  <2>4. P!Edit(c)
    BY <1>1, <1>3, <1>4, <1>7, <1>8, <2>2, <2>3, NothingOwed, FileWritten
  <2>5. QED
    BY <2>4 DEF P!Next
<1>11. Past(disk[c])' /\ Past(mem[c])' /\ Past(server)'
  <2>1. Past(d) /\ Past(server)
    BY DEF IInv
  <2>2. \A o \in Obj : d.rows[o].mod <= Seconds(now') /\ server.rows[o].mod <= Seconds(now')
    BY <1>1, <1>3, <2>1, PastLater
  <2>3. server.scm <= now' /\ new.scm <= now'
    BY <1>1, <1>3, <1>5, <2>1, PastLater
  <2>4. QED
    BY <1>1, <1>5, <1>6, <2>2, <2>3 DEF Past
<1>12. SessionOK(c)'
  <2>1. Resting(c)'
    BY <1>5, <1>6, RestingFacts
  <2>2. QED
    BY <1>8, <2>1 DEF SessionOK, Busy, In
<1>13. QED
  BY <1>1, <1>7, <1>8, <1>9, <1>10, <1>11, <1>12, StepOK

LEMMA ServerFinishStep ==
  ASSUME IInv, NEW c \in Clients, ServerFinish(c)
  PROVE  Follows
<1>1. /\ In(c, "checked") /\ now' = now + 1 /\ remote' = NoSession
      /\ server' = [[remote.col EXCEPT !.mod = now'] EXCEPT !.usn = remote.maxUsn + 1]
      /\ session' = [session EXCEPT ![c] = [[session[c] EXCEPT !.phase = "finishing"] EXCEPT !.mod = now']]
      /\ UNCHANGED <<mem, disk, modified, born, ops, fails, uploads>>
  BY DEF ServerFinish, Go
<1>2. Open(c)
  BY <1>1 DEF Open, In
<1>3. /\ Typed /\ Busy(c) /\ Begun(c) /\ Opened(c)
      /\ mem[c] \in Collection /\ disk[c] \in Collection /\ server \in Collection
      /\ session[c] \in Session /\ remote.col \in Collection /\ modified[c] = FALSE
      /\ remote.maxUsn = Flat(server).usn /\ session[c].maxUsn = Flat(server).usn
      /\ Flat(server).usn \in Nat /\ now \in Nat
      /\ \A o \in Obj : RowInSession(c, o)
  BY <1>2, InAnOpenSession DEF Typed
<1> PICK d \in P!Collection : d = Flat(disk[c])
  BY <1>2, InAnOpenSession
<1> PICK s \in P!Collection : s = Flat(server)
  BY <1>2, InAnOpenSession
<1>4. \A o \in Obj : ExchangedRow(Flat(mem[c]).rows[o], Flat(remote.col).rows[o], d, s, o)
  BY <1>1, <1>3 DEF RowInSession
<1>5. /\ server' \in Collection /\ server'.rows = remote.col.rows
      /\ server'.graves = remote.col.graves /\ server'.scm = remote.col.scm
      /\ server'.usn = s.usn + 1
  <2> PICK r0 \in Collection : r0 = remote.col
    BY <1>3
  <2>1. now' \in Nat /\ s.usn + 1 \in Nat
    BY <1>1, <1>3
  <2>2. server' = [[r0 EXCEPT !.mod = now'] EXCEPT !.usn = s.usn + 1]
    BY <1>1, <1>3
  <2>3. QED
    BY <2>1, <2>2 DEF Collection
<1>6. /\ session'[c] \in Session /\ session'[c].phase = "finishing"
      /\ session'[c].maxUsn = s.usn
  <2>1. session'[c] = [[session[c] EXCEPT !.phase = "finishing"] EXCEPT !.mod = now']
    BY <1>1, <1>3 DEF Typed
  <2>2. now' \in Nat /\ "finishing" \in Phases
    BY <1>1, <1>3 DEF Phases
  <2>3. QED
    BY <1>3, <2>1, <2>2 DEF Session
<1>7. Typed' /\ OthersKeep(c)
  <2>1. session' \in [Clients -> Session]
    BY <1>1, <1>3, <1>6 DEF Typed
  <2>2. Typed'
    BY <1>1, <1>3, <1>5, <2>1 DEF Typed
  <2>3. OthersKeep(c)
    BY <1>1, <1>3 DEF Typed, OthersKeep
  <2>4. QED
    BY <2>2, <2>3
<1>8. \A phase : In(c, phase)' <=> phase = "finishing"
  BY <1>6 DEF In
<1>9. ~Open(c)' /\ ~Busy(c)'
  BY <1>6 DEF In, Open, Busy
<1>10. \A k \in Clients \ {c} : ~Busy(k)
  BY <1>3 DEF IInv
<1>11. P!Next
  <2>1. Flat(server') = P!ServerAfter(d)
    <3>1. Flat(server').rows = [o \in Obj |-> ServerRow(d, s, o)]
      <4>1. \A o \in Obj : [mod |-> server'.rows[o].mod, usn |-> server'.rows[o].usn] = ServerRow(d, s, o)
        BY <1>4, <1>5 DEF ExchangedRow, Flat
      <4>2. QED
        BY <4>1 DEF Flat
    <3>2. Flat(server').graves = ServerGraves(d, s)
      <4>1. Flat(remote.col).graves = ServerGraves(d, s)
        BY <1>3 DEF Opened
      <4>2. Flat(server').graves = Flat(remote.col).graves
        BY <1>5 DEF Flat
      <4>3. QED
        BY <4>1, <4>2
    <3>3. Flat(server').usn = s.usn + 1
      BY <1>5 DEF Flat
    <3>4. Flat(server') = [rows |-> Flat(server').rows, graves |-> Flat(server').graves,
                           usn |-> Flat(server').usn]
      BY DEF Flat
    <3>5. QED
      BY <3>1, <3>2, <3>3, <3>4, SameExchange
  <2>2. Owed(c)' = P!ClientAfter(d)
    <3> DEFINE col == [mem[c] EXCEPT !.usn = s.usn + 1]
    <3>1. Owed(c)' = Flat(col)
      BY <1>1, <1>6, <1>8 DEF Owed, Committed
    <3>2. col.rows = mem[c].rows /\ col.graves = mem[c].graves /\ col.usn = s.usn + 1
      BY <1>3 DEF Collection
    <3> HIDE DEF col
    <3>3. Flat(col).rows = [o \in Obj |-> ClientRow(d, s, o)]
      <4>1. \A o \in Obj : [mod |-> col.rows[o].mod, usn |-> col.rows[o].usn] = ClientRow(d, s, o)
        BY <1>4, <3>2 DEF ExchangedRow, Flat
      <4>2. QED
        BY <4>1 DEF Flat
    <3>4. Flat(col).graves = ClientGraves(d, s)
      <4>1. Flat(mem[c]).graves = ClientGraves(d, s)
        BY <1>3 DEF Opened
      <4>2. Flat(col).graves = Flat(mem[c]).graves
        BY <3>2 DEF Flat
      <4>3. QED
        BY <4>1, <4>2
    <3>5. Flat(col).usn = s.usn + 1
      BY <3>2 DEF Flat
    <3>6. Flat(col) = [rows |-> Flat(col).rows, graves |-> Flat(col).graves, usn |-> Flat(col).usn]
      BY DEF Flat
    <3>7. QED
      BY <3>1, <3>3, <3>4, <3>5, <3>6, SameExchange
  <2>3. WholeRows(d, s) /\ disk[c].scm = server.scm /\ server'.scm = server.scm
    BY <1>1, <1>3, <1>5 DEF Opened, Begun
  <2>4. Owed(c) = P!Nothing
    BY <1>1, NotOwed DEF In
  <2>5. \A k \in Clients \ {c} : Owed(k)' = Owed(k)
    BY <1>7, OthersOwed
  <2>6. P!ServerCommits(c)
    BY <1>1, <1>3, <2>1, <2>2, <2>3, <2>4, <2>5, ServerCommitted
  <2>7. QED
    BY <2>6 DEF P!Next
<1>12. Past(disk[c])' /\ Past(mem[c])' /\ Past(server)'
  <2>1. Past(disk[c]) /\ Past(mem[c]) /\ Past(remote.col)
    BY <1>1, <1>3 DEF IInv, In, Opened
  <2>2. \A o \in Obj : /\ disk[c].rows[o].mod <= Seconds(now') /\ mem[c].rows[o].mod <= Seconds(now')
                       /\ remote.col.rows[o].mod <= Seconds(now')
    BY <1>1, <1>3, <2>1, PastLater
  <2>3. disk[c].scm <= now' /\ mem[c].scm <= now' /\ remote.col.scm <= now'
    BY <1>1, <1>3, <2>1, PastLater
  <2>4. QED
    BY <1>1, <1>5, <2>2, <2>3 DEF Past
<1>13. SessionOK(c)'
  BY <1>1, <1>3, <1>8, <1>9 DEF SessionOK, Begun
<1>14. server'.scm = server.scm
  BY <1>3, <1>5 DEF Opened
<1>15. QED
  BY <1>1, <1>3, <1>7, <1>9, <1>10, <1>11, <1>12, <1>13, <1>14, StepOK

LEMMA ClientFinishStep ==
  ASSUME IInv, NEW c \in Clients, ClientFinish(c)
  PROVE  Follows
<1> DEFINE new == [[mem[c] EXCEPT !.mod = session[c].mod] EXCEPT !.usn = session[c].maxUsn + 1]
<1>1. /\ In(c, "finishing")
      /\ mem' = [mem EXCEPT ![c] = new] /\ disk' = [disk EXCEPT ![c] = new]
      /\ session' = [session EXCEPT ![c] = Idle]
      /\ UNCHANGED <<modified, server, remote, born, now, ops, fails, uploads>>
  BY DEF ClientFinish, Go
<1>2. /\ Typed /\ mem[c] \in Collection /\ session[c] \in Session /\ now \in Nat
      /\ mem[c].scm = disk[c].scm /\ Past(mem[c]) /\ Past(server)
      /\ ~Open(c) /\ ~Busy(c) /\ ~modified[c]
  BY <1>1 DEF IInv, Typed, SessionOK, In, Open, Busy
<1>3. /\ new \in Collection /\ new.scm = mem[c].scm /\ new.rows = mem[c].rows
      /\ new.graves = mem[c].graves /\ new.usn = session[c].maxUsn + 1
  <2> PICK m0 \in Collection : m0 = mem[c]
    BY <1>2
  <2>1. session[c].mod \in Nat /\ session[c].maxUsn + 1 \in Nat
    BY <1>2 DEF Session
  <2>2. new = [[m0 EXCEPT !.mod = session[c].mod] EXCEPT !.usn = session[c].maxUsn + 1]
    OBVIOUS
  <2> HIDE DEF new
  <2>3. QED
    BY <2>1, <2>2 DEF Collection
<1>4. Flat(new) = Owed(c)
  <2> DEFINE col == [mem[c] EXCEPT !.usn = session[c].maxUsn + 1]
  <2>1. Owed(c) = Flat(col)
    BY <1>1 DEF Owed, Committed
  <2>2. col.rows = mem[c].rows /\ col.graves = mem[c].graves /\ col.usn = session[c].maxUsn + 1
    BY <1>2 DEF Collection
  <2> HIDE DEF col, new
  <2>3. QED
    BY <1>3, <2>1, <2>2 DEF Flat
<1> HIDE DEF new
<1>5. disk'[c] = new /\ mem'[c] = new /\ session'[c] = Idle
  BY <1>1, <1>2 DEF Typed
<1>6. Typed' /\ OthersKeep(c)
  <2>1. session' \in [Clients -> Session]
    BY <1>1, <1>2, IdleTyped DEF Typed
  <2>2. Typed'
    BY <1>1, <1>2, <1>3, <2>1 DEF Typed
  <2>3. OthersKeep(c)
    BY <1>1, <1>2 DEF Typed, OthersKeep
  <2>4. QED
    BY <2>2, <2>3
<1>7. In(c, "idle")' /\ ~Open(c)' /\ ~Busy(c)' /\ ~In(c, "finishing")'
  BY <1>5, IdleTyped DEF In, Open, Busy
<1>8. P!Next
  <2>1. P!ClientCommits(c)
    BY <1>1, <1>2, <1>3, <1>4, <1>6, <1>7, OthersOwed, ClientCommitted
  <2>2. QED
    BY <2>1 DEF P!Next
<1>9. Past(disk[c])' /\ Past(mem[c])' /\ Past(server)'
  BY <1>1, <1>2, <1>3, <1>5 DEF Past
<1>10. remote' # NoSession => Past(remote.col)'
  BY <1>1 DEF IInv, Past
<1>11. SessionOK(c)'
  <2>1. Resting(c)'
    BY <1>3, <1>5, RestingFacts
  <2>2. QED
    BY <1>7, <2>1 DEF SessionOK, Busy, In
<1>12. QED
  BY <1>1, <1>2, <1>6, <1>7, <1>8, <1>9, <1>10, <1>11, StepOK

-----------------------------------------------------------------------------
(* Full syncs.                                                             *)

LEMMA PreparedFlat ==
  ASSUME NEW col \in Collection, NEW t \in Nat
  PROVE  /\ BeforeUpload(col, t) \in Collection
         /\ Flat(BeforeUpload(col, t)) = P!Prepared(Flat(col))
         /\ BeforeUpload(col, t).scm = t
         /\ \A o \in Obj : BeforeUpload(col, t).rows[o].mod = col.rows[o].mod
<1> DEFINE rows == [o \in Obj |-> IF col.rows[o] # Absent /\ IsUnsent(col.rows[o])
                                  THEN [col.rows[o] EXCEPT !.usn = 0] ELSE col.rows[o]]
           new == [[[[[col EXCEPT !.rows = rows] EXCEPT !.graves = <<>>] EXCEPT !.usn = col.usn + 1]
                     EXCEPT !.scm = t] EXCEPT !.mod = t]
<1>1. BeforeUpload(col, t) = new
  BY DEF BeforeUpload, Collection
<1>2. ASSUME NEW o \in Obj
      PROVE  /\ rows[o] \in Row /\ rows[o].mod = col.rows[o].mod
             /\ [mod |-> rows[o].mod, usn |-> rows[o].usn] = P!Prepared(Flat(col)).rows[o]
  <2>1. /\ Flat(col).rows[o] = [mod |-> col.rows[o].mod, usn |-> col.rows[o].usn]
        /\ col.rows[o] \in Row
    BY FlatRow
  <2>2. P!Prepared(Flat(col)).rows[o] = IF IsUnsent(col.rows[o])
                                        THEN [Flat(col).rows[o] EXCEPT !.usn = 0]
                                        ELSE Flat(col).rows[o]
    BY <2>1 DEF P!Prepared, P!UnsentRow, P!Unsent, IsUnsent, Unsent
  <2>3. CASE IsUnsent(col.rows[o])
    <3>1. col.rows[o] # Absent
      BY <2>3 DEF IsUnsent, Unsent, Absent
    <3>2. rows[o] = [col.rows[o] EXCEPT !.usn = 0]
      BY <2>3, <3>1
    <3> PICK r \in Row : r = col.rows[o]
      BY <2>1
    <3>3. /\ [r EXCEPT !.usn = 0] \in Row
          /\ [mod |-> [r EXCEPT !.usn = 0].mod, usn |-> [r EXCEPT !.usn = 0].usn]
               = [[mod |-> r.mod, usn |-> r.usn] EXCEPT !.usn = 0]
      BY <3>1, FlatMarked
    <3>4. [r EXCEPT !.usn = 0].mod = r.mod
      BY <2>1, <3>1 DEF Row
    <3>5. QED
      BY <2>1, <2>2, <2>3, <3>2, <3>3, <3>4
  <2>4. CASE ~IsUnsent(col.rows[o])
    BY <2>1, <2>2, <2>4
  <2>5. QED
    BY <2>3, <2>4
<1>3. rows = [o \in Obj |-> rows[o]]
  OBVIOUS
<1> HIDE DEF rows
<1>4. rows \in [Obj -> Row]
  BY <1>2, <1>3
<1>5. /\ new \in Collection /\ new.rows = rows /\ new.graves = <<>> /\ new.usn = col.usn + 1
      /\ new.scm = t
  <2>1. col.usn + 1 \in Nat /\ <<>> \in Seq(Grave)
    BY DEF Collection
  <2> DEFINE c1 == [col EXCEPT !.rows = rows]
             c2 == [c1 EXCEPT !.graves = <<>>]
             c3 == [c2 EXCEPT !.usn = col.usn + 1]
             c4 == [c3 EXCEPT !.scm = t]
  <2>2. new = [c4 EXCEPT !.mod = t]
    OBVIOUS
  <2>3. c1 \in Collection /\ c1.rows = rows
    BY <1>4 DEF Collection
  <2> HIDE DEF c1
  <2>4. c2 \in Collection /\ c2.rows = rows /\ c2.graves = <<>>
    BY <2>1, <2>3 DEF Collection
  <2> HIDE DEF c2
  <2>5. c3 \in Collection /\ c3.rows = rows /\ c3.graves = <<>> /\ c3.usn = col.usn + 1
    BY <2>1, <2>4 DEF Collection
  <2> HIDE DEF c3
  <2>6. c4 \in Collection /\ c4.rows = rows /\ c4.graves = <<>> /\ c4.usn = col.usn + 1 /\ c4.scm = t
    BY <2>5 DEF Collection
  <2> HIDE DEF c4, new
  <2>7. QED
    BY <2>2, <2>6 DEF Collection
<1> HIDE DEF new
<1>6. Flat(new) = P!Prepared(Flat(col))
  <2>1. Flat(new).rows = P!Prepared(Flat(col)).rows
    <3>1. P!Prepared(Flat(col)).rows = [o \in Obj |-> P!Prepared(Flat(col)).rows[o]]
      BY DEF P!Prepared
    <3>2. \A o \in Obj : [mod |-> new.rows[o].mod, usn |-> new.rows[o].usn] = P!Prepared(Flat(col)).rows[o]
      BY <1>2, <1>5
    <3>3. Flat(new).rows = [o \in Obj |-> [mod |-> new.rows[o].mod, usn |-> new.rows[o].usn]]
      BY DEF Flat
    <3>4. QED
      BY <3>1, <3>2, <3>3
  <2>2. Flat(new).graves = {}
    BY <1>5 DEF Flat
  <2>3. Flat(new).usn = Flat(col).usn + 1
    BY <1>5 DEF Flat
  <2>4. Flat(new) = [rows |-> Flat(new).rows, graves |-> Flat(new).graves, usn |-> Flat(new).usn]
    BY DEF Flat
  <2>5. P!Prepared(Flat(col)) = [rows |-> P!Prepared(Flat(col)).rows, graves |-> {},
                                 usn |-> Flat(col).usn + 1]
    BY DEF P!Prepared
  <2>6. QED
    BY <2>1, <2>2, <2>3, <2>4, <2>5
<1>7. QED
  BY <1>1, <1>2, <1>5, <1>6

\* Between syncs, with nothing unsaved, memory is the file.
LEMMA FullSyncFacts ==
  ASSUME IInv, NEW c \in Clients, FullSyncOffered(c)
  PROVE  /\ Typed /\ In(c, "idle") /\ mem[c] = disk[c] /\ disk[c] \in Collection
         /\ server \in Collection /\ now \in Nat /\ modified[c] = FALSE
         /\ ~Open(c) /\ ~Busy(c) /\ ~In(c, "finishing")
         /\ Past(disk[c]) /\ Past(server)
<1>1. In(c, "idle") /\ ~modified[c]
  BY DEF FullSyncOffered
<1>2. Typed /\ modified[c] \in BOOLEAN
  BY DEF IInv, Typed
<1>3. Resting(c)
  BY <1>1 DEF IInv, SessionOK
<1>4. QED
  BY <1>1, <1>2, <1>3 DEF IInv, Typed, Resting, In, Open, Busy

LEMMA FullUploadStep ==
  ASSUME IInv, NEW c \in Clients, FullUpload(c)
  PROVE  Follows
<1> DEFINE new == BeforeUpload(disk[c], now + 1)
<1>1. /\ FullSyncOffered(c) /\ ServerFree /\ now' = now + 1
      /\ disk' = [disk EXCEPT ![c] = new] /\ mem' = [mem EXCEPT ![c] = disk'[c]]
      /\ server' = disk'[c] \/ server' = server
      /\ uploads' = uploads + 1 /\ fails' \in {fails, fails + 1}
      /\ UNCHANGED <<modified, session, remote, born, ops>>
  BY DEF FullUpload
<1>2. /\ Typed /\ In(c, "idle") /\ mem[c] = disk[c] /\ disk[c] \in Collection
      /\ server \in Collection /\ now \in Nat /\ modified[c] = FALSE
      /\ ~Open(c) /\ ~Busy(c) /\ ~In(c, "finishing")
      /\ Past(disk[c]) /\ Past(server)
  BY <1>1, FullSyncFacts
<1>3. /\ new \in Collection /\ Flat(new) = P!Prepared(Flat(disk[c])) /\ new.scm = now + 1
      /\ \A o \in Obj : new.rows[o].mod = disk[c].rows[o].mod
  <2>1. now + 1 \in Nat
    BY <1>2
  <2>2. QED
    BY <1>2, <2>1, PreparedFlat
<1> HIDE DEF new
<1>4. disk'[c] = new /\ mem'[c] = new /\ (server' = new \/ server' = server) /\ session'[c] = session[c]
  BY <1>1, <1>2 DEF Typed
<1>5. Typed' /\ OthersKeep(c)
  <2>1. fails' \in Nat /\ uploads' \in Nat /\ now' \in Nat
    BY <1>1, <1>2 DEF Typed
  <2>2. mem' \in [Clients -> Collection] /\ disk' \in [Clients -> Collection] /\ server' \in Collection
    BY <1>1, <1>2, <1>3, <1>4 DEF Typed
  <2>3. Typed'
    BY <1>1, <1>2, <2>1, <2>2 DEF Typed
  <2>4. OthersKeep(c)
    BY <1>1, <1>2 DEF Typed, OthersKeep
  <2>5. QED
    BY <2>3, <2>4
<1>6. In(c, "idle")' /\ ~Open(c)' /\ ~Busy(c)' /\ ~In(c, "finishing")'
  BY <1>2, <1>4 DEF In, Open, Busy
<1>7. \A k \in Clients : ~Busy(k) /\ ~Open(k)
  BY <1>1 DEF ServerFree, Busy, Open, In
<1>8. remote = NoSession
  BY <1>7 DEF IInv
<1>9. P!Next
  <2>1. Owed(c) = P!Nothing /\ \A k \in Clients : Owed(k)' = Owed(k)
    BY <1>2, <1>5, <1>6, NothingOwed
  <2>2. new.scm # server.scm /\ \A k \in Clients \ {c} : disk[k].scm # new.scm
    <3>1. server.scm \in Nat /\ server.scm <= now
      BY <1>2 DEF Past, Collection
    <3>2. \A k \in Clients : disk[k].scm \in Nat /\ disk[k].scm <= now
      BY <1>2 DEF IInv, Typed, Past, Collection
    <3>3. QED
      BY <1>2, <1>3, <3>1, <3>2
  <2>3. P!UploadAll(c)
    BY <1>1, <1>2, <1>3, <1>4, <2>1, <2>2, FullyUploaded
  <2>4. QED
    BY <2>3 DEF P!Next
<1>10. Past(disk[c])' /\ Past(mem[c])' /\ Past(server)'
  <2>1. \A o \in Obj : disk[c].rows[o].mod <= Seconds(now') /\ server.rows[o].mod <= Seconds(now')
    BY <1>1, <1>2, PastLater
  <2>2. server.scm <= now' /\ new.scm <= now'
    BY <1>1, <1>2, <1>3, PastLater
  <2>3. /\ \A o \in Obj : new.rows[o].mod <= Seconds(now') /\ server'.rows[o].mod <= Seconds(now')
        /\ server'.scm <= now'
    BY <1>3, <1>4, <2>1, <2>2
  <2>4. QED
    BY <1>4, <2>2, <2>3 DEF Past
<1>11. SessionOK(c)'
  <2>1. Resting(c)'
    BY <1>3, <1>4, RestingFacts
  <2>2. QED
    BY <1>6, <2>1 DEF SessionOK, Busy, In
<1>12. server'.scm = server.scm \/ server'.scm = now + 1
  BY <1>3, <1>4
<1>13. QED
  BY <1>1, <1>5, <1>6, <1>7, <1>8, <1>9, <1>10, <1>11, <1>12, StepOK

LEMMA FullDownloadStep ==
  ASSUME IInv, NEW c \in Clients, FullDownload(c)
  PROVE  Follows
<1>1. /\ FullSyncOffered(c) /\ disk' = [disk EXCEPT ![c] = server] /\ mem' = [mem EXCEPT ![c] = server]
      /\ UNCHANGED <<modified, session, server, remote, born, now, ops, fails, uploads>>
  BY DEF FullDownload
<1>2. /\ Typed /\ In(c, "idle") /\ mem[c] = disk[c] /\ disk[c] \in Collection
      /\ server \in Collection /\ now \in Nat /\ modified[c] = FALSE
      /\ ~Open(c) /\ ~Busy(c) /\ ~In(c, "finishing")
      /\ Past(disk[c]) /\ Past(server)
  BY <1>1, FullSyncFacts
<1>3. disk'[c] = server /\ mem'[c] = server /\ session'[c] = session[c]
  BY <1>1, <1>2 DEF Typed
<1>4. Typed' /\ OthersKeep(c)
  <2>1. Typed'
    BY <1>1, <1>2 DEF Typed
  <2>2. OthersKeep(c)
    BY <1>1, <1>2 DEF Typed, OthersKeep
  <2>3. QED
    BY <2>1, <2>2
<1>5. In(c, "idle")' /\ ~Open(c)' /\ ~Busy(c)' /\ ~In(c, "finishing")'
  BY <1>2, <1>3 DEF In, Open, Busy
<1>6. P!Next
  <2>1. Owed(c) = P!Nothing /\ \A k \in Clients : Owed(k)' = Owed(k)
    BY <1>2, <1>4, <1>5, NothingOwed
  <2>2. P!DownloadAll(c)
    BY <1>1, <1>2, <2>1, FullyDownloaded
  <2>3. QED
    BY <2>2 DEF P!Next
<1>7. Past(disk[c])' /\ Past(mem[c])' /\ Past(server)' /\ (remote' # NoSession => Past(remote.col)')
  BY <1>1, <1>2, <1>3 DEF IInv, Past
<1>8. SessionOK(c)'
  <2>1. Resting(c)'
    BY <1>2, <1>3, RestingFacts
  <2>2. QED
    BY <1>5, <2>1 DEF SessionOK, Busy, In
<1>9. QED
  BY <1>1, <1>2, <1>4, <1>5, <1>6, <1>7, <1>8, StepOK

-----------------------------------------------------------------------------
(* The theorems.                                                           *)

LEMMA InitIInv == Init => IInv /\ P!Init
<1> SUFFICES ASSUME Init PROVE IInv /\ P!Init
  OBVIOUS
<1>1. /\ \A c \in Clients : mem[c] = InitialCol /\ disk[c] = InitialCol /\ session[c] = Idle
                            /\ modified[c] = FALSE
      /\ server = InitialCol /\ remote = NoSession /\ born = Initial /\ now = 0
  BY DEF Init
<1>2. InitialCol \in Collection /\ InitialCol.graves = <<>> /\ InitialCol.scm = 0
      /\ InitialCol.usn = 1
      /\ \A o \in Obj : InitialCol.rows[o] = IF o \in Initial THEN First ELSE Absent
  <2> DEFINE rows == [o \in Obj |-> IF o \in Initial THEN First ELSE Absent]
  <2>1. First \in Row /\ Absent \in Row
    BY DEF Row, First, Stamps
  <2>2. rows \in [Obj -> Row] /\ \A o \in Obj : rows[o] = IF o \in Initial THEN First ELSE Absent
    BY <2>1
  <2>3. InitialCol = [rows |-> rows, graves |-> <<>>, conf |-> 0, mod |-> 0, scm |-> 0, usn |-> 1]
    BY DEF InitialCol
  <2> HIDE DEF rows
  <2>4. QED
    BY <2>2, <2>3 DEF Collection
<1>3. Typed
  <2>1. born \subseteq Obj
    BY <1>1, SyncerAssumption DEF SyncerAssumption
  <2>2. session \in [Clients -> Session]
    BY IdleTyped DEF Init
  <2>3. mem \in [Clients -> Collection] /\ disk \in [Clients -> Collection]
    BY <1>2 DEF Init
  <2>4. QED
    BY <1>1, <1>2, <2>1, <2>2, <2>3 DEF Init, Typed
<1>4. Past(InitialCol)
  <2>1. Seconds(0) \in Nat
    BY SecondsOK
  <2>2. \A o \in Obj : InitialCol.rows[o].mod <= Seconds(0)
    BY <1>2, <2>1 DEF First, Absent
  <2>3. QED
    BY <1>1, <1>2, <2>2 DEF Past
<1>5. \A c \in Clients : In(c, "idle") /\ ~Busy(c) /\ ~Open(c) /\ ~In(c, "finishing")
  BY <1>1, IdleTyped DEF In, Busy, Open
<1>6. ASSUME NEW c \in Clients PROVE SessionOK(c)
  <2>1. P!LocalEdit(Flat(InitialCol), Flat(InitialCol))
    BY <1>2, EditedFlat
  <2>2. Resting(c)
    BY <1>1, <2>1 DEF Resting
  <2>3. QED
    BY <1>5, <2>2 DEF SessionOK, Busy, In
<1>7. P!Init
  <2>1. Flat(InitialCol) \in P!Start
    <3>1. Flat(InitialCol).rows \in [Obj -> {P!Absent, [mod |-> 0, usn |-> 0]}]
      BY <1>2 DEF Flat, First, Absent, P!Absent
    <3>2. Flat(InitialCol).graves = {} /\ Flat(InitialCol).usn = 1
      BY <1>2 DEF Flat
    <3>3. Flat(InitialCol) = [rows |-> Flat(InitialCol).rows, graves |-> Flat(InitialCol).graves,
                              usn |-> Flat(InitialCol).usn]
      BY DEF Flat
    <3>4. QED
      BY <3>1, <3>2, <3>3 DEF P!Start
  <2>2. [c \in Clients |-> Flat(disk[c])] = [c \in Clients |-> Flat(server)]
    BY <1>1
  <2>3. [c \in Clients |-> Owed(c)] = [c \in Clients |-> P!Nothing]
    BY <1>5, NotOwed
  <2>4. {c \in Clients : disk[c].scm = server.scm} = Clients
    BY <1>1
  <2>5. Flat(server) \in P!Start
    BY <1>1, <2>1
  <2>6. QED
    BY <2>2, <2>3, <2>4, <2>5 DEF P!Init, Owed
<1>8. P!IInv
  BY <1>7, P!InitIInv
<1>9. QED
  BY <1>1, <1>3, <1>4, <1>5, <1>6, <1>7, <1>8 DEF IInv

\* Every step of the sync is a step of CollectionSync or none.
LEMMA StepFollows ==
  ASSUME IInv, Next
  PROVE  Follows
<1>1. PICK c \in Clients : User(c) \/ Sync(c) \/ FullSync(c) \/ Fail(c)
  BY DEF Next
<1>2. CASE User(c)
  BY <1>2, UserKeeps
<1>3. CASE Sync(c)
  BY <1>3, MetaStep, StartStep, ChangesStep, SchemaClashStep, DropsStep, DownloadStep, UploadStep,
     SanityCheckStep, SanityErrorStep, ServerFinishStep, ClientFinishStep DEF Sync
<1>4. CASE FullSync(c)
  BY <1>4, FullUploadStep, FullDownloadStep DEF FullSync
<1>5. CASE Fail(c)
  BY <1>5, DropsStep
<1>6. QED
  BY <1>1, <1>2, <1>3, <1>4, <1>5

LEMMA StutterFollows ==
  ASSUME IInv, UNCHANGED vars
  PROVE  Follows
<1>1. UNCHANGED P!vars
  BY DEF P!vars, vars, In, Committed
<1>2. P!IInv'
  BY <1>1, P!StepIInv DEF IInv
<1>3. \A c \in Clients : SessionOK(c)'
  <2> SUFFICES ASSUME NEW c \in Clients PROVE SessionOK(c)'
    OBVIOUS
  <2>1. SessionOK(c)
    BY DEF IInv
  <2>2. QED
    BY <2>1, OtherSession DEF vars
<1>4. Typed'
  BY DEF IInv, Typed, vars
<1>5. QED
  BY <1>1, <1>2, <1>3, <1>4 DEF IInv, Follows, vars, Past, In, Busy, Open

LEMMA Inductive == Spec => []IInv /\ [][Follows]_vars
<1>1. IInv /\ [Next]_vars => Follows
  BY StepFollows, StutterFollows
<1>2. Follows => IInv'
  BY DEF Follows
<1>3. QED
  BY <1>1, <1>2, InitIInv, PTL DEF Spec

-----------------------------------------------------------------------------
(* What follows.                                                           *)

LEMMA TypesFollow == IInv => SyncTypeOK
<1> SUFFICES ASSUME IInv PROVE SyncTypeOK
  OBVIOUS
<1>1. Typed
  BY DEF IInv
<1>2. ASSUME NEW col \in Collection PROVE ColType(col)
  <2>1. Row \subseteq RowType
    BY DEF Row, RowType, Absent, Stamps
  <2>2. col.rows \in [Obj -> RowType]
    BY <2>1 DEF Collection
  <2>3. QED
    BY <2>2 DEF Collection, ColType, Grave
<1>3. ASSUME NEW c \in Clients
      PROVE  (remote # NoSession /\ remote.client = c) <=> Open(c)
  <2>1. Open(c) => remote # NoSession /\ remote.client = c
    BY DEF IInv, SessionOK, Opened
  <2>2. ASSUME remote # NoSession, remote.client = c PROVE Open(c)
    <3>1. PICK k \in Clients : Open(k)
      BY <2>2 DEF IInv
    <3>2. remote.client = k
      BY <3>1 DEF IInv, SessionOK, Opened
    <3>3. QED
      BY <2>2, <3>1, <3>2
  <2>3. QED
    BY <2>1, <2>2
<1>4. \A c \in Clients : session[c].phase \in Phases
  BY <1>1 DEF Typed, Session
<1>5. QED
  BY <1>1, <1>2, <1>3, <1>4 DEF Typed, SyncTypeOK, Open

\* Rows, graves and clocks keep their ranges in every collection, and a client
\* has a session open exactly when the server has one open for it, whatever
\* was lost, cancelled or killed (Syncer.sync).
THEOREM SyncTypeOKHolds == Spec => []SyncTypeOK
<1>1. IInv /\ [Follows]_vars => SyncTypeOK
  BY TypesFollow
<1>2. QED
  BY <1>1, Inductive, PTL

\* The two instances of CollectionSync are one.
LEMMA SameInstance ==
  /\ P!Init <=> Promise!Init
  /\ P!vars = Promise!vars
  /\ P!Next <=> Promise!Next
  /\ P!NothingLeftBehind <=> Promise!NothingLeftBehind
<1>1. P!Init <=> Promise!Init
  BY DEF P!Init, Promise!Init, P!Start, Promise!Start, P!Absent, Promise!Absent, P!Nothing, Promise!Nothing
<1>2. P!vars = Promise!vars
  BY DEF P!vars, Promise!vars
<1>3. P!NothingLeftBehind <=> Promise!NothingLeftBehind
  BY DEF P!NothingLeftBehind, Promise!NothingLeftBehind, P!Settled, Promise!Settled,
     P!UnsentRow, Promise!UnsentRow, P!UnsentGrave, Promise!UnsentGrave, P!Unsent, Promise!Unsent,
     P!NewRow, Promise!NewRow, P!NewGrave, Promise!NewGrave, P!Has, Promise!Has, P!Absent, Promise!Absent,
     P!Age, Promise!Age
<1>4. ASSUME NEW c \in Clients
      PROVE  /\ P!Edit(c) <=> Promise!Edit(c)
             /\ P!ServerCommits(c) <=> Promise!ServerCommits(c)
             /\ P!ClientCommits(c) <=> Promise!ClientCommits(c)
             /\ P!ClientDrops(c) <=> Promise!ClientDrops(c)
             /\ P!UploadAll(c) <=> Promise!UploadAll(c)
             /\ P!DownloadAll(c) <=> Promise!DownloadAll(c)
  <2>1. P!Edit(c) <=> Promise!Edit(c)
    BY DEF P!Edit, Promise!Edit, P!Nothing, Promise!Nothing, P!LocalEdit, Promise!LocalEdit,
       P!Collection, Promise!Collection, P!Row, Promise!Row, P!Absent, Promise!Absent,
       P!Grave, Promise!Grave, P!Unsent, Promise!Unsent, P!UnsentGrave, Promise!UnsentGrave
  <2>2. P!ServerCommits(c) <=> Promise!ServerCommits(c)
    BY DEF P!ServerCommits, Promise!ServerCommits, P!Whole, Promise!Whole, P!Nothing, Promise!Nothing,
       P!ServerAfter, Promise!ServerAfter, P!ClientAfter, Promise!ClientAfter, P!Mine, Promise!Mine,
       P!Theirs, Promise!Theirs, P!Sent, Promise!Sent, P!Offered, Promise!Offered,
       P!ClientTakes, Promise!ClientTakes, P!ServerTakes, Promise!ServerTakes, P!Marked, Promise!Marked,
       P!Absent, Promise!Absent, P!Unsent, Promise!Unsent, P!UnsentGrave, Promise!UnsentGrave,
       P!NewGrave, Promise!NewGrave, P!Age, Promise!Age
  <2>3. P!ClientCommits(c) <=> Promise!ClientCommits(c)
    BY DEF P!ClientCommits, Promise!ClientCommits, P!Nothing, Promise!Nothing
  <2>4. P!ClientDrops(c) <=> Promise!ClientDrops(c)
    BY DEF P!ClientDrops, Promise!ClientDrops, P!Nothing, Promise!Nothing
  <2>5. P!UploadAll(c) <=> Promise!UploadAll(c)
    BY DEF P!UploadAll, Promise!UploadAll, P!Nothing, Promise!Nothing, P!Prepared, Promise!Prepared,
       P!UnsentRow, Promise!UnsentRow, P!Unsent, Promise!Unsent
  <2>6. P!DownloadAll(c) <=> Promise!DownloadAll(c)
    BY DEF P!DownloadAll, Promise!DownloadAll, P!Nothing, Promise!Nothing
  <2>7. QED
    BY <2>1, <2>2, <2>3, <2>4, <2>5, <2>6
<1>5. P!Next <=> Promise!Next
  BY <1>4 DEF P!Next, Promise!Next
<1>6. QED
  BY <1>1, <1>2, <1>3, <1>5

\* A whole sync session, in chunks, with its rollbacks, lost answers and full
\* syncs, is one exchange of CollectionSync, which the client may fail to
\* commit: every step of Syncer is a step of CollectionSync or shows nothing.
\* A note that both sides have edited counts as the same: newerRows keeps both.
THEOREM KeepsPromiseHolds == Spec => KeepsPromise
<1>1. Init => Promise!Init
  BY InitIInv, SameInstance
<1>2. IInv /\ [Follows]_vars => [Promise!Next]_(Promise!vars)
  <2>1. Follows => [Promise!Next]_(Promise!vars)
    BY SameInstance DEF Follows, P!vars, Promise!vars
  <2>2. IInv /\ UNCHANGED vars => Follows
    BY StutterFollows
  <2>3. QED
    BY <2>1, <2>2
<1>3. QED
  BY <1>1, <1>2, Inductive, PTL DEF Spec, KeepsPromise, Promise!Spec

\* A row marked neither for the client nor for the server has the same second
\* of modification on both sides, and a note is on both or on neither, so no
\* addition or deletion, and no edit but that of a note edited on two devices,
\* is left behind between syncs, whatever failed (Syncer.usnLim, newerRows,
\* remove).
THEOREM NothingLeftBehindHolds == Spec => []NothingLeftBehind
<1>1. IInv => NothingLeftBehind
  BY P!IInvImplies, SameInstance DEF IInv, NothingLeftBehind
<1>2. QED
  BY <1>1, Inductive, PTL

=============================================================================

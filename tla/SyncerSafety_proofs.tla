------------------------- MODULE SyncerSafety_proofs -------------------------
(***************************************************************************)
(* What the collection sync keeps, for any number of clients and objects:  *)
(* the deleted stays deleted, an older row never replaces a newer one      *)
(* unless it is a note, no card is without its note, and equal             *)
(* modification times mean that there is nothing to fetch.                 *)
(*                                                                         *)
(* Each takes an invariant beside that of Syncer_proofs, from which come   *)
(* the rows of a session and the step of CollectionSync a step makes.      *)
(***************************************************************************)
EXTENDS Syncer_proofs

-----------------------------------------------------------------------------
(* What is deleted stays deleted.  An object is written for the first time *)
(* under a new id (born), and from then on CollectionSync keeps it buried. *)

\* What can be deleted.
Mortal == Cards \cup Notes \cup Decks

Debts == [c \in Clients |-> Owed(c)]

Named(B) == P!AllNamed(Flat(server), [c \in Clients |-> Flat(disk[c])], Debts, B, Mortal)

\* The file of a client changes as users change it: no new row of a table has
\* a grave, a new grave has no row.
Tidy(k) ==
    \/ Owed(k) # P!Nothing
    \/ /\ P!NeverAgain(Flat(disk[k]), Flat(disk'[k]), Flat(server))
       /\ P!Names(Flat(disk'[k]), born', Mortal)

\* The invariant.
DInv == P!Gone /\ Named(born) /\ P!OwedOnward

LEMMA GraveSeen ==
  ASSUME NEW col \in Collection
  PROVE  /\ \A o \in Obj : P!HasGrave(Flat(col), o) <=> HasGrave(col, o)
         /\ \A o \in Obj : P!Has(Flat(col), o) <=> Has(col, o)
<1>1. ASSUME NEW o \in Obj PROVE P!HasGrave(Flat(col), o) <=> HasGrave(col, o)
  BY FlatGraves DEF P!HasGrave, HasGrave
<1>2. ASSUME NEW o \in Obj PROVE P!Has(Flat(col), o) <=> Has(col, o)
  BY FlatRow DEF P!Has
<1>3. QED
  BY <1>1, <1>2

LEMMA MoreNames ==
  ASSUME NEW B, NEW C, B \subseteq C, Named(B)
  PROVE  Named(C)
  BY DEF Named, P!AllNamed, P!Names

\* A step that is tidy keeps the deleted deleted.
LEMMA TidyStep ==
  ASSUME IInv, DInv, P!Next \/ UNCHANGED P!vars, born \subseteq born',
         \A k \in Clients : Tidy(k)
  PROVE  DInv'
<1> DEFINE file == [k \in Clients |-> Flat(disk[k])]
<1>1. P!IInv /\ P!Gone /\ P!OwedOnward /\ Named(born)
  BY DEF IInv, DInv
<1>2. P!OwedOnward'
  BY <1>1, P!StepOnward
<1> PICK B : B = born'
  OBVIOUS
<1>3. Named(B)
  BY <1>1, MoreNames
<1>4. CASE UNCHANGED P!vars
  <2>1. P!Gone'
    BY <1>1, <1>4 DEF P!vars, P!Gone
  <2>2. /\ Flat(server)' = Flat(server) /\ file' = file
        /\ Debts' = Debts
    BY <1>4 DEF P!vars, Debts, Owed
  <2>3. P!AllNamed(Flat(server)', file', Debts', B, Mortal)
    BY <1>3, <2>2 DEF Named
  <2>4. QED
    BY <1>2, <2>1, <2>3 DEF DInv, Named
<1>5. CASE P!Next
  <2>1. PICK c \in Clients :
           \/ P!Edit(c) \/ P!ServerCommits(c) \/ P!ClientCommits(c) \/ P!ClientDrops(c)
           \/ P!UploadAll(c) \/ P!DownloadAll(c)
    BY <1>5 DEF P!Next
  <2>2. P!Edit(c) => Owed(c) = P!Nothing
    BY DEF P!Edit, Owed
  <2>3. P!Edit(c) => /\ P!NeverAgain(Flat(disk[c]), Flat(disk'[c]), Flat(server))
                     /\ P!Names(Flat(disk'[c]), B, Mortal)
    BY <2>2 DEF Tidy
  <2>4. file[c] = Flat(disk[c]) /\ file'[c] = Flat(disk'[c])
    OBVIOUS
  <2>5. P!CleanStep(c)
    BY <2>1, <2>3, <2>4 DEF P!CleanStep
  <2>6. P!Gone'
    BY <1>1, <2>5, P!CleanStepGone
  <2>7. P!AllNamed(Flat(server)', file', Debts', B, Mortal)
    BY <1>1, <1>3, <2>1, <2>3, <2>4, P!StepNames DEF Named, Debts, Owed
  <2>8. QED
    BY <1>2, <2>6, <2>7 DEF DInv, Named
<1>6. QED
  BY <1>4, <1>5

\* What the invariant says of one collection.
LEMMA NamedHere ==
  ASSUME IInv, DInv, NEW c \in Clients, NEW o \in Obj
  PROVE  /\ HasGrave(disk[c], o) \/ HasGrave(server, o) => o \in Mortal
         /\ o \notin Small =>
              /\ Has(disk[c], o) \/ HasGrave(disk[c], o) => o \in born
              /\ Has(server, o) \/ HasGrave(server, o) => o \in born
              /\ HasGrave(disk[c], o) => ~Has(disk[c], o)
              /\ HasGrave(server, o) => ~Has(server, o)
<1>1. disk[c] \in Collection /\ server \in Collection
  BY DEF IInv, Typed
<1>2. P!Names(Flat(server), born, Mortal) /\ P!Names(Flat(disk[c]), born, Mortal)
  BY DEF DInv, Named, P!AllNamed
<1>3. o \notin Small => P!Buried(Flat(server), o) /\ P!Buried(Flat(disk[c]), o)
  BY DEF DInv, P!Gone, P!Rests
<1>4. QED
  BY <1>1, <1>2, <1>3, GraveSeen DEF P!Names, P!Buried

\* A file whose tables are written as users write them.
TablesKept(d, old) ==
    /\ \A o \in Obj \ Small :
        \/ (Has(d, o) <=> Has(old, o)) /\ (HasGrave(d, o) => HasGrave(old, o))
        \/ o \in born' /\ o \notin born /\ (HasGrave(d, o) => HasGrave(old, o))
        \/ o \in born /\ ~Has(d, o)
    /\ \A o \in Obj : HasGrave(d, o) => HasGrave(old, o) \/ o \in Mortal

LEMMA TidyAt ==
  ASSUME IInv, DInv, NEW k \in Clients, disk'[k] \in Collection,
         born \subseteq born', TablesKept(disk'[k], disk[k])
  PROVE  Tidy(k)
<1>1. disk[k] \in Collection
  BY DEF IInv, Typed
<1>2. TablesKept(disk'[k], disk[k])
  OBVIOUS
<1> PICK x \in Collection : x = disk'[k]
  OBVIOUS
<1> PICK B : B = born'
  OBVIOUS
<1>3. ASSUME NEW o \in Obj
      PROVE  /\ o \notin Small =>
                   /\ Has(x, o) /\ ~Has(disk[k], o) => ~HasGrave(x, o) /\ ~HasGrave(server, o)
                   /\ HasGrave(x, o) /\ ~HasGrave(disk[k], o) => ~Has(x, o)
                   /\ Has(x, o) \/ HasGrave(x, o) => o \in B
             /\ HasGrave(x, o) => o \in Mortal
  <2>1. /\ HasGrave(disk[k], o) \/ HasGrave(server, o) => o \in Mortal
        /\ o \notin Small =>
              /\ Has(disk[k], o) \/ HasGrave(disk[k], o) => o \in born
              /\ HasGrave(server, o) => o \in born
              /\ HasGrave(disk[k], o) => ~Has(disk[k], o)
    BY NamedHere
  <2>2. QED
    BY <1>2, <2>1 DEF TablesKept
<1>4. server \in Collection
  BY DEF IInv, Typed
<1>5. P!NeverAgain(Flat(disk[k]), Flat(x), Flat(server))
  BY <1>1, <1>3, <1>4, GraveSeen DEF P!NeverAgain
<1>6. P!Names(Flat(x), B, Mortal)
  BY <1>3, GraveSeen DEF P!Names
<1>7. QED
  BY <1>5, <1>6 DEF Tidy

LEMMA WrittenTidy ==
  ASSUME IInv, DInv, NEW c \in Clients, NEW d \in Collection,
         disk' = [disk EXCEPT ![c] = d], born \subseteq born', TablesKept(d, disk[c])
  PROVE  \A k \in Clients : Tidy(k)
<1> SUFFICES ASSUME NEW k \in Clients PROVE Tidy(k)
  OBVIOUS
<1>1. disk[k] \in Collection /\ disk'[k] \in Collection /\ disk'[k] = IF k = c THEN d ELSE disk[k]
  BY DEF IInv, Typed
<1>2. TablesKept(disk'[k], disk[k])
  BY <1>1 DEF TablesKept
<1>3. QED
  BY <1>1, <1>2, TidyAt

\* A step that leaves the files alone.
LEMMA FilesKeptTidy ==
  ASSUME IInv, DInv, UNCHANGED disk, born \subseteq born'
  PROVE  \A k \in Clients : Tidy(k)
<1> SUFFICES ASSUME NEW k \in Clients PROVE Tidy(k)
  OBVIOUS
<1>1. disk[k] \in Collection /\ disk' = [disk EXCEPT ![k] = disk[k]]
  BY DEF IInv, Typed
<1>2. TablesKept(disk[k], disk[k])
  BY DEF TablesKept
<1>3. QED
  BY <1>1, <1>2, WrittenTidy

-----------------------------------------------------------------------------
(* What users write.                                                       *)

\* What a file becomes: no orphan, no older row, and the col row kept.
WellWritten(d, old) ==
    /\ d \in Collection /\ TablesKept(d, old)
    /\ ~Orphans(old) => ~Orphans(d)
    /\ OnlyForward(old, d)
    /\ d.mod = old.mod /\ d.conf = old.conf /\ d.usn = old.usn /\ d.scm = old.scm

LEMMA SameLog ==
  ASSUME NEW col, NEW new, new.graves = col.graves
  PROVE  \A o \in Obj : HasGrave(new, o) <=> HasGrave(col, o)
BY DEF HasGrave

LEMMA StampHas ==
  ASSUME NEW r \in Row, NEW c
  PROVE  Stamp(c, r) # Absent
<1>1. Stamp(c, r).usn = Unsent
  BY DEF Stamp, Row, Absent, Unsent
<1>2. QED
  BY <1>1 DEF Absent, Unsent

LEMMA ModInt ==
  ASSUME NEW col \in Collection
  PROVE  \A o \in Obj : col.rows[o].mod \in Int /\ (Has(col, o) => col.rows[o].mod \in Nat)
<1>1. \A o \in Obj : col.rows[o] \in Row
  BY DEF Collection
<1>2. QED
  BY <1>1 DEF Row, Absent, Has

LEMMA SameRowsWell ==
  ASSUME NEW d0 \in Collection
  PROVE  WellWritten(d0, d0)
<1>1. \A o \in Obj : d0.rows[o].mod \in Int
  BY ModInt
<1>2. OnlyForward(d0, d0)
  BY <1>1 DEF OnlyForward
<1>3. QED
  BY <1>2 DEF WellWritten, TablesKept

\* Where the tables and the small objects are.
LEMMA Places ==
  /\ Cards \subseteq Obj \ Small /\ Notes \subseteq Obj \ Small /\ Logs \subseteq Obj \ Small
  /\ Logs \cap (Cards \cup Notes) = {} /\ Cards \cap Notes = {}
  /\ \A k \in Cards : NoteOf[k] \in Notes
  BY Constants, Apart, SyncerAssumption DEF SyncerAssumption

\* Some cards and notes are written, and perhaps a log beside them.
LEMMA WriteWell ==
  ASSUME IInv, DInv, NEW c \in Clients, UserAct(c), born \subseteq born',
         NEW d0 \in Collection, d0 = disk[c], NEW S \in SUBSET (Cards \cup Notes),
         \A o \in S : Has(d0, o) \/ (o \in born' /\ o \notin born),
         \A k \in S \cap Cards : NoteOf[k] \in S \/ Has(d0, k),
         \A n \in S \cap Notes : Has(d0, n) \/ \E k \in S \cap Cards : NoteOf[k] = n
  PROVE  WellWritten(Write(d0, c, S), d0)
<1> DEFINE d == Write(d0, c, S)
<1> PICK m0 \in Collection : m0 = mem[c]
  BY DEF IInv, Typed
<1>1. d \in Collection /\ d.graves = d0.graves /\ TablesEdited(d, Write(m0, c, S), d0, m0, Seconds(now'))
  BY RowsWritten
<1>2. \A x \in Obj : d.rows[x] = IF x \in S THEN Stamp(c, d0.rows[x]) ELSE d0.rows[x]
  BY DEF Write, Collection
<1>3. d.mod = d0.mod /\ d.conf = d0.conf /\ d.usn = d0.usn /\ d.scm = d0.scm
  BY DEF Write, Collection
<1> HIDE DEF d
<1>4. \A x \in Obj : d0.rows[x] \in Row
  BY DEF Collection
<1>5. \A x \in Obj : Has(d, x) <=> (Has(d0, x) \/ x \in S)
  BY <1>2, <1>4, StampHas DEF Has
<1>6. TablesKept(d, d0)
  BY <1>1, <1>5, SameLog DEF TablesKept
<1>7. ~Orphans(d0) => ~Orphans(d)
  <2> SUFFICES ASSUME ~Orphans(d0) PROVE ~Orphans(d)
    OBVIOUS
  <2>1. ASSUME NEW k \in Cards, Has(d, k) PROVE Has(d, NoteOf[k])
    <3>1. Has(d0, k) \/ k \in S
      BY <1>5, <2>1, Places
    <3>2. Has(d0, k) => Has(d0, NoteOf[k])
      BY DEF Orphans
    <3>3. QED
      BY <1>5, <3>1, <3>2, Places
  <2>2. ASSUME NEW n \in Notes, Has(d, n)
        PROVE  \E k \in Cards : NoteOf[k] = n /\ Has(d, k)
    <3>1. CASE Has(d0, n)
      <4>1. PICK k \in Cards : NoteOf[k] = n /\ Has(d0, k)
        BY <3>1 DEF Orphans
      <4>2. QED
        BY <1>5, <4>1, Places
    <3>2. CASE ~Has(d0, n)
      <4>1. n \in S
        BY <1>5, <2>2, <3>2, Places
      <4>2. PICK k \in S \cap Cards : NoteOf[k] = n
        BY <3>2, <4>1
      <4>3. QED
        BY <1>5, <4>2, Places
    <3>3. QED
      BY <3>1, <3>2
  <2>3. QED
    BY <2>1, <2>2 DEF Orphans
<1>8. OnlyForward(d0, d)
  <2> SUFFICES ASSUME NEW o \in Obj, Has(d0, o)
               PROVE  Has(d, o) /\ d.rows[o].mod >= d0.rows[o].mod
    BY DEF OnlyForward
  <2>1. d.rows[o].mod \in Int /\ d0.rows[o].mod \in Int
    BY <1>1, ModInt
  <2>2. d0.rows[o] = d.rows[o] \/ d0.rows[o].mod <= d.rows[o].mod
    <3>1. CASE o \in Small
      BY <1>1, <3>1 DEF TablesEdited
    <3>2. CASE o \notin Small
      <4>1. d.rows[o] = d0.rows[o] \/ Rewritten(d, d0, o, Seconds(now')) \/ Buried(d, o)
        BY <1>1, <3>2 DEF TablesEdited
      <4>2. ~Buried(d, o)
        BY <1>5 DEF Buried, Has
      <4>3. QED
        BY <4>1, <4>2 DEF Rewritten
    <3>3. QED
      BY <3>1, <3>2
  <2>3. QED
    BY <1>5, <2>1, <2>2
<1>9. QED
  BY <1>1, <1>3, <1>6, <1>7, <1>8 DEF WellWritten, d

\* Cards and notes that go together: a note with all its cards, the last card
\* with its note.
Together(S, col) ==
    /\ \A n \in S \cap Notes, k \in Cards : NoteOf[k] = n => k \in S \/ ~Has(col, k)
    /\ \A k \in S \cap Cards, n \in Notes :
          Has(col, n) /\ NoteOf[k] = n => n \in S \/ \E j \in Cards \ S : NoteOf[j] = n /\ Has(col, j)

Lists(ids, S) == \A o \in Obj : (\E i \in DOMAIN ids : ids[i] = o) <=> o \in S

LEMMA RemoveWell ==
  ASSUME IInv, DInv, NEW c \in Clients, NEW d0 \in Collection, d0 = disk[c],
         NEW ids \in Seq(Obj), NEW S \in SUBSET (Cards \cup Notes),
         Lists(ids, S), S \subseteq born, Together(S, d0)
  PROVE  WellWritten(Remove(d0, ids, Unsent), d0)
<1> DEFINE d == Remove(d0, ids, Unsent)
           gone(o) == \E i \in DOMAIN ids : ids[i] = o
<1>1. /\ d \in Collection /\ d.mod = d0.mod /\ d.conf = d0.conf /\ d.scm = d0.scm /\ d.usn = d0.usn
      /\ \A o \in Obj : d.rows[o] = IF gone(o) THEN Absent ELSE d0.rows[o]
      /\ \A g : g \in Flat(d).graves <=>
            g \in Flat(d0).graves \/ \E i \in DOMAIN ids : g = [obj |-> ids[i], usn |-> Unsent]
  BY RemoveOK
<1>2. \A o \in Obj : gone(o) <=> o \in S
  BY DEF Lists
<1> HIDE DEF d, gone
<1>3. \A o \in Obj : d.rows[o] = IF o \in S THEN Absent ELSE d0.rows[o]
  BY <1>1, <1>2
<1>4. \A o \in Obj : Has(d, o) <=> (Has(d0, o) /\ o \notin S)
  BY <1>3 DEF Has
<1>5. \A o \in Obj : HasGrave(d, o) <=> (HasGrave(d0, o) \/ o \in S)
  <2> SUFFICES ASSUME NEW o \in Obj PROVE HasGrave(d, o) <=> (HasGrave(d0, o) \/ o \in S)
    OBVIOUS
  <2>1. HasGrave(d, o) <=> \E g \in Flat(d).graves : g.obj = o
    BY <1>1, FlatGraves DEF HasGrave
  <2>2. HasGrave(d0, o) <=> \E g \in Flat(d0).graves : g.obj = o
    BY FlatGraves DEF HasGrave
  <2>3. (\E i \in DOMAIN ids : ids[i] = o) <=> o \in S
    BY DEF Lists
  <2>4. ASSUME HasGrave(d, o) PROVE HasGrave(d0, o) \/ o \in S
    <3>1. PICK g \in Flat(d).graves : g.obj = o
      BY <2>1, <2>4
    <3>2. CASE g \in Flat(d0).graves
      BY <2>2, <3>1, <3>2
    <3>3. CASE \E i \in DOMAIN ids : g = [obj |-> ids[i], usn |-> Unsent]
      BY <2>3, <3>1, <3>3
    <3>4. QED
      BY <1>1, <3>1, <3>2, <3>3
  <2>5. ASSUME o \in S PROVE HasGrave(d, o)
    <3>1. PICK i \in DOMAIN ids : ids[i] = o
      BY <2>3, <2>5
    <3>2. [obj |-> ids[i], usn |-> Unsent] \in Flat(d).graves /\ [obj |-> ids[i], usn |-> Unsent].obj = o
      BY <1>1, <3>1
    <3>3. QED
      BY <2>1, <3>2
  <2>6. HasGrave(d0, o) => HasGrave(d, o)
    BY <1>1, <2>1, <2>2
  <2>7. QED
    BY <2>4, <2>5, <2>6
<1>6. TablesKept(d, d0)
  <2>1. \A o \in S : o \in Mortal /\ o \in born
    BY DEF Mortal
  <2>2. QED
    BY <1>4, <1>5, <2>1 DEF TablesKept
<1>7. ~Orphans(d0) => ~Orphans(d)
  <2> SUFFICES ASSUME ~Orphans(d0) PROVE ~Orphans(d)
    OBVIOUS
  <2>1. ASSUME NEW k \in Cards, Has(d, k) PROVE Has(d, NoteOf[k])
    <3>1. Has(d0, k) /\ k \notin S
      BY <1>4, <2>1, Places
    <3>2. Has(d0, NoteOf[k]) /\ NoteOf[k] \in Notes
      BY <3>1, Places DEF Orphans
    <3>3. NoteOf[k] \notin S
      BY <3>1, <3>2 DEF Together
    <3>4. QED
      BY <1>4, <3>2, <3>3, Places
  <2>2. ASSUME NEW n \in Notes, Has(d, n)
        PROVE  \E k \in Cards : NoteOf[k] = n /\ Has(d, k)
    <3>1. Has(d0, n) /\ n \notin S
      BY <1>4, <2>2, Places
    <3>2. PICK k \in Cards : NoteOf[k] = n /\ Has(d0, k)
      BY <3>1 DEF Orphans
    <3>3. CASE k \in S
      <4>1. PICK j \in Cards \ S : NoteOf[j] = n /\ Has(d0, j)
        BY <3>1, <3>2, <3>3 DEF Together
      <4>2. QED
        BY <1>4, <4>1, Places
    <3>4. CASE k \notin S
      BY <1>4, <3>2, <3>4, Places
    <3>5. QED
      BY <3>3, <3>4
  <2>3. QED
    BY <2>1, <2>2 DEF Orphans
<1>8. OnlyForward(d0, d)
  <2> SUFFICES ASSUME NEW o \in Obj, Has(d0, o)
               PROVE  \/ Has(d, o) /\ d.rows[o].mod >= d0.rows[o].mod
                      \/ HasGrave(d, o) /\ ~Has(d, o)
    BY DEF OnlyForward
  <2>1. d0.rows[o].mod \in Int
    BY ModInt
  <2>2. QED
    BY <1>3, <1>4, <1>5, <2>1
<1>9. QED
  BY <1>1, <1>6, <1>7, <1>8 DEF WellWritten, d

\* A deck's grave is on disk before the deck is gone from it.
LEMMA DeckBuriedWell ==
  ASSUME NEW d0 \in Collection, NEW k \in Decks
  PROVE  WellWritten([d0 EXCEPT !.graves = Append(@, [obj |-> k, usn |-> Unsent])], d0)
<1> PICK g \in Grave : g = [obj |-> k, usn |-> Unsent]
  BY Constants DEF Grave
<1> DEFINE d == [d0 EXCEPT !.graves = Append(d0.graves, g)]
<1>1. d0.graves \in Seq(Grave)
  BY DEF Collection
<1>2. Append(d0.graves, g) \in Seq(Grave)
  BY <1>1
<1>3. /\ d \in Collection /\ d.mod = d0.mod /\ d.conf = d0.conf /\ d.scm = d0.scm /\ d.usn = d0.usn
      /\ d.rows = d0.rows /\ d.graves = Append(d0.graves, g)
  BY <1>2 DEF Collection
<1> HIDE DEF d
<1>4. \A o \in Obj : Has(d, o) <=> Has(d0, o)
  BY <1>3 DEF Has
<1>5. \A i \in DOMAIN d.graves :
         (i \in DOMAIN d0.graves /\ d.graves[i] = d0.graves[i]) \/ d.graves[i] = g
  BY <1>1, <1>3
<1>6. \A o \in Obj : HasGrave(d, o) => HasGrave(d0, o) \/ o = k
  BY <1>5 DEF HasGrave
<1>7. k \in Small /\ k \in Mortal
  BY DEF Small, Mortal
<1>8. TablesKept(d, d0)
  BY <1>4, <1>6, <1>7 DEF TablesKept
<1>9. ~Orphans(d0) => ~Orphans(d)
  BY <1>4, Places DEF Orphans
<1>10. OnlyForward(d0, d)
  BY <1>3, <1>4, ModInt DEF OnlyForward
<1>11. QED
  BY <1>3, <1>8, <1>9, <1>10 DEF WellWritten, d

\* Whatever a user does, the file is written well.
LEMMA UserWell ==
  ASSUME IInv, DInv, NEW c \in Clients, User(c), ~Orphans(disk[c])
  PROVE  /\ born \subseteq born' /\ server' = server
         /\ disk' = [disk EXCEPT ![c] = disk'[c]]
         /\ WellWritten(disk'[c], disk[c])
<1> PICK d0 \in Collection : d0 = disk[c]
  BY DEF IInv, Typed
<1> PICK m0 \in Collection : m0 = mem[c]
  BY DEF IInv, Typed
<1>1. UserAct(c)
  BY DEF User, EditRow, Review, AddCard, RemCard, EditSmall, ImportModel, RemDeck, EditConf, ModSchema
<1>2. In(c, "idle") /\ server' = server
  BY <1>1 DEF UserAct
<1>3. \A x \in Obj \ Small : Has(m0, x) <=> Has(d0, x)
  <2>1. \A x \in Obj \ Small : m0.rows[x] = d0.rows[x]
    BY <1>2, AtRest
  <2>2. QED
    BY <2>1 DEF Has
<1>4. disk \in [Clients -> Collection]
  BY DEF IInv, Typed
<1>5. ASSUME NEW d, disk' = [disk EXCEPT ![c] = d], WellWritten(d, d0), born \subseteq born'
      PROVE  /\ born \subseteq born' /\ server' = server
             /\ disk' = [disk EXCEPT ![c] = disk'[c]]
             /\ WellWritten(disk'[c], disk[c])
  <2>1. disk'[c] = d
    BY <1>4, <1>5
  <2>2. QED
    BY <1>2, <1>5, <2>1
<1>6. \A x \in Obj \ Small : Has(d0, x) => x \in born
  BY NamedHere
<1>7. CASE \E o \in Cards \cup Notes : EditRow(c, o)
  <2>1. PICK o \in Cards \cup Notes : EditRow(c, o)
    BY <1>7
  <2>2. born' = born /\ Has(m0, o) /\ disk' = [disk EXCEPT ![c] = Write(d0, c, {o})]
    BY <2>1 DEF EditRow, WriteOnDisk
  <2>3. Has(d0, o)
    BY <1>3, <2>2, Places
  <2>4. WellWritten(Write(d0, c, {o}), d0)
    BY <1>1, <2>2, <2>3, WriteWell
  <2>5. QED
    BY <1>5, <2>2, <2>4
<1>8. CASE \E k \in Cards : AddCard(c, k)
  <2>1. PICK k \in Cards : AddCard(c, k)
    BY <1>8
  <2> PICK n \in Notes : n = NoteOf[k]
    BY Places
  <2>2. /\ k \notin born /\ (n \in born => Has(m0, n))
        /\ born' = born \cup {k, n}
        /\ disk' = [disk EXCEPT ![c] = Write(d0, c, {k, n})]
    BY <2>1 DEF AddCard, WriteOnDisk
  <2>3. \A x \in {k, n} : Has(d0, x) \/ (x \in born' /\ x \notin born)
    BY <1>3, <2>2, Places
  <2>4. /\ \A x \in {k, n} \cap Cards : NoteOf[x] \in {k, n} \/ Has(d0, x)
        /\ \A x \in {k, n} \cap Notes : Has(d0, x) \/ \E j \in {k, n} \cap Cards : NoteOf[j] = x
    BY Places
  <2>5. born \subseteq born'
    BY <2>2
  <2>6. WellWritten(Write(d0, c, {k, n}), d0)
    BY <1>1, <2>3, <2>4, <2>5, WriteWell
  <2>7. QED
    BY <1>5, <2>2, <2>5, <2>6
<1>9. CASE \E k \in Cards, l \in Logs : Review(c, k, l)
  <2>1. PICK k \in Cards, l \in Logs : Review(c, k, l)
    BY <1>9
  <2> DEFINE d == Reviewed(d0, c, k, l)
             w == Write(d0, c, {k})
  <2>2. /\ l \notin born /\ Has(m0, k) /\ born' = born \cup {l}
        /\ disk' = [disk EXCEPT ![c] = d]
    BY <2>1 DEF Review
  <2>3. Has(d0, k) /\ ~Has(d0, l) /\ l \in Obj /\ l \notin Small
    BY <1>3, <1>6, <2>2, Places
  <2>4. born \subseteq born'
    BY <2>2
  <2>5. WellWritten(w, d0)
    BY <1>1, <2>3, <2>4, WriteWell
  <2> PICK new \in Row : new = [First EXCEPT !.usn = Unsent]
    BY DEF First, Row, Unsent, Stamps
  <2>6. d = [w EXCEPT !.rows[l] = new]
    BY DEF Reviewed
  <2> HIDE DEF w, d
  <2>7. /\ d \in Collection /\ d.graves = w.graves
        /\ d.mod = w.mod /\ d.conf = w.conf /\ d.scm = w.scm /\ d.usn = w.usn
        /\ \A x \in Obj : d.rows[x] = IF x = l THEN new ELSE w.rows[x]
    BY <2>5, <2>6 DEF Collection, WellWritten
  <2>8. \A x \in Obj \ {l} : Has(d, x) <=> Has(w, x)
    BY <2>7 DEF Has
  <2>9. TablesKept(d, d0)
    <3>1. \A x \in Obj : HasGrave(d, x) <=> HasGrave(w, x)
      BY <2>7, SameLog
    <3>2. HasGrave(w, l) => HasGrave(d0, l)
      BY <1>6, <2>2, <2>3, <2>5 DEF WellWritten, TablesKept
    <3>3. l \in born' /\ l \notin born
      BY <2>2
    <3>4. QED
      BY <2>5, <2>8, <3>1, <3>2, <3>3 DEF WellWritten, TablesKept
  <2>10. ~Orphans(d0) => ~Orphans(d)
    BY <2>5, <2>8, Places DEF WellWritten, Orphans
  <2>11. OnlyForward(d0, d)
    <3> SUFFICES ASSUME NEW o \in Obj, Has(d0, o)
                 PROVE  \/ Has(d, o) /\ (o \notin Notes => d.rows[o].mod >= d0.rows[o].mod)
                        \/ HasGrave(d, o) /\ (Has(d, o) => o \in Decks)
      BY DEF OnlyForward
    <3>1. o # l /\ d.rows[o] = w.rows[o] /\ (Has(d, o) <=> Has(w, o))
      BY <2>3, <2>7, <2>8
    <3>2. HasGrave(d, o) <=> HasGrave(w, o)
      BY <2>7, SameLog
    <3>3. QED
      BY <2>5, <3>1, <3>2 DEF WellWritten, OnlyForward
  <2>12. WellWritten(d, d0)
    BY <2>5, <2>7, <2>9, <2>10, <2>11 DEF WellWritten
  <2>13. QED
    BY <1>5, <2>2, <2>4, <2>12
<1>10. CASE \E k \in Cards : RemCard(c, k)
  <2>1. PICK k \in Cards : RemCard(c, k)
    BY <1>10
  <2> PICK n \in Notes : n = NoteOf[k]
    BY Places
  <2> DEFINE last == \A j \in Cards \ {k} : NoteOf[j] = n => ~Has(m0, j)
  <2>2. /\ born' = born /\ Has(m0, k)
        /\ disk' = [disk EXCEPT ![c] = Remove(d0, IF last THEN <<k, n>> ELSE <<k>>, Unsent)]
    BY <2>1 DEF RemCard
  <2>3. Has(d0, k) /\ k \in born /\ (last <=> \A j \in Cards \ {k} : NoteOf[j] = n => ~Has(d0, j))
    BY <1>3, <1>6, <2>2, Places
  <2> HIDE DEF last
  <2>4. CASE last
    <3>1. <<k, n>> \in Seq(Obj) /\ \A o \in Obj : (\E i \in DOMAIN <<k, n>> : <<k, n>>[i] = o) <=> o \in {k, n}
      BY Places
    <3>2. n \in born
      BY <1>6, <2>3, Places DEF Orphans
    <3> PICK S \in SUBSET (Cards \cup Notes) : S = {k, n}
      OBVIOUS
    <3> PICK ids \in Seq(Obj) : ids = <<k, n>>
      BY <3>1
    <3>3. Lists(ids, S)
      BY <3>1 DEF Lists
    <3>4. S \subseteq born
      BY <2>3, <3>2
    <3>5. \A x \in S \cap Notes, j \in Cards : NoteOf[j] = x => j \in S \/ ~Has(d0, j)
      BY <2>3, <2>4, Places
    <3>6. Together(S, d0)
      BY <3>5, Places DEF Together
    <3>7. WellWritten(Remove(d0, ids, Unsent), d0)
      BY <3>3, <3>4, <3>6, RemoveWell
    <3>8. QED
      BY <1>5, <2>2, <2>4, <3>7
  <2>5. CASE ~last
    <3>1. <<k>> \in Seq(Obj) /\ \A o \in Obj : (\E i \in DOMAIN <<k>> : <<k>>[i] = o) <=> o \in {k}
      BY Places
    <3> PICK S \in SUBSET (Cards \cup Notes) : S = {k}
      OBVIOUS
    <3> PICK ids \in Seq(Obj) : ids = <<k>>
      BY <3>1
    <3>2. Lists(ids, S) /\ S \subseteq born
      BY <2>3, <3>1 DEF Lists
    <3>3. Together(S, d0)
      BY <2>3, <2>5, Places DEF Together
    <3>4. WellWritten(Remove(d0, ids, Unsent), d0)
      BY <3>2, <3>3, RemoveWell
    <3>5. QED
      BY <1>5, <2>2, <2>5, <3>4
  <2>6. QED
    BY <2>4, <2>5
<1>11. CASE \E k \in Decks : RemDeck(c, k)
  <2>1. PICK k \in Decks : RemDeck(c, k)
    BY <1>11
  <2> PICK d : d = [d0 EXCEPT !.graves = Append(@, [obj |-> k, usn |-> Unsent])]
    OBVIOUS
  <2>2. born' = born /\ disk' = [disk EXCEPT ![c] = d]
    BY <2>1 DEF RemDeck
  <2>3. WellWritten(d, d0)
    BY DeckBuriedWell
  <2>4. QED
    BY <1>5, <2>2, <2>3
<1>12. CASE \/ \E o \in Small : EditSmall(c, o)
            \/ \E m \in Models : ImportModel(c, m)
            \/ EditConf(c) \/ ModSchema(c)
  <2>1. born' = born /\ disk' = disk
    BY <1>12 DEF EditSmall, ImportModel, EditConf, ModSchema
  <2>2. disk' = [disk EXCEPT ![c] = d0]
    BY <1>4, <2>1
  <2>3. WellWritten(d0, d0)
    BY SameRowsWell
  <2>4. QED
    BY <1>5, <2>1, <2>2, <2>3
<1>13. QED
  BY <1>7, <1>8, <1>9, <1>10, <1>11, <1>12 DEF User

-----------------------------------------------------------------------------
(* What every step keeps.                                                  *)

\* Whatever is committed, or is about to be, has been found sound.
AllSound ==
    /\ ~Orphans(server)
    /\ \A c \in Clients :
        /\ ~Orphans(disk[c])
        /\ In(c, "checked") \/ In(c, "finishing") => ~Orphans(mem[c])

SInv == DInv /\ AllSound

\* What newerRows and the deletions let a commit do; that what has a grave is
\* gone follows from DInv.
NoOlder(old, new, o) ==
    Has(new, o) /\ (o \notin Notes => old.rows[o].mod <= new.rows[o].mod)

Further(old, new) ==
    old.scm = new.scm =>
        \A o \in Obj : Has(old, o) => NoOlder(old, new, o) \/ HasGrave(new, o)

Safe ==
    /\ born \subseteq born' /\ (\A k \in Clients : Tidy(k))
    /\ AllSound'
    /\ Further(server, server') /\ \A k \in Clients : Further(disk[k], disk'[k])

\* A step of one client touches no other.
LEMMA OneClient ==
  ASSUME Typed, NEW c \in Clients, User(c) \/ Sync(c) \/ FullSync(c) \/ Fail(c)
  PROVE  OthersKeep(c)
<1>1. CASE User(c)
  <2>1. /\ session' = session /\ modified' = [modified EXCEPT ![c] = TRUE]
        /\ \A k \in Clients \ {c} : mem'[k] = mem[k] /\ disk'[k] = disk[k]
    BY <1>1 DEF User, EditRow, Review, AddCard, RemCard, EditSmall, ImportModel, RemDeck,
       EditConf, ModSchema, UserAct, WriteOnDisk, Typed
  <2>2. QED
    BY <2>1 DEF OthersKeep, Typed
<1>2. CASE Sync(c)
  BY <1>2 DEF Sync, Meta, Start, Changes, SchemaClash, ServerClash, AskAfterAbort, Drop, Download,
     Upload, SanityCheck, SanityError, ServerFinish, ClientFinish, Go, OthersKeep, Typed
<1>3. CASE FullSync(c)
  BY <1>3 DEF FullSync, FullUpload, FullDownload, OthersKeep, Typed
<1>4. CASE Fail(c)
  BY <1>4 DEF Fail, Drop, Go, OthersKeep, Typed
<1>5. QED
  BY <1>1, <1>2, <1>3, <1>4

LEMMA RowThere ==
  ASSUME NEW col \in Collection, NEW o \in Obj
  PROVE  /\ Flat(col).rows[o].mod = col.rows[o].mod /\ col.rows[o].mod \in Int
         /\ Has(col, o) <=> col.rows[o].mod # -1
         /\ P!Has(Flat(col), o) <=> Has(col, o)
<1>1. Flat(col).rows[o].mod = col.rows[o].mod
  BY DEF Flat
<1>2. col.rows[o] \in Row
  BY DEF Collection
<1>3. Has(col, o) <=> col.rows[o].mod # -1
  BY <1>2 DEF Row, Has, Absent
<1>4. QED
  BY <1>1, <1>3, GraveSeen, ModInt

\* A row of a later time is no older, and neither is one that counts as new.
LEMMA NoOlderByTime ==
  ASSUME NEW old \in Collection, NEW new \in Collection, NEW o \in Obj, Has(old, o),
         old.rows[o].mod <= new.rows[o].mod
  PROVE  NoOlder(old, new, o)
<1>1. old.rows[o].mod \in Nat /\ new.rows[o].mod \in Int
  BY ModInt
<1>2. new.rows[o].mod # -1
  BY <1>1
<1>3. QED
  BY <1>2, RowThere DEF NoOlder

LEMMA NoOlderByAge ==
  ASSUME NEW old \in Collection, NEW new \in Collection, NEW o \in Obj, Has(old, o),
         P!Age(o, Flat(old).rows[o]) <= P!Age(o, Flat(new).rows[o])
  PROVE  NoOlder(old, new, o)
<1>1. /\ Flat(old).rows[o] \in P!Row /\ Flat(new).rows[o] \in P!Row
      /\ Flat(old).rows[o] # P!Absent
      /\ Has(new, o) <=> Flat(new).rows[o] # P!Absent
      /\ Flat(old).rows[o].mod = old.rows[o].mod /\ Flat(new).rows[o].mod = new.rows[o].mod
  <2>1. /\ Flat(old).rows[o] \in P!Row /\ Flat(old).rows[o] # P!Absent
        /\ Flat(old).rows[o].mod = old.rows[o].mod
    BY FlatRow, RowThere
  <2>2. /\ Flat(new).rows[o] \in P!Row /\ Flat(new).rows[o].mod = new.rows[o].mod
        /\ Has(new, o) <=> Flat(new).rows[o] # P!Absent
    BY FlatRow, RowThere
  <2>3. QED
    BY <2>1, <2>2
<1>2. P!Age(o, Flat(old).rows[o]) \in Nat
  BY <1>1, P!AgeFacts
<1>3. Has(new, o)
  BY <1>1, <1>2, P!AgeFacts
<1>4. o \notin Notes => old.rows[o].mod <= new.rows[o].mod
  BY <1>1 DEF P!Age
<1>5. QED
  BY <1>3, <1>4 DEF NoOlder

LEMMA SameFurther ==
  ASSUME NEW col \in Collection
  PROVE  Further(col, col)
BY ModInt DEF Further, NoOlder

\* A step of one client: its file becomes d, and the server's collection s.
LEMMA SafeStep ==
  ASSUME IInv, SInv, NEW c \in Clients, NEW d, NEW s, OthersKeep(c),
         disk' = [disk EXCEPT ![c] = d], server' = s, born \subseteq born',
         \A k \in Clients : Tidy(k),
         ~Orphans(d), ~Orphans(s), Further(disk[c], d), Further(server, s),
         In(c, "checked")' \/ In(c, "finishing")' => ~Orphans(mem'[c])
  PROVE  Safe
<1>1. /\ disk'[c] = d /\ \A k \in Clients \ {c} : disk'[k] = disk[k] /\ mem'[k] = mem[k]
      /\ \A k \in Clients : disk[k] \in Collection
      /\ \A k \in Clients \ {c} : (In(k, "checked")' \/ In(k, "finishing")')
                                     <=> (In(k, "checked") \/ In(k, "finishing"))
  BY DEF IInv, Typed, OthersKeep, In
<1>2. ASSUME NEW k \in Clients
      PROVE  /\ ~Orphans(disk'[k]) /\ Further(disk[k], disk'[k])
             /\ In(k, "checked")' \/ In(k, "finishing")' => ~Orphans(mem'[k])
  <2>1. CASE k = c
    BY <1>1, <2>1
  <2>2. CASE k # c
    BY <1>1, <2>2, SameFurther DEF SInv, AllSound
  <2>3. QED
    BY <2>1, <2>2
<1>3. AllSound'
  BY <1>2 DEF AllSound
<1>4. QED
  BY <1>2, <1>3 DEF Safe

\* A step that commits nothing.
LEMMA HiddenSafe ==
  ASSUME IInv, SInv, NEW c \in Clients, OthersKeep(c), UNCHANGED <<disk, server, born>>,
         In(c, "checked")' \/ In(c, "finishing")' => ~Orphans(mem'[c])
  PROVE  Safe
<1>1. disk' = [disk EXCEPT ![c] = disk[c]] /\ disk[c] \in Collection /\ server \in Collection
  BY DEF IInv, Typed
<1>2. \A k \in Clients : Tidy(k)
  BY FilesKeptTidy DEF SInv
<1>3. Further(disk[c], disk[c]) /\ Further(server, server)
  BY <1>1, SameFurther
<1>4. ~Orphans(disk[c]) /\ ~Orphans(server)
  BY DEF SInv, AllSound
<1>5. QED
  BY <1>1, <1>2, <1>3, <1>4, SafeStep

LEMMA UserSafe ==
  ASSUME IInv, SInv, NEW c \in Clients, User(c)
  PROVE  Safe
<1>1. Typed /\ DInv /\ ~Orphans(disk[c]) /\ ~Orphans(server)
  BY DEF IInv, SInv, AllSound
<1> PICK d : d = disk'[c]
  OBVIOUS
<1>2. /\ born \subseteq born' /\ server' = server /\ disk' = [disk EXCEPT ![c] = d]
      /\ WellWritten(d, disk[c])
  BY <1>1, UserWell
<1>3. \A k \in Clients : Tidy(k)
  BY <1>1, <1>2, WrittenTidy DEF WellWritten
<1>4. Further(disk[c], d)
  <2> SUFFICES ASSUME NEW o \in Obj, Has(disk[c], o), disk[c].scm = d.scm
               PROVE  NoOlder(disk[c], d, o) \/ HasGrave(d, o)
    BY DEF Further
  <2>1. disk[c].rows[o].mod \in Int /\ d.rows[o].mod \in Int
    BY <1>1, <1>2, ModInt DEF WellWritten, Typed
  <2>2. QED
    BY <1>2, <2>1 DEF WellWritten, OnlyForward, NoOlder
<1>5. Further(server, server)
  BY <1>1, SameFurther DEF Typed
<1>6. UserAct(c)
  BY DEF User, EditRow, Review, AddCard, RemCard, EditSmall, ImportModel, RemDeck, EditConf, ModSchema
<1>7. ~In(c, "checked")' /\ ~In(c, "finishing")'
  BY <1>6 DEF UserAct, In
<1>8. QED
  BY <1>1, <1>2, <1>3, <1>4, <1>5, <1>7, OneClient, SafeStep DEF WellWritten

\* The file is written as it is in memory.
LEMMA MetaSafe ==
  ASSUME IInv, SInv, NEW c \in Clients, Meta(c)
  PROVE  Safe
<1>1. In(c, "idle") /\ UNCHANGED <<server, born>>
  BY DEF Meta
<1>2. Typed /\ DInv /\ ~Orphans(disk[c]) /\ ~Orphans(server)
  BY DEF IInv, SInv, AllSound
<1>3. /\ disk[c] \in Collection /\ mem[c] \in Collection /\ mem[c].graves = disk[c].graves
      /\ \A o \in Obj \ Small : mem[c].rows[o] = disk[c].rows[o]
  BY <1>1, AtRest
<1> PICK d : d = disk'[c]
  OBVIOUS
<1>4. disk' = [disk EXCEPT ![c] = d] /\ d.rows = mem[c].rows /\ d.graves = mem[c].graves /\ d \in Collection
  <2> DEFINE time == IF modified[c] THEN now' ELSE mem[c].mod
             x == [mem[c] EXCEPT !.mod = time]
  <2>1. disk' = [disk EXCEPT ![c] = x]
    BY DEF Meta
  <2>2. time \in Nat
    <3>1. now' \in Nat
      BY <1>2 DEF Meta, Typed
    <3>2. QED
      BY <1>3, <3>1 DEF Collection
  <2> HIDE DEF time
  <2>3. x \in Collection /\ x.rows = mem[c].rows /\ x.graves = mem[c].graves
    BY <1>3, <2>2 DEF Collection
  <2> HIDE DEF x
  <2>4. QED
    BY <1>2, <2>1, <2>3 DEF Typed
<1>5. \A o \in Obj : HasGrave(d, o) <=> HasGrave(disk[c], o)
  BY <1>3, <1>4, SameLog
<1>6. \A o \in Obj \ Small : Has(d, o) <=> Has(disk[c], o)
  BY <1>3, <1>4 DEF Has
<1>7. TablesKept(d, disk[c])
  BY <1>5, <1>6 DEF TablesKept
<1>8. \A k \in Clients : Tidy(k)
  BY <1>1, <1>2, <1>4, <1>7, WrittenTidy
<1>9. ~Orphans(d)
  BY <1>2, <1>6, Places DEF Orphans
<1>10. Further(disk[c], d)
  <2> SUFFICES ASSUME NEW o \in Obj, Has(disk[c], o)
               PROVE  NoOlder(disk[c], d, o) \/ HasGrave(d, o)
    BY DEF Further
  <2>1. disk[c].rows[o].mod \in Int /\ d.rows[o].mod \in Int
    BY <1>3, <1>4, ModInt
  <2>2. \/ mem[c].rows[o].mod = disk[c].rows[o].mod
        \/ mem[c].rows[o].mod >= disk[c].rows[o].mod
        \/ Buried(mem[c], o)
    BY <1>1, AtRest
  <2>3. Buried(mem[c], o) => HasGrave(d, o)
    <3>1. Buried(mem[c], o) => HasGrave(mem[c], o)
      BY <1>3, FlatGraves DEF Buried, HasGrave
    <3>2. QED
      BY <1>4, <3>1, SameLog
  <2>4. disk[c].rows[o].mod <= d.rows[o].mod \/ HasGrave(d, o)
    BY <1>4, <2>1, <2>2, <2>3
  <2>5. QED
    BY <1>3, <1>4, <2>4, NoOlderByTime
<1>11. Further(server, server)
  BY <1>2, SameFurther DEF Typed
<1>12. ~In(c, "checked")' /\ ~In(c, "finishing")'
  BY <1>1, <1>2 DEF Meta, Go, In, Typed, Idle
<1>13. OthersKeep(c)
  BY <1>2, OneClient DEF Sync
<1>14. QED
  BY <1>1, <1>2, <1>4, <1>8, <1>9, <1>10, <1>11, <1>12, <1>13, SafeStep

\* The steps of a session before the commits, and the ways it ends without.
LEMMA SessionSafe ==
  ASSUME IInv, SInv, NEW c \in Clients,
         \/ Start(c) \/ Changes(c) \/ SchemaClash(c) \/ Download(c) \/ Upload(c)
         \/ ServerClash(c) \/ AskAfterAbort(c) \/ Fail(c)
  PROVE  Safe
<1>1. Typed
  BY DEF IInv
<1>2. OthersKeep(c)
  BY <1>1, OneClient DEF Sync
<1>3. UNCHANGED <<disk, server, born>>
  BY DEF Start, Changes, SchemaClash, Download, Upload, ServerClash, AskAfterAbort, Fail, Drop
<1>4. ~In(c, "checked")' /\ ~In(c, "finishing")'
  <2>1. session[c] \in Session /\ session \in [Clients -> Session]
    BY <1>1 DEF Typed
  <2>2. CASE ServerClash(c) \/ AskAfterAbort(c) \/ Fail(c)
    BY <2>1, <2>2 DEF ServerClash, AskAfterAbort, Fail, Drop, Go, In, Idle
  <2>3. CASE Start(c) \/ Changes(c) \/ SchemaClash(c)
    BY <2>1, <2>3 DEF Start, Changes, SchemaClash, Go, In, Session
  <2>4. CASE Download(c)
    BY <2>1, <2>4 DEF Download, Go, In, Session
  <2>5. CASE Upload(c)
    BY <2>1, <2>5 DEF Upload, Go, In, Session
  <2>6. QED
    BY <2>2, <2>3, <2>4, <2>5
<1>5. QED
  BY <1>2, <1>3, <1>4, HiddenSafe

\* The sanity check is what keeps orphans out.
LEMMA CheckSafe ==
  ASSUME IInv, SInv, NEW c \in Clients, SanityCheck(c)
  PROVE  Safe
<1>1. OthersKeep(c)
  BY OneClient DEF Sync, IInv
<1>2. ~Orphans(mem'[c]) /\ UNCHANGED <<disk, server, born>>
  BY DEF SanityCheck, Sound
<1>3. QED
  BY <1>1, <1>2, HiddenSafe

LEMMA SameOrphans ==
  ASSUME NEW a, NEW b, \A o \in Obj : Has(a, o) <=> Has(b, o)
  PROVE  Orphans(a) <=> Orphans(b)
BY Places DEF Orphans

\* A time later than every schema.
LEMMA NoSuchSchema ==
  ASSUME IInv, NEW c \in Clients
  PROVE  /\ now \in Nat /\ disk[c].scm \in Nat /\ server.scm \in Nat
         /\ disk[c].scm # now + 1 /\ server.scm # now + 1
<1>1. now \in Nat /\ disk[c].scm \in Nat /\ server.scm \in Nat
  BY DEF IInv, Typed, Collection
<1>2. disk[c].scm <= now /\ server.scm <= now
  BY DEF IInv, Past
<1>3. QED
  BY <1>1, <1>2

\* After a failed check the file only has another schema.
LEMMA ErrorSafe ==
  ASSUME IInv, SInv, NEW c \in Clients, SanityError(c)
  PROVE  Safe
<1>1. Typed /\ DInv /\ ~Orphans(disk[c]) /\ ~Orphans(server)
  BY DEF IInv, SInv, AllSound
<1>2. /\ now' = now + 1 /\ UNCHANGED <<server, born>>
      /\ session' = [session EXCEPT ![c] = Idle]
  BY DEF SanityError, Go
<1> PICK old \in Collection : old = disk[c]
  BY <1>1 DEF Typed
<1> DEFINE d == [[[old EXCEPT !.scm = now + 1] EXCEPT !.mod = now + 1] EXCEPT !.conf = mem[c].conf]
<1>3. disk' = [disk EXCEPT ![c] = d]
  BY <1>1, <1>2 DEF SanityError, Typed
<1>4. d \in Collection /\ d.scm = now + 1 /\ d.rows = old.rows /\ d.graves = old.graves
  <2>1. mem[c].conf \in Nat /\ now + 1 \in Nat
    BY <1>1 DEF Typed, Collection
  <2>2. QED
    BY <2>1 DEF Collection
<1> HIDE DEF d
<1>5. /\ \A o \in Obj : Has(d, o) <=> Has(old, o)
      /\ \A o \in Obj : HasGrave(d, o) <=> HasGrave(old, o)
  BY <1>4, SameLog DEF Has
<1>6. TablesKept(d, old)
  BY <1>5 DEF TablesKept
<1>7. \A k \in Clients : Tidy(k)
  BY <1>1, <1>2, <1>3, <1>4, <1>6, WrittenTidy
<1>8. Further(old, d)
  BY <1>4, NoSuchSchema DEF Further
<1>9. ~Orphans(d)
  BY <1>1, <1>5, SameOrphans
<1>10. Further(server, server)
  BY <1>1, SameFurther DEF Typed
<1>11. OthersKeep(c)
  BY <1>1, OneClient DEF Sync
<1>12. ~In(c, "checked")' /\ ~In(c, "finishing")'
  BY <1>1, <1>2, IdleTyped DEF In, Typed
<1>13. QED
  BY <1>1, <1>2, <1>3, <1>7, <1>8, <1>9, <1>10, <1>11, <1>12, SafeStep

\* What the server commits has the rows the client has, and no older ones.
LEMMA ServerFinishSafe ==
  ASSUME IInv, SInv, NEW c \in Clients, ServerFinish(c)
  PROVE  Safe
<1>1. /\ In(c, "checked") /\ UNCHANGED <<mem, disk, born>>
      /\ server' = [[remote.col EXCEPT !.mod = now'] EXCEPT !.usn = remote.maxUsn + 1]
  BY DEF ServerFinish
<1>2. Open(c)
  BY <1>1 DEF Open, In
<1>3. /\ Typed /\ Busy(c) /\ Begun(c) /\ Opened(c)
      /\ mem[c] \in Collection /\ disk[c] \in Collection /\ server \in Collection
      /\ remote.col \in Collection
      /\ \A o \in Obj : RowInSession(c, o)
  BY <1>2, InAnOpenSession DEF Typed
<1> PICK d \in P!Collection : d = Flat(disk[c])
  BY <1>2, InAnOpenSession
<1> PICK s \in P!Collection : s = Flat(server)
  BY <1>2, InAnOpenSession
<1> PICK r0 \in Collection : r0 = remote.col
  BY <1>3
<1> PICK new : new = server'
  OBVIOUS
<1>4. new.rows = r0.rows /\ new.graves = r0.graves
  BY <1>1 DEF Collection
<1>5. ASSUME NEW o \in Obj
      PROVE  /\ Flat(mem[c]).rows[o] = P!ClientAfter(d).rows[o]
             /\ Flat(r0).rows[o] = P!ServerAfter(d).rows[o]
  <2>1. ExchangedRow(Flat(mem[c]).rows[o], Flat(r0).rows[o], d, s, o)
    BY <1>1, <1>3 DEF RowInSession
  <2>2. QED
    BY <2>1, SameExchange DEF ExchangedRow
<1>6. P!ColOK(d) /\ P!ServerOK(s) /\ P!InStep(d, s)
  BY <1>3, Standing DEF Begun
<1>7. Flat(r0).graves = P!ServerAfter(d).graves
  BY <1>3, SameExchange DEF Opened
<1>8. ASSUME NEW o \in Obj PROVE Has(new, o) <=> Has(mem[c], o)
  <2>1. P!WholeAt(d, o)
    BY <1>1, <1>3, SameExchange DEF Opened, P!Whole, P!WholeAt
  <2>2. P!Age(o, P!ClientAfter(d).rows[o]) = P!Age(o, P!ServerAfter(d).rows[o])
    BY <1>6, <2>1, P!MergedEqual
  <2>3. /\ Flat(mem[c]).rows[o] \in P!Row /\ Flat(r0).rows[o] \in P!Row
        /\ Has(mem[c], o) <=> Flat(mem[c]).rows[o] # P!Absent
        /\ Has(r0, o) <=> Flat(r0).rows[o] # P!Absent
    BY <1>3, FlatRow
  <2>4. Has(r0, o) <=> Has(mem[c], o)
    BY <1>5, <2>2, <2>3, P!AgeFacts
  <2>5. QED
    BY <1>4, <2>4 DEF Has
<1>9. ~Orphans(new)
  BY <1>1, <1>8, SameOrphans DEF SInv, AllSound
<1>10. Further(server, new)
  <2>1. P!Onward(s, P!ServerAfter(d))
    BY <1>6, P!ExchangeOnward
  <2>2. ASSUME NEW o \in Obj, Has(server, o)
        PROVE  NoOlder(server, new, o) \/ HasGrave(new, o)
    <3>1. P!Has(s, o)
      BY <1>3, <2>2, RowThere
    <3>2. CASE P!HasGrave(P!ServerAfter(d), o)
      <4>1. P!HasGrave(Flat(r0), o)
        BY <1>7, <3>2 DEF P!HasGrave
      <4>2. QED
        BY <1>4, <4>1, GraveSeen, SameLog
    <3>3. CASE P!Age(o, s.rows[o]) <= P!Age(o, P!ServerAfter(d).rows[o])
      <4>1. P!Age(o, Flat(server).rows[o]) <= P!Age(o, Flat(r0).rows[o])
        BY <1>5, <3>3
      <4>2. NoOlder(server, r0, o)
        BY <1>3, <2>2, <4>1, NoOlderByAge
      <4>3. QED
        BY <1>4, <4>2 DEF NoOlder, Has
    <3>4. QED
      BY <2>1, <3>1, <3>2, <3>3 DEF P!Onward
  <2>3. QED
    BY <2>2 DEF Further
<1>11. \A k \in Clients : Tidy(k)
  BY <1>1, FilesKeptTidy DEF SInv
<1>12. disk' = [disk EXCEPT ![c] = disk[c]] /\ Further(disk[c], disk[c]) /\ OthersKeep(c)
  BY <1>1, <1>3, SameFurther, OneClient DEF Typed, Sync
<1>13. ~Orphans(disk[c]) /\ ~Orphans(mem'[c])
  BY <1>1 DEF SInv, AllSound
<1>14. QED
  BY <1>1, <1>9, <1>10, <1>11, <1>12, <1>13, SafeStep

\* What the client commits was found sound, and is no older than its file.
LEMMA ClientFinishSafe ==
  ASSUME IInv, SInv, NEW c \in Clients, ClientFinish(c)
  PROVE  Safe
<1> DEFINE new == [[mem[c] EXCEPT !.mod = session[c].mod] EXCEPT !.usn = session[c].maxUsn + 1]
<1>1. /\ In(c, "finishing") /\ disk' = [disk EXCEPT ![c] = new]
      /\ session' = [session EXCEPT ![c] = Idle] /\ UNCHANGED <<server, born>>
  BY DEF ClientFinish, Go
<1>2. /\ Typed /\ mem[c] \in Collection /\ session[c] \in Session /\ DInv
      /\ disk[c] \in Collection /\ server \in Collection
  BY DEF IInv, Typed, SInv
<1>3. new \in Collection /\ new.rows = mem[c].rows /\ new.graves = mem[c].graves
  <2> PICK m0 \in Collection : m0 = mem[c]
    BY <1>2
  <2>1. session[c].mod \in Nat /\ session[c].maxUsn + 1 \in Nat
    BY <1>2 DEF Session
  <2>2. new = [[m0 EXCEPT !.mod = session[c].mod] EXCEPT !.usn = session[c].maxUsn + 1]
    OBVIOUS
  <2> HIDE DEF new
  <2>3. QED
    BY <2>1, <2>2 DEF Collection
<1> HIDE DEF new
<1>4. Owed(c) # P!Nothing
  <2>1. Owed(c).usn = session[c].maxUsn + 1
    BY <1>1, <1>2 DEF Owed, Flat, Committed, Collection
  <2>2. session[c].maxUsn + 1 # -1
    BY <1>2 DEF Session
  <2>3. QED
    BY <2>1, <2>2 DEF P!Nothing
<1>5. ASSUME NEW k \in Clients PROVE Tidy(k)
  <2>1. CASE k = c
    BY <1>4, <2>1 DEF Tidy
  <2>2. CASE k # c
    <3>1. disk'[k] = disk[k] /\ disk[k] \in Collection
      BY <1>1, <1>2, <2>2 DEF Typed
    <3>2. TablesKept(disk'[k], disk[k])
      BY <3>1 DEF TablesKept
    <3>3. QED
      BY <1>1, <1>2, <3>1, <3>2, TidyAt
  <2>3. QED
    BY <2>1, <2>2
<1>6. ~Orphans(new)
  <2>1. ~Orphans(mem[c])
    BY <1>1 DEF SInv, AllSound
  <2>2. QED
    BY <1>3, <2>1 DEF Orphans, Has
<1>7. Further(disk[c], new)
  <2>1. P!Onward(Flat(disk[c]), Owed(c))
    BY <1>2, <1>4 DEF DInv, P!OwedOnward, Owed
  <2>2. Owed(c).rows = Flat(mem[c]).rows /\ Owed(c).graves = Flat(mem[c]).graves
    <3> DEFINE col == [mem[c] EXCEPT !.usn = session[c].maxUsn + 1]
    <3>1. Owed(c) = Flat(col)
      BY <1>1 DEF Owed, Committed
    <3>2. col.rows = mem[c].rows /\ col.graves = mem[c].graves
      BY <1>2 DEF Collection
    <3> HIDE DEF col
    <3>3. QED
      BY <3>1, <3>2 DEF Flat
  <2>3. ASSUME NEW o \in Obj, Has(disk[c], o)
        PROVE  NoOlder(disk[c], new, o) \/ HasGrave(new, o)
    <3>1. P!Has(Flat(disk[c]), o)
      BY <1>2, <2>3, RowThere
    <3>2. CASE P!HasGrave(Owed(c), o)
      <4>1. P!HasGrave(Flat(mem[c]), o)
        BY <2>2, <3>2 DEF P!HasGrave
      <4>2. QED
        BY <1>2, <1>3, <4>1, GraveSeen, SameLog
    <3>3. CASE P!Age(o, Flat(disk[c]).rows[o]) <= P!Age(o, Owed(c).rows[o])
      <4>1. P!Age(o, Flat(disk[c]).rows[o]) <= P!Age(o, Flat(mem[c]).rows[o])
        BY <2>2, <3>3
      <4>2. NoOlder(disk[c], mem[c], o)
        BY <1>2, <2>3, <4>1, NoOlderByAge
      <4>3. QED
        BY <1>3, <4>2 DEF NoOlder, Has
    <3>4. QED
      BY <2>1, <3>1, <3>2, <3>3 DEF P!Onward
  <2>4. QED
    BY <2>3 DEF Further
<1>8. Further(server, server) /\ ~Orphans(server) /\ OthersKeep(c)
  BY <1>2, SameFurther, OneClient DEF Sync, SInv, AllSound
<1>9. ~In(c, "checked")' /\ ~In(c, "finishing")'
  BY <1>1, <1>2, IdleTyped DEF In, Typed
<1>10. QED
  BY <1>1, <1>5, <1>6, <1>7, <1>8, <1>9, SafeStep

\* An upload drops the log of deletions, and brings nothing back.
LEMMA FullUploadSafe ==
  ASSUME IInv, SInv, NEW c \in Clients, FullUpload(c)
  PROVE  Safe
<1> DEFINE new == BeforeUpload(disk[c], now + 1)
<1>1. /\ FullSyncOffered(c) /\ now' = now + 1 /\ disk' = [disk EXCEPT ![c] = new]
      /\ server' = disk'[c] \/ server' = server
      /\ UNCHANGED <<session, born>>
  BY DEF FullUpload
<1>2. /\ Typed /\ DInv /\ In(c, "idle") /\ disk[c] \in Collection /\ server \in Collection
      /\ ~Orphans(disk[c]) /\ ~Orphans(server)
  BY <1>1, FullSyncFacts DEF SInv, AllSound
<1>3. /\ new \in Collection /\ new.scm = now + 1
      /\ \A o \in Obj : new.rows[o].mod = disk[c].rows[o].mod
  <2>1. now + 1 \in Nat
    BY <1>1, NoSuchSchema
  <2>2. QED
    BY <1>2, <2>1, PreparedFlat
<1>4. new.graves = <<>>
  BY <1>2 DEF BeforeUpload, Collection
<1> HIDE DEF new
<1>5. \A o \in Obj : ~HasGrave(new, o)
  BY <1>4 DEF HasGrave
<1>6. \A o \in Obj : Has(new, o) <=> Has(disk[c], o)
  BY <1>2, <1>3, RowThere
<1>7. TablesKept(new, disk[c])
  BY <1>5, <1>6 DEF TablesKept
<1>8. \A k \in Clients : Tidy(k)
  BY <1>1, <1>2, <1>3, <1>7, WrittenTidy
<1>9. ~Orphans(new)
  BY <1>2, <1>6, SameOrphans
<1>10. Further(disk[c], new) /\ Further(server, new) /\ Further(server, server)
  BY <1>2, <1>3, NoSuchSchema, SameFurther DEF Further
<1>11. disk'[c] = new
  BY <1>1, <1>2 DEF Typed
<1>12. OthersKeep(c)
  BY <1>2, OneClient DEF FullSync
<1>13. ~In(c, "checked")' /\ ~In(c, "finishing")'
  BY <1>1, <1>2 DEF In
<1>14. QED
  BY <1>1, <1>2, <1>8, <1>9, <1>10, <1>11, <1>12, <1>13, SafeStep

LEMMA FullDownloadSafe ==
  ASSUME IInv, SInv, NEW c \in Clients, FullDownload(c)
  PROVE  Safe
<1>1. /\ FullSyncOffered(c) /\ disk' = [disk EXCEPT ![c] = server]
      /\ UNCHANGED <<session, server, born>>
  BY DEF FullDownload
<1>2. /\ Typed /\ DInv /\ In(c, "idle") /\ disk[c] \in Collection /\ server \in Collection
      /\ ~Orphans(disk[c]) /\ ~Orphans(server) /\ disk[c].scm # server.scm
  BY <1>1, FullSyncFacts DEF SInv, AllSound, FullSyncOffered
<1>3. ASSUME NEW k \in Clients PROVE Tidy(k)
  <2>1. CASE k = c
    <3>1. P!NeverAgain(Flat(disk[c]), Flat(server), Flat(server))
      BY <1>2, NamedHere, GraveSeen DEF P!NeverAgain
    <3>2. P!Names(Flat(server), born, Mortal)
      BY <1>2 DEF DInv, Named, P!AllNamed
    <3>3. disk'[c] = server /\ born' = born
      BY <1>1, <1>2 DEF Typed
    <3>4. QED
      BY <2>1, <3>1, <3>2, <3>3 DEF Tidy
  <2>2. CASE k # c
    <3>1. disk'[k] = disk[k] /\ disk[k] \in Collection
      BY <1>1, <1>2, <2>2 DEF Typed
    <3>2. TablesKept(disk'[k], disk[k])
      BY <3>1 DEF TablesKept
    <3>3. QED
      BY <1>1, <1>2, <3>1, <3>2, TidyAt
  <2>3. QED
    BY <2>1, <2>2
<1>4. Further(disk[c], server) /\ Further(server, server)
  BY <1>2, SameFurther DEF Further
<1>5. OthersKeep(c)
  BY <1>2, OneClient DEF FullSync
<1>6. ~In(c, "checked")' /\ ~In(c, "finishing")'
  BY <1>1, <1>2 DEF In
<1>7. QED
  BY <1>1, <1>2, <1>3, <1>4, <1>5, <1>6, SafeStep

LEMMA StepSafe ==
  ASSUME IInv, SInv, Next
  PROVE  Safe
<1>1. PICK c \in Clients : User(c) \/ Sync(c) \/ FullSync(c) \/ Fail(c)
  BY DEF Next
<1>2. QED
  BY <1>1, UserSafe, MetaSafe, SessionSafe, CheckSafe, ErrorSafe, ServerFinishSafe,
     ClientFinishSafe, FullUploadSafe, FullDownloadSafe DEF Sync, FullSync

LEMMA InitSInv ==
  ASSUME Init
  PROVE  SInv
<1>1. /\ \A c \in Clients : disk[c] = InitialCol /\ session[c] = Idle
      /\ server = InitialCol /\ born = Initial
  BY DEF Init
<1>2. IInv /\ P!Init
  BY InitIInv
<1>3. P!Gone /\ P!OwedOnward
  BY <1>2, P!InitGone, P!InitOnward
<1>4. /\ InitialCol \in Collection
      /\ \A o \in Obj : ~HasGrave(InitialCol, o) /\ (Has(InitialCol, o) <=> o \in Initial)
  <2>1. InitialCol \in Collection
    BY <1>1, <1>2 DEF IInv, Typed
  <2>2. InitialCol.graves = <<>>
    BY DEF InitialCol
  <2>3. \A o \in Obj : InitialCol.rows[o] = IF o \in Initial THEN First ELSE Absent
    BY DEF InitialCol
  <2>4. First # Absent
    BY DEF First, Absent
  <2>5. QED
    BY <2>1, <2>2, <2>3, <2>4 DEF HasGrave, Has
<1>5. P!Names(Flat(InitialCol), Initial, Mortal)
  BY <1>4, GraveSeen DEF P!Names
<1>6. \A c \in Clients : Owed(c) = P!Nothing
  BY <1>1, IdleTyped, NotOwed DEF In
<1>7. Named(born)
  BY <1>1, <1>5, <1>6 DEF Named, P!AllNamed, Debts
<1>8. ~Orphans(InitialCol)
  <2>1. \A k \in Cards \cap Initial : NoteOf[k] \in Initial
    BY SyncerAssumption DEF SyncerAssumption
  <2>2. \A n \in Notes \cap Initial : \E k \in Cards \cap Initial : NoteOf[k] = n
    BY SyncerAssumption DEF SyncerAssumption
  <2>3. QED
    BY <1>4, <2>1, <2>2, Places DEF Orphans
<1>9. \A c \in Clients : ~In(c, "checked") /\ ~In(c, "finishing")
  BY <1>1, IdleTyped DEF In
<1>10. QED
  BY <1>1, <1>3, <1>7, <1>8, <1>9 DEF SInv, DInv, AllSound

LEMMA StutterSInv ==
  ASSUME IInv, SInv, UNCHANGED vars
  PROVE  SInv'
<1>1. UNCHANGED P!vars
  BY DEF P!vars, vars, In, Committed
<1>2. \A k \in Clients : Tidy(k)
  BY FilesKeptTidy DEF SInv, vars
<1>3. DInv'
  BY <1>1, <1>2, TidyStep DEF SInv, vars
<1>4. AllSound'
  BY DEF SInv, AllSound, vars, In
<1>5. QED
  BY <1>3, <1>4 DEF SInv

LEMMA AlwaysSafe == Spec => [](IInv /\ SInv) /\ [][Follows /\ Safe]_vars
<1>1. Init => IInv /\ SInv
  BY InitIInv, InitSInv
<1>2. IInv /\ SInv /\ [Next]_vars => IInv' /\ SInv' /\ [Follows /\ Safe]_vars
  <2> SUFFICES ASSUME IInv, SInv, [Next]_vars
               PROVE  IInv' /\ SInv' /\ [Follows /\ Safe]_vars
    OBVIOUS
  <2>1. CASE Next
    <3>1. Follows /\ Safe
      BY <2>1, StepFollows, StepSafe
    <3>2. DInv'
      BY <3>1, TidyStep DEF Follows, Safe, SInv
    <3>3. QED
      BY <3>1, <3>2 DEF Follows, Safe, SInv
  <2>2. CASE UNCHANGED vars
    BY <2>2, StutterFollows, StutterSInv DEF Follows
  <2>3. QED
    BY <2>1, <2>2
<1>3. QED
  BY <1>1, <1>2, PTL DEF Spec

-----------------------------------------------------------------------------
(* The theorems.                                                           *)

LEMMA GoneForGood == IInv /\ SInv => NoResurrection
<1> SUFFICES ASSUME IInv, SInv PROVE NoResurrection
  OBVIOUS
<1>1. Mortal \ Decks \subseteq Obj \ Small
  BY Constants, Apart DEF Mortal
<1>2. ASSUME NEW o \in Obj \ Decks, NEW c \in Clients
      PROVE  HasGrave(disk[c], o) => ~Has(disk[c], o)
  BY <1>1, NamedHere DEF SInv
<1>3. ASSUME NEW o \in Obj \ Decks
      PROVE  HasGrave(server, o) => ~Has(server, o)
  <2>1. server \in Collection
    BY DEF IInv, Typed
  <2>2. P!Names(Flat(server), born, Mortal)
    BY DEF SInv, DInv, Named, P!AllNamed
  <2>3. o \notin Small => P!Buried(Flat(server), o)
    BY DEF SInv, DInv, P!Gone
  <2>4. QED
    BY <1>1, <2>1, <2>2, <2>3, GraveSeen DEF P!Names, P!Buried
<1>4. QED
  BY <1>2, <1>3 DEF NoResurrection

LEMMA FurtherForward ==
  ASSUME NEW old \in Collection, NEW new \in Collection, Further(old, new),
         \A o \in Obj \ Decks : HasGrave(new, o) => ~Has(new, o)
  PROVE  OnlyForward(old, new)
<1> SUFFICES ASSUME NEW o \in Obj, old.scm = new.scm, Has(old, o)
             PROVE  \/ Has(new, o) /\ (o \notin Notes => new.rows[o].mod >= old.rows[o].mod)
                    \/ HasGrave(new, o) /\ (Has(new, o) => o \in Decks)
  BY DEF OnlyForward
<1>1. CASE HasGrave(new, o)
  BY <1>1
<1>2. CASE ~HasGrave(new, o)
  <2>1. NoOlder(old, new, o)
    BY <1>2 DEF Further
  <2>2. old.rows[o].mod \in Nat /\ new.rows[o].mod \in Int
    BY ModInt
  <2>3. QED
    BY <2>1, <2>2 DEF NoOlder
<1>3. QED
  BY <1>1, <1>2

\* What is deleted stays deleted, whatever other devices hold, edit or have not
\* heard of, and whatever fails: no card, note, model or log that has a grave
\* has a row, on the server or in the file of a client (Syncer.start, remove).
THEOREM NoResurrectionHolds == Spec => []NoResurrection
<1>1. QED
  BY GoneForGood, AlwaysSafe, PTL

\* Nothing the server or a client commits has a card without its note or a
\* note without cards, whatever two devices deleted and added (sanityCheck).
THEOREM CommittedSoundHolds == Spec => []CommittedSound
<1>1. SInv => CommittedSound
  BY DEF SInv, AllSound, CommittedSound
<1>2. QED
  BY <1>1, AlwaysSafe, PTL

\* Short of a full sync no commit of the server or a client replaces a row
\* other than a note by an older one, or loses any row that has no grave
\* (newerRows, mergeDecks, mergeModels); only a deck with a grave can come back
\* as an older one.
THEOREM NewestWinsHolds == Spec => NewestWins
<1> DEFINE Forward == /\ OnlyForward(server, server')
                      /\ \A c \in Clients : OnlyForward(disk[c], disk'[c])
<1>1. IInv /\ IInv' /\ NoResurrection' /\ [Follows /\ Safe]_vars => [Forward]_<<server, disk>>
  <2> SUFFICES ASSUME IInv, IInv', NoResurrection', Safe
               PROVE  Forward
    BY DEF vars
  <2>1. /\ server \in Collection /\ server' \in Collection
        /\ \A c \in Clients : disk[c] \in Collection /\ disk'[c] \in Collection
    BY DEF IInv, Typed
  <2>2. /\ \A o \in Obj \ Decks : HasGrave(server', o) => ~Has(server', o)
        /\ \A c \in Clients, o \in Obj \ Decks : HasGrave(disk'[c], o) => ~Has(disk'[c], o)
    BY DEF NoResurrection
  <2>3. OnlyForward(server, server')
    BY <2>1, <2>2, FurtherForward DEF Safe
  <2>4. ASSUME NEW c \in Clients PROVE OnlyForward(disk[c], disk'[c])
    BY <2>1, <2>2, FurtherForward DEF Safe
  <2>5. QED
    BY <2>3, <2>4
<1>2. [](IInv /\ NoResurrection) /\ [][Follows /\ Safe]_vars => [][Forward]_<<server, disk>>
  BY <1>1, PTL
<1>3. Spec => [](IInv /\ NoResurrection) /\ [][Follows /\ Safe]_vars
  BY GoneForGood, AlwaysSafe, PTL
<1>4. QED
  BY <1>2, <1>3 DEF NewestWins

-----------------------------------------------------------------------------
(* Equal modification times.  The time of a commit is later than every     *)
(* other; the two halves of a session end with one conf, and the client    *)
(* with a usn later than what the server has.                              *)

Known(col, usn) ==
    /\ \A o \in Obj : Has(col, o) => col.rows[o].usn < usn
    /\ \A i \in DOMAIN col.graves : col.graves[i].usn < usn

Merging(c) == session[c].phase \in {"downloading", "uploading", "checking", "checked"}

ModOK(c) ==
    /\ disk[c].mod <= now /\ session[c].mod <= now
    /\ disk[c].mod = server.mod =>
          disk[c].conf = server.conf /\ Known(server, disk[c].usn)
    /\ In(c, "finishing") /\ session[c].mod = server.mod =>
          mem[c].conf = server.conf /\ Known(server, session[c].maxUsn + 1)
    /\ In(c, "started") => remote.lNewer = ~session[c].lNewer
    /\ Merging(c) => mem[c].conf = remote.col.conf

Mods == server.mod <= now /\ \A c \in Clients : ModOK(c)

LEMMA AllKnown ==
  ASSUME NEW col \in Collection, P!ServerOK(Flat(col))
  PROVE  Known(col, col.usn)
<1>1. ASSUME NEW o \in Obj PROVE col.rows[o].usn < col.usn
  <2>1. Flat(col).rows[o].usn < Flat(col).usn
    BY DEF P!ServerOK, P!ColOK
  <2>2. QED
    BY <2>1 DEF Flat
<1>2. ASSUME NEW i \in DOMAIN col.graves PROVE col.graves[i].usn < col.usn
  <2>1. col.graves[i] \in Flat(col).graves
    BY DEF Flat
  <2>2. QED
    BY <2>1, FlatOK DEF P!ServerOK
<1>3. QED
  BY <1>1, <1>2 DEF Known

\* A step of one client: what is left to show is about this client alone.
LEMMA ModStep ==
  ASSUME IInv, Mods, Typed', NEW c \in Clients, OthersKeep(c),
         now' = now \/ now' = now + 1,
         \A k \in Clients \ {c} : Open(k) => UNCHANGED remote,
         server' = server \/ server'.mod = now + 1, server'.mod <= now', ModOK(c)'
  PROVE  Mods'
<1>1. now \in Nat /\ server \in Collection /\ \A k \in Clients : disk[k] \in Collection /\ session[k] \in Session
  BY DEF IInv, Typed
<1>2. ASSUME NEW k \in Clients, k # c PROVE ModOK(k)'
  <2>1. /\ disk'[k] = disk[k] /\ mem'[k] = mem[k] /\ session'[k] = session[k]
        /\ disk[k].mod \in Nat /\ session[k].mod \in Nat
    BY <1>1, <1>2 DEF OthersKeep, Collection, Session
  <2>2. ModOK(k)
    BY DEF Mods
  <2>3. disk[k].mod <= now' /\ session[k].mod <= now'
    BY <1>1, <2>1, <2>2 DEF ModOK
  <2>4. disk[k].mod = server'.mod \/ session[k].mod = server'.mod => server' = server
    BY <1>1, <2>1, <2>2 DEF ModOK
  <2>5. In(k, "started") \/ Merging(k) => remote' = remote
    BY <1>2 DEF In, Merging, Open
  <2>6. QED
    BY <2>1, <2>2, <2>3, <2>4, <2>5 DEF ModOK, In, Merging
<1>3. QED
  BY <1>2 DEF Mods

\* A step of a session that commits nothing.
LEMMA SessionMods ==
  ASSUME IInv, Mods, Typed', NEW c \in Clients, OthersKeep(c), UNCHANGED <<disk, server>>,
         now' = now \/ now' = now + 1, \A k \in Clients \ {c} : Open(k) => UNCHANGED remote,
         session'[c].mod \in {session[c].mod, 0}, ~In(c, "finishing")',
         In(c, "started")' => remote'.lNewer = ~session'[c].lNewer,
         Merging(c)' => mem'[c].conf = remote'.col.conf
  PROVE  Mods'
<1>1. now \in Nat /\ server.mod \in Nat /\ disk[c].mod \in Nat /\ session[c].mod \in Nat
  BY DEF IInv, Typed, Collection, Session
<1>2. ModOK(c) /\ server.mod <= now
  BY DEF Mods
<1>3. server.mod <= now' /\ disk[c].mod <= now' /\ session'[c].mod <= now'
  BY <1>1, <1>2 DEF ModOK
<1>4. ModOK(c)'
  BY <1>2, <1>3 DEF ModOK
<1>5. QED
  BY <1>3, <1>4, ModStep

\* The other clients have no session open when this one has.
LEMMA OnlyOpen ==
  ASSUME IInv, NEW c \in Clients, Busy(c)
  PROVE  \A k \in Clients \ {c} : ~Open(k)
BY DEF IInv, Busy

LEMMA DropMods ==
  ASSUME IInv, Mods, Typed', NEW c \in Clients, ServerClash(c) \/ AskAfterAbort(c) \/ Fail(c)
  PROVE  Mods'
<1>1. /\ UNCHANGED <<disk, server, now>> /\ session' = [session EXCEPT ![c] = Idle]
      /\ remote' = IF remote.client = c THEN NoSession ELSE remote
  BY DEF ServerClash, AskAfterAbort, Fail, Drop, Go
<1>2. Typed
  BY DEF IInv
<1>3. \A k \in Clients \ {c} : Open(k) => remote' = remote
  BY <1>1 DEF IInv, SessionOK, Opened
<1>4. session'[c] = Idle
  BY <1>1, <1>2 DEF Typed
<1>5. /\ session'[c].mod = 0 /\ ~In(c, "finishing")' /\ ~In(c, "started")' /\ ~Merging(c)'
  BY <1>4 DEF Idle, In, Merging
<1>6. OthersKeep(c)
  BY <1>2, OneClient DEF Sync
<1>7. QED
  BY <1>1, <1>3, <1>5, <1>6, SessionMods

LEMMA StartMods ==
  ASSUME IInv, Mods, Typed', NEW c \in Clients, Start(c) \/ SchemaClash(c)
  PROVE  Mods'
<1>1. UNCHANGED <<disk, server, now>> /\ Busy(c)
  BY DEF Start, SchemaClash, Busy, Open, In
<1>2. OthersKeep(c) /\ session[c] \in Session /\ session \in [Clients -> Session]
  BY OneClient DEF Sync, IInv, Typed
<1>3. \A k \in Clients \ {c} : ~Open(k)
  BY <1>1, OnlyOpen
<1>4. session'[c].mod = session[c].mod /\ ~In(c, "finishing")' /\ ~Merging(c)'
  BY <1>2 DEF Start, SchemaClash, Go, In, Merging, Session
<1>5. In(c, "started")' => remote'.lNewer = ~session'[c].lNewer
  <2>1. CASE Start(c)
    <3>1. remote'.lNewer = ~session[c].lNewer
      BY <2>1 DEF Start
    <3>2. session'[c].lNewer = session[c].lNewer
      BY <1>2, <2>1 DEF Start, Go, Session
    <3>3. QED
      BY <3>1, <3>2
  <2>2. CASE SchemaClash(c)
    BY <1>2, <2>2 DEF SchemaClash, Go, In, Session
  <2>3. QED
    BY <2>1, <2>2
<1>6. QED
  BY <1>1, <1>2, <1>3, <1>4, <1>5, SessionMods

\* One side's conf goes to the other: exactly one of them is newer.
LEMMA ChangesMods ==
  ASSUME IInv, Mods, Typed', NEW c \in Clients, Changes(c)
  PROVE  Mods'
<1>1. UNCHANGED <<disk, server, now>> /\ In(c, "started") /\ Open(c) /\ Busy(c)
  BY DEF Changes, Busy, Open, In
<1>2. /\ OthersKeep(c) /\ session[c] \in Session /\ session \in [Clients -> Session]
      /\ mem \in [Clients -> Collection] /\ mem[c] \in Collection
  BY OneClient DEF Sync, IInv, Typed
<1>3. remote \in Remote /\ remote.col \in Collection
  BY <1>1, InABegunSession
<1>4. \A k \in Clients \ {c} : ~Open(k)
  BY <1>1, OnlyOpen
<1>5. session'[c].mod = session[c].mod /\ ~In(c, "finishing")' /\ ~In(c, "started")'
  BY <1>2 DEF Changes, Go, In, Session
<1>6. remote.lNewer = ~session[c].lNewer /\ remote.lNewer \in BOOLEAN
  BY <1>1, <1>3 DEF Mods, ModOK, Remote
<1> DEFINE lchg == LocalChanges(c)
           rchg == RemoteChanges
           marked == Take(mem[c], lchg, DOMAIN lchg)
           ours == Take(marked, rchg, NewerSmall(marked, rchg))
           theirs == Take(remote.col, lchg, NewerSmall(remote.col, lchg))
<1>7. mem'[c] = [ours EXCEPT !.conf = IF remote.lNewer THEN remote.col.conf ELSE ours.conf]
  BY <1>2 DEF Changes
<1>8. remote'.col = [theirs EXCEPT !.conf = IF session[c].lNewer THEN mem[c].conf ELSE theirs.conf]
  BY <1>3 DEF Changes, Remote
<1>9. ours.conf = mem[c].conf /\ theirs.conf = remote.col.conf
  BY <1>2, <1>3 DEF Take, Collection
<1>10. DOMAIN ours = DOMAIN mem[c] /\ DOMAIN theirs = DOMAIN remote.col
  BY <1>2, <1>3 DEF Take, Collection
<1>11. "conf" \in DOMAIN mem[c] /\ "conf" \in DOMAIN remote.col
  BY <1>2, <1>3 DEF Collection
<1> HIDE DEF ours, theirs
<1>12. /\ mem'[c].conf = IF remote.lNewer THEN remote.col.conf ELSE mem[c].conf
       /\ remote'.col.conf = IF session[c].lNewer THEN mem[c].conf ELSE remote.col.conf
  BY <1>7, <1>8, <1>9, <1>10, <1>11
<1>13. mem'[c].conf = remote'.col.conf
  BY <1>6, <1>12
<1>14. QED
  BY <1>1, <1>2, <1>4, <1>5, <1>13, SessionMods

\* Rows that travel leave the conf alone.
LEMMA ChunkMods ==
  ASSUME IInv, Mods, Typed', NEW c \in Clients, Download(c) \/ Upload(c) \/ SanityCheck(c)
  PROVE  Mods'
<1>1. UNCHANGED <<disk, server, now>> /\ Open(c) /\ Busy(c) /\ Merging(c)
  BY DEF Download, Upload, SanityCheck, Busy, Open, In, Merging
<1>2. /\ OthersKeep(c) /\ session[c] \in Session /\ session \in [Clients -> Session]
      /\ mem \in [Clients -> Collection] /\ mem[c] \in Collection
  BY OneClient DEF Sync, IInv, Typed
<1>3. remote \in Remote /\ remote.col \in Collection
  BY <1>1, InABegunSession
<1>4. \A k \in Clients \ {c} : ~Open(k)
  BY <1>1, OnlyOpen
<1>5. session'[c].mod = session[c].mod /\ ~In(c, "finishing")' /\ ~In(c, "started")'
  <2> PICK old \in Session : old = session[c]
    BY <1>2
  <2>1. CASE Download(c)
    <3>1. session'[c] = [[old EXCEPT !.phase = "uploading"] EXCEPT !.left = Tables] \/ session'[c] = old
      BY <1>2, <2>1 DEF Download, Go
    <3>2. old.phase = "downloading"
      BY <2>1 DEF Download, In
    <3>3. QED
      BY <3>1, <3>2 DEF In, Session
  <2>2. CASE Upload(c)
    <3> DEFINE unsent == UnsentRows(mem[c])
               left == Remaining(old.left, Ended(old.left, old.sent, unsent))
    <3> PICK rows \in ChunkRows(old.left, old.sent, unsent) :
           session' = [session EXCEPT ![c] =
              IF left = <<>> THEN [old EXCEPT !.phase = "checking", !.left = <<>>, !.sent = {}]
              ELSE [old EXCEPT !.left = left, !.sent = old.sent \cup rows]]
      BY <2>2 DEF Upload, Go
    <3> HIDE DEF left, unsent
    <3>1. \/ session'[c] = [[[old EXCEPT !.phase = "checking"] EXCEPT !.left = <<>>] EXCEPT !.sent = {}]
          \/ session'[c] = [[old EXCEPT !.left = left] EXCEPT !.sent = old.sent \cup rows]
      BY <1>2
    <3>2. old.phase = "uploading"
      BY <2>2 DEF Upload, In
    <3>3. QED
      BY <3>1, <3>2 DEF In, Session
  <2>3. CASE SanityCheck(c)
    BY <1>2, <2>3 DEF SanityCheck, Go, In, Session
  <2>4. QED
    BY <2>1, <2>2, <2>3
<1>6. mem'[c].conf = mem[c].conf
  <2> PICK m0 \in Collection : m0 = mem[c]
    BY <1>2
  <2>1. CASE Download(c)
    <3>1. \E rows : mem'[c] = [m0 EXCEPT !.rows = rows]
      BY <1>2, <2>1 DEF Download, MergeChunk, Take
    <3>2. QED
      BY <3>1 DEF Collection
  <2>2. CASE Upload(c)
    <3>1. \E rows : mem'[c] = [m0 EXCEPT !.rows = rows]
      BY <1>2, <2>2 DEF Upload
    <3>2. QED
      BY <3>1 DEF Collection
  <2>3. CASE SanityCheck(c)
    BY <2>3 DEF SanityCheck
  <2>4. QED
    BY <2>1, <2>2, <2>3
<1>7. remote'.col.conf = remote.col.conf
  BY <1>3 DEF Download, Upload, SanityCheck, MergeChunk, Take, Collection, Remote
<1>8. mem[c].conf = remote.col.conf
  BY <1>1 DEF Mods, ModOK
<1>9. QED
  BY <1>1, <1>2, <1>4, <1>5, <1>6, <1>7, <1>8, SessionMods

LEMMA UserMods ==
  ASSUME IInv, SInv, Mods, Typed', NEW c \in Clients, User(c)
  PROVE  Mods'
<1>1. UserAct(c)
  BY DEF User, EditRow, Review, AddCard, RemCard, EditSmall, ImportModel, RemDeck, EditConf, ModSchema
<1>2. /\ In(c, "idle") /\ now' = now + 1 /\ UNCHANGED <<session, server, remote>>
  BY <1>1 DEF UserAct
<1>3. /\ disk'[c].mod = disk[c].mod /\ disk'[c].conf = disk[c].conf /\ disk'[c].usn = disk[c].usn
  BY UserWell DEF SInv, AllSound, WellWritten
<1>4. now \in Nat /\ server.mod \in Nat /\ disk[c].mod \in Nat /\ session[c].mod \in Nat
  BY DEF IInv, Typed, Collection, Session
<1>5. ModOK(c) /\ server.mod <= now
  BY DEF Mods
<1>6. ~In(c, "finishing")' /\ ~In(c, "started")' /\ ~Merging(c)'
  BY <1>2 DEF In, Merging
<1>7. disk'[c].mod <= now' /\ session'[c].mod <= now' /\ server.mod <= now'
  BY <1>2, <1>3, <1>4, <1>5 DEF ModOK
<1>8. ModOK(c)'
  BY <1>2, <1>3, <1>5, <1>6, <1>7 DEF ModOK
<1>9. OthersKeep(c)
  BY OneClient DEF IInv
<1>10. QED
  BY <1>2, <1>7, <1>8, <1>9, ModStep

\* A client that has written something since saves it at a later time.
LEMMA MetaMods ==
  ASSUME IInv, Mods, Typed', NEW c \in Clients, Meta(c)
  PROVE  Mods'
<1>1. /\ In(c, "idle") /\ UNCHANGED <<server, remote>>
      /\ now' = IF modified[c] THEN now + 1 ELSE now
  BY DEF Meta
<1>2. /\ Typed /\ mem[c] \in Collection /\ Resting(c) /\ OthersKeep(c)
      /\ session \in [Clients -> Session] /\ modified[c] \in BOOLEAN
  BY <1>1, OneClient DEF IInv, Typed, SessionOK, Sync
<1>3. now \in Nat /\ server.mod \in Nat /\ disk[c].mod \in Nat /\ session[c].mod \in Nat
  BY <1>2 DEF Typed, Collection, Session
<1>4. ModOK(c) /\ server.mod <= now
  BY DEF Mods
<1> PICK m0 \in Collection : m0 = mem[c]
  BY <1>2
<1> PICK time : time = IF modified[c] THEN now' ELSE m0.mod
  OBVIOUS
<1>5. disk'[c] = [m0 EXCEPT !.mod = time]
  BY <1>2 DEF Meta, Typed
<1>6. disk'[c].mod = time /\ disk'[c].conf = m0.conf /\ disk'[c].usn = m0.usn
  BY <1>5 DEF Collection
<1>7. session'[c].mod \in {session[c].mod, 0} /\ session'[c].phase \in {"idle", "met"}
  <2>1. \/ session'[c] = session[c]
        \/ session'[c] = [[[[Idle EXCEPT !.phase = "met"] EXCEPT !.minUsn = m0.usn]
                             EXCEPT !.maxUsn = server.usn]
                             EXCEPT !.lNewer = (time > server.mod)]
    <3> DEFINE col == [m0 EXCEPT !.mod = time]
    <3>1. \/ session' = session
          \/ session' = [session EXCEPT ![c] = [Idle EXCEPT !.phase = "met", !.minUsn = col.usn,
                                       !.maxUsn = server.usn, !.lNewer = (col.mod > server.mod)]]
      BY DEF Meta, Go
    <3>2. col.usn = m0.usn /\ col.mod = time
      BY DEF Collection
    <3> HIDE DEF col
    <3>3. QED
      BY <1>2, <3>1, <3>2
  <2>2. QED
    BY <1>1, <2>1 DEF Idle, In
<1>8. CASE modified[c]
  <2>1. disk'[c].mod = now + 1 /\ now' = now + 1
    BY <1>1, <1>6, <1>8
  <2>2. ModOK(c)'
    BY <1>1, <1>3, <1>4, <1>7, <2>1 DEF ModOK, In, Merging
  <2>3. QED
    BY <1>1, <1>2, <1>3, <1>4, <2>1, <2>2, ModStep
<1>9. CASE ~modified[c]
  <2>1. m0 = disk[c] /\ time = m0.mod /\ now' = now
    BY <1>1, <1>2, <1>9 DEF Resting
  <2>2. disk'[c].mod = disk[c].mod /\ disk'[c].conf = disk[c].conf /\ disk'[c].usn = disk[c].usn
    BY <1>6, <2>1
  <2>3. ModOK(c)'
    BY <1>1, <1>3, <1>4, <1>7, <2>1, <2>2 DEF ModOK, In, Merging
  <2>4. QED
    BY <1>1, <1>2, <1>3, <1>4, <2>1, <2>3, ModStep
<1>10. QED
  BY <1>8, <1>9

LEMMA ErrorMods ==
  ASSUME IInv, Mods, Typed', NEW c \in Clients, SanityError(c)
  PROVE  Mods'
<1>1. /\ In(c, "checking") /\ now' = now + 1 /\ server' = server
      /\ session' = [session EXCEPT ![c] = Idle]
  BY DEF SanityError, Go
<1>2. Busy(c)
  BY <1>1 DEF Busy, Open, In
<1>3. OthersKeep(c) /\ Typed
  BY OneClient DEF IInv, Sync
<1>4. now \in Nat /\ server.mod \in Nat
  BY <1>3 DEF Typed, Collection
<1>5. server.mod <= now
  BY DEF Mods
<1> PICK old \in Collection : old = disk[c]
  BY <1>3 DEF Typed
<1>6. disk'[c].mod = now + 1
  <2>1. disk'[c] = [[[old EXCEPT !.scm = now + 1] EXCEPT !.mod = now + 1] EXCEPT !.conf = mem[c].conf]
    BY <1>1, <1>3 DEF SanityError, Typed
  <2>2. QED
    BY <2>1 DEF Collection
<1>7. session'[c] = Idle
  BY <1>1, <1>3 DEF Typed
<1>8. session'[c].mod = 0 /\ ~In(c, "finishing")' /\ ~In(c, "started")' /\ ~Merging(c)'
  BY <1>7 DEF Idle, In, Merging
<1>9. ModOK(c)'
  BY <1>1, <1>4, <1>5, <1>6, <1>8 DEF ModOK
<1>10. \A k \in Clients \ {c} : ~Open(k)
  BY <1>2, OnlyOpen
<1>11. QED
  BY <1>1, <1>3, <1>4, <1>5, <1>9, <1>10, ModStep

LEMMA ServerFinishMods ==
  ASSUME IInv, Mods, IInv', NEW c \in Clients, ServerFinish(c)
  PROVE  Mods'
<1>1. /\ In(c, "checked") /\ now' = now + 1 /\ UNCHANGED <<mem, disk>>
      /\ server' = [[remote.col EXCEPT !.mod = now'] EXCEPT !.usn = remote.maxUsn + 1]
      /\ session' = [session EXCEPT ![c] = [[session[c] EXCEPT !.phase = "finishing"] EXCEPT !.mod = now']]
  BY DEF ServerFinish, Go
<1>2. Busy(c) /\ Open(c) /\ Merging(c)
  BY <1>1 DEF Busy, Open, In, Merging
<1>3. OthersKeep(c) /\ Typed /\ Typed'
  BY OneClient DEF IInv, Sync
<1>4. /\ Begun(c) /\ Opened(c) /\ remote.col \in Collection /\ session[c] \in Session
  BY <1>2, InABegunSession
<1> PICK r0 \in Collection : r0 = remote.col
  BY <1>4
<1>5. server'.mod = now + 1 /\ server'.usn = remote.maxUsn + 1 /\ server'.conf = remote.col.conf
  <2>1. server' = [[r0 EXCEPT !.mod = now + 1] EXCEPT !.usn = remote.maxUsn + 1]
    BY <1>1
  <2>2. QED
    BY <2>1 DEF Collection
<1>6. /\ session'[c].phase = "finishing" /\ session'[c].mod = now + 1
      /\ session'[c].maxUsn = session[c].maxUsn
  <2>1. session'[c] = [[session[c] EXCEPT !.phase = "finishing"] EXCEPT !.mod = now + 1]
    BY <1>1, <1>3 DEF Typed
  <2>2. QED
    BY <1>4, <2>1 DEF Session
<1>7. Known(server', session'[c].maxUsn + 1)
  <2>1. server' \in Collection
    BY <1>3 DEF Typed
  <2>2. P!ServerOK(Flat(server'))
    BY DEF IInv, P!IInv
  <2>3. server'.usn = session'[c].maxUsn + 1
    BY <1>4, <1>5, <1>6 DEF Begun, Opened
  <2>4. QED
    BY <2>1, <2>2, <2>3, AllKnown
<1>8. mem[c].conf = server'.conf
  BY <1>2, <1>5 DEF Mods, ModOK
<1>9. now \in Nat /\ disk[c].mod \in Nat /\ disk[c].mod <= now
  BY <1>3 DEF Typed, Collection, Mods, ModOK
<1>10. ModOK(c)'
  BY <1>1, <1>5, <1>6, <1>7, <1>8, <1>9 DEF ModOK, In, Merging
<1>11. \A k \in Clients \ {c} : ~Open(k)
  BY <1>2, OnlyOpen
<1>12. server'.mod <= now'
  BY <1>1, <1>5, <1>9
<1>13. QED
  BY <1>1, <1>3, <1>5, <1>10, <1>11, <1>12, ModStep

LEMMA ClientFinishMods ==
  ASSUME IInv, Mods, Typed', NEW c \in Clients, ClientFinish(c)
  PROVE  Mods'
<1> DEFINE new == [[mem[c] EXCEPT !.mod = session[c].mod] EXCEPT !.usn = session[c].maxUsn + 1]
<1>1. /\ In(c, "finishing") /\ disk' = [disk EXCEPT ![c] = new]
      /\ session' = [session EXCEPT ![c] = Idle] /\ UNCHANGED <<server, remote, now>>
  BY DEF ClientFinish, Go
<1>2. /\ Typed /\ mem[c] \in Collection /\ session[c] \in Session /\ OthersKeep(c)
      /\ now \in Nat /\ server.mod \in Nat
  BY OneClient DEF IInv, Typed, Sync, Collection
<1>3. new.mod = session[c].mod /\ new.conf = mem[c].conf /\ new.usn = session[c].maxUsn + 1
  BY <1>2 DEF Collection
<1> HIDE DEF new
<1>4. disk'[c] = new /\ session'[c] = Idle
  BY <1>1, <1>2 DEF Typed
<1>5. session'[c].mod = 0 /\ ~In(c, "finishing")' /\ ~In(c, "started")' /\ ~Merging(c)'
  BY <1>4 DEF Idle, In, Merging
<1>6. ModOK(c) /\ server.mod <= now
  BY DEF Mods
<1>7. ModOK(c)'
  BY <1>1, <1>2, <1>3, <1>4, <1>5, <1>6 DEF ModOK
<1>8. QED
  BY <1>1, <1>2, <1>6, <1>7, ModStep

LEMMA FullUploadMods ==
  ASSUME IInv, Mods, IInv', NEW c \in Clients, FullUpload(c)
  PROVE  Mods'
<1>1. /\ In(c, "idle") /\ now' = now + 1 /\ UNCHANGED <<session, remote>>
      /\ disk' = [disk EXCEPT ![c] = BeforeUpload(disk[c], now + 1)]
      /\ server' = disk'[c] \/ server' = server
  BY DEF FullUpload, FullSyncOffered
<1>2. /\ Typed /\ Typed' /\ OthersKeep(c) /\ disk[c] \in Collection
      /\ now \in Nat /\ server.mod \in Nat /\ session[c].mod \in Nat
  BY OneClient DEF IInv, Typed, FullSync, Collection, Session
<1>3. disk'[c].mod = now + 1
  <2> PICK d0 \in Collection : d0 = disk[c]
    BY <1>2
  <2>1. disk'[c] = BeforeUpload(d0, now + 1)
    BY <1>1, <1>2 DEF Typed
  <2>2. QED
    BY <2>1 DEF BeforeUpload, Collection
<1>4. ModOK(c) /\ server.mod <= now
  BY DEF Mods
<1>5. Known(server', server'.usn)
  <2>1. server' \in Collection
    BY <1>2 DEF Typed
  <2>2. P!ServerOK(Flat(server'))
    BY DEF IInv, P!IInv
  <2>3. QED
    BY <2>1, <2>2, AllKnown
<1>6. disk'[c].mod = server'.mod => server' = disk'[c]
  BY <1>1, <1>2, <1>3, <1>4
<1>7. session'[c].mod <= now' /\ server'.mod <= now' /\ disk'[c].mod <= now'
  BY <1>1, <1>2, <1>3, <1>4 DEF ModOK
<1>8. ~In(c, "finishing")' /\ ~In(c, "started")' /\ ~Merging(c)'
  BY <1>1 DEF In, Merging
<1>9. ModOK(c)'
  BY <1>5, <1>6, <1>7, <1>8 DEF ModOK
<1>10. QED
  BY <1>1, <1>2, <1>3, <1>7, <1>9, ModStep

LEMMA FullDownloadMods ==
  ASSUME IInv, Mods, Typed', NEW c \in Clients, FullDownload(c)
  PROVE  Mods'
<1>1. /\ In(c, "idle") /\ UNCHANGED <<session, server, remote, now>>
      /\ disk' = [disk EXCEPT ![c] = server]
  BY DEF FullDownload, FullSyncOffered
<1>2. Typed /\ OthersKeep(c) /\ server \in Collection
  BY OneClient DEF IInv, Typed, FullSync
<1>3. disk'[c] = server
  BY <1>1, <1>2 DEF Typed
<1>4. Known(server, server.usn)
  BY <1>2, AllKnown DEF IInv, P!IInv
<1>5. ModOK(c) /\ server.mod <= now
  BY DEF Mods
<1>6. ~In(c, "finishing")' /\ ~In(c, "started")' /\ ~Merging(c)'
  BY <1>1 DEF In, Merging
<1>7. ModOK(c)'
  BY <1>1, <1>3, <1>4, <1>5, <1>6 DEF ModOK
<1>8. QED
  BY <1>1, <1>2, <1>5, <1>7, ModStep

LEMMA StepMods ==
  ASSUME IInv, SInv, Mods, IInv', Next
  PROVE  Mods'
<1>1. PICK c \in Clients : User(c) \/ Sync(c) \/ FullSync(c) \/ Fail(c)
  BY DEF Next
<1>2. Typed'
  BY DEF IInv
<1>3. QED
  BY <1>1, <1>2, UserMods, MetaMods, StartMods, ChangesMods, ChunkMods, DropMods, ErrorMods,
     ServerFinishMods, ClientFinishMods, FullUploadMods, FullDownloadMods DEF Sync, FullSync

LEMMA InitMods ==
  ASSUME Init
  PROVE  Mods
<1>1. /\ \A c \in Clients : disk[c] = InitialCol /\ session[c] = Idle
      /\ server = InitialCol /\ now = 0
  BY DEF Init
<1>2. InitialCol.mod = 0 /\ Idle.mod = 0
  BY DEF InitialCol, Idle
<1>3. Known(InitialCol, InitialCol.usn)
  BY <1>1, InitIInv, AllKnown DEF IInv, Typed, P!IInv
<1>4. \A c \in Clients : ~In(c, "finishing") /\ ~In(c, "started") /\ ~Merging(c)
  BY <1>1 DEF Idle, In, Merging
<1>5. QED
  BY <1>1, <1>2, <1>3, <1>4 DEF Mods, ModOK

LEMMA ModsTell ==
  ASSUME IInv, Mods
  PROVE  NoChangesIsTrue
<1> SUFFICES ASSUME NEW c \in Clients, In(c, "idle"), ~modified[c], mem[c].mod = server.mod
             PROVE  ~ServerHasNews(c) /\ mem[c].conf = server.conf
  BY DEF NoChangesIsTrue
<1>1. mem[c] = disk[c] /\ server \in Collection /\ mem[c].usn \in Nat
  BY DEF IInv, SessionOK, Resting, Typed, Collection
<1>2. mem[c].conf = server.conf /\ Known(server, mem[c].usn)
  BY <1>1 DEF Mods, ModOK
<1>3. ASSUME NEW o \in Obj, Has(server, o) PROVE ~ServerSends(server.rows[o], mem[c].usn)
  <2>1. server.rows[o].usn \in Int
    BY <1>1 DEF Collection, Row, Absent, Unsent
  <2>2. QED
    BY <1>1, <1>2, <1>3, <2>1 DEF Known, ServerSends
<1>4. ASSUME NEW i \in DOMAIN server.graves PROVE ~ServerSends(server.graves[i], mem[c].usn)
  <2>1. server.graves[i] \in Grave
    BY <1>1 DEF Collection
  <2>2. server.graves[i].usn \in Int
    BY <2>1 DEF Grave, Unsent
  <2>3. QED
    BY <1>1, <1>2, <2>2 DEF Known, ServerSends
<1>5. QED
  BY <1>2, <1>3, <1>4 DEF ServerHasNews, NewsSince

\* A sync that ends with "no changes", because the two modification times are
\* equal, misses nothing: the server has no row, no deletion and no conf that
\* this client has not got (Syncer.sync, Syncer.finish).
THEOREM NoChangesIsTrueHolds == Spec => []NoChangesIsTrue
<1>1. Init => Mods
  BY InitMods
<1>2. IInv /\ SInv /\ IInv' /\ Mods /\ [Next]_vars => Mods'
  <2>1. IInv /\ SInv /\ IInv' /\ Mods /\ Next => Mods'
    BY StepMods
  <2>2. Mods /\ UNCHANGED vars => Mods'
    BY DEF Mods, ModOK, vars, In, Merging
  <2>3. QED
    BY <2>1, <2>2
<1>3. IInv /\ Mods => NoChangesIsTrue
  BY ModsTell
<1>4. QED
  BY <1>1, <1>2, <1>3, AlwaysSafe, PTL DEF Spec

=============================================================================

------------------------ MODULE CollectionSync_proofs ------------------------
(***************************************************************************)
(* The promise of a collection sync holds for any number of clients and    *)
(* objects.  That nothing is left behind is not inductive: what a client   *)
(* has not yet sent, and what the server has not yet given it, must be     *)
(* ordered too, or the merge would lose one of them.                       *)
(***************************************************************************)
EXTENDS CollectionSync, TLAPS

-----------------------------------------------------------------------------
(* The inductive invariant.                                                *)

LogsOK(col) == \A o \in Logs \cap Obj : Has(col, o) => col.rows[o].mod = 0

\* What a collection has, it knows from a sync before the next one.
ColOK(col) ==
    /\ col \in Collection
    /\ 0 < col.usn
    /\ \A o \in Obj : col.rows[o].usn < col.usn
    /\ LogsOK(col)

\* Nothing waits to be sent on the server, and an object that came back after
\* it was deleted is as new as its grave.
ServerOK(srv) ==
    /\ ColOK(srv)
    /\ \A o \in Obj : srv.rows[o].usn \in Nat
    /\ \A g \in srv.graves : g.usn \in Nat /\ g.usn < srv.usn
    /\ \A o \in Obj, g \in srv.graves :
          g.obj = o /\ Has(srv, o) => g.usn <= srv.rows[o].usn

News(srv, o, usn) == Has(srv, o) /\ srv.rows[o].usn >= usn
Deleted(srv, o, usn) == \E g \in srv.graves : g.obj = o /\ g.usn >= usn

\* How one object stands on a client and on the server.
ObjectInStep(col, srv, o) ==
    LET l == Age(o, col.rows[o])
        r == Age(o, srv.rows[o])
        gone == UnsentGrave(col, o) \/ Deleted(srv, o, col.usn)
        news == News(srv, o, col.usn)
    IN  /\ ~gone /\ ~UnsentRow(col, o) /\ ~news => l = r
        /\ ~gone /\ ~UnsentRow(col, o) => l <= r
        /\ ~gone /\ UnsentRow(col, o) /\ ~news => l >= r

InStep(col, srv) ==
    /\ col.usn <= srv.usn
    /\ \A o \in Obj : ObjectInStep(col, srv, o)

IInv ==
    /\ ServerOK(server)
    /\ compatible \subseteq Clients
    /\ file \in [Clients -> Collection]
    /\ DOMAIN owed = Clients
    /\ \A c \in Clients :
        /\ ColOK(file[c])
        /\ owed[c] # Nothing => ColOK(owed[c])
        /\ c \in compatible => InStep(file[c], server)
        /\ c \in compatible /\ owed[c] # Nothing => InStep(owed[c], server)

-----------------------------------------------------------------------------
(* Rows.                                                                   *)

\* A row that is there has a time, one that is not is older.
LEMMA RowFacts ==
    ASSUME NEW row \in Row
    PROVE  /\ row.mod \in Nat \cup {-1} /\ row.usn \in Nat \cup {-1}
           /\ row # Absent => row.mod \in Nat
           /\ row = Absent => row.mod = -1 /\ row.usn = 0
  BY SMT DEF Row, Absent, Unsent

\* What counts as old: a row that is not there, and nothing else for a note.
LEMMA AgeFacts ==
    ASSUME NEW o, NEW row \in Row
    PROVE  /\ Age(o, row) \in Nat \cup {-1}
           /\ row # Absent => Age(o, row) \in Nat
           /\ row = Absent => Age(o, row) = -1
  BY RowFacts, SMT DEF Age

\* A row of a later time does not count as older.
LEMMA AgeOrder ==
    ASSUME NEW o, NEW a \in Row, NEW b \in Row, a.mod <= b.mod
    PROVE  Age(o, a) <= Age(o, b)
  BY RowFacts, SMT DEF Age

LEMMA AgeSame ==
    ASSUME NEW o, NEW a \in Row, NEW b \in Row, a.mod = b.mod
    PROVE  Age(o, a) = Age(o, b)
  BY RowFacts, SMT DEF Age

\* Each side of the exchange holds a row or none.
LEMMA MineTheirsTyped ==
    ASSUME NEW col \in Collection, server \in Collection, NEW o \in Obj
    PROVE  Mine(col, o) \in Row /\ Theirs(col, o) \in Row
  BY DEF Mine, Theirs, Collection, Row

\* A row is marked with the server's usn.
LEMMA MarkedTyped ==
    ASSUME NEW row \in Row, server.usn \in Nat
    PROVE  /\ Marked(row) \in Row
           /\ Marked(row).mod = row.mod
           /\ Sent(row) => Marked(row).usn = server.usn /\ Marked(row) # Absent
           /\ ~Sent(row) => Marked(row) = row
           /\ Marked(row).usn \in Nat
  <1>1. CASE Sent(row)
    <2>1. row \in [mod : Nat, usn : Nat \cup {Unsent}]
      BY <1>1, SMT DEF Sent, Row, Absent, Unsent
    <2> QED BY <1>1, <2>1, SMT DEF Marked, Sent, Row, Absent, Unsent
  <1>2. CASE ~Sent(row)
    BY <1>2, RowFacts, SMT DEF Marked, Sent, Unsent
  <1> QED BY <1>1, <1>2

-----------------------------------------------------------------------------
(* The exchange of one object.                                             *)

\* A row whose grave is sent is gone, or was written again.
WholeAt(col, o) == UnsentGrave(col, o) => Mine(col, o) = Absent \/ Sent(Mine(col, o))

\* The facts about the two rows of an object the cases below need.
LEMMA ExchangeFacts ==
    ASSUME NEW col, ColOK(col), ServerOK(server), InStep(col, server),
           NEW o \in Obj, WholeAt(col, o)
    PROVE  LET l == Mine(col, o)
               r == Theirs(col, o)
           IN  /\ l \in Row /\ r \in Row
               /\ Deleted(server, o, col.usn) => l = Absent
               /\ ~Deleted(server, o, col.usn) => l = col.rows[o]
               /\ UnsentGrave(col, o) => r = Absent
               /\ ~UnsentGrave(col, o) => r = server.rows[o]
               /\ r # Absent /\ Deleted(server, o, col.usn) => r.usn >= col.usn
               /\ l # Absent /\ UnsentGrave(col, o) => l.usn = Unsent
  <1> DEFINE l == Mine(col, o)
             r == Theirs(col, o)
  <1>1. /\ col \in Collection /\ server \in Collection
        /\ col.usn \in Nat /\ server.usn \in Nat
        /\ server.rows[o].usn \in Nat
        /\ server.graves \subseteq Grave
    BY DEF ColOK, ServerOK, Collection
  <1>2. l \in Row /\ r \in Row
    BY <1>1, MineTheirsTyped
  <1>3. /\ Deleted(server, o, col.usn) => l = Absent
        /\ ~Deleted(server, o, col.usn) => l = col.rows[o]
        /\ UnsentGrave(col, o) => r = Absent
        /\ ~UnsentGrave(col, o) => r = server.rows[o]
    BY DEF Mine, Theirs, NewGrave, Deleted
  <1>4. r # Absent /\ Deleted(server, o, col.usn) => r.usn >= col.usn
    <2> SUFFICES ASSUME r # Absent, Deleted(server, o, col.usn)
                 PROVE  r.usn >= col.usn
      OBVIOUS
    <2>1. r = server.rows[o] /\ Has(server, o)
      BY <1>3 DEF Has
    <2>2. PICK g \in server.graves : g.obj = o /\ g.usn >= col.usn
      BY DEF Deleted
    <2>3. g.usn <= server.rows[o].usn /\ g.usn \in Nat
      BY <2>1, <2>2 DEF ServerOK
    <2> QED BY <1>1, <2>1, <2>2, <2>3, SMT
  <1>5. l # Absent /\ UnsentGrave(col, o) => l.usn = Unsent
    BY DEF WholeAt, Sent
  <1> QED BY <1>2, <1>3, <1>4, <1>5

\* What neither side takes over was the same already.
LEMMA LeftAlone ==
    ASSUME NEW col, ColOK(col), ServerOK(server), InStep(col, server),
           NEW o \in Obj, WholeAt(col, o), ~ClientTakes(col, o), ~ServerTakes(col, o)
    PROVE  Age(o, Mine(col, o)) = Age(o, Theirs(col, o))
  <1> DEFINE l == Mine(col, o)
             r == Theirs(col, o)
             gone == UnsentGrave(col, o) \/ Deleted(server, o, col.usn)
             news == News(server, o, col.usn)
             small == o \in Small \ Logs
  <1>1. /\ l \in Row /\ r \in Row
        /\ Deleted(server, o, col.usn) => l = Absent
        /\ ~Deleted(server, o, col.usn) => l = col.rows[o]
        /\ UnsentGrave(col, o) => r = Absent
        /\ ~UnsentGrave(col, o) => r = server.rows[o]
        /\ r # Absent /\ Deleted(server, o, col.usn) => r.usn >= col.usn
        /\ l # Absent /\ UnsentGrave(col, o) => l.usn = Unsent
    BY ExchangeFacts
  <1>2. /\ Age(o, l) \in Nat \cup {-1} /\ l.usn \in Nat \cup {-1}
        /\ l # Absent => Age(o, l) \in Nat
        /\ l = Absent => Age(o, l) = -1 /\ l.usn = 0
        /\ Age(o, r) \in Nat \cup {-1} /\ r.usn \in Nat \cup {-1}
        /\ r # Absent => Age(o, r) \in Nat
        /\ r = Absent => Age(o, r) = -1 /\ r.usn = 0
    BY <1>1, RowFacts, AgeFacts
  <1>3. col.usn \in Nat
    BY DEF ColOK, Collection
  <1>4. /\ ~gone /\ ~UnsentRow(col, o) /\ ~news =>
              Age(o, col.rows[o]) = Age(o, server.rows[o])
        /\ ~gone /\ ~UnsentRow(col, o) =>
              Age(o, col.rows[o]) <= Age(o, server.rows[o])
        /\ ~gone /\ UnsentRow(col, o) /\ ~news =>
              Age(o, col.rows[o]) >= Age(o, server.rows[o])
    BY DEF InStep, ObjectInStep
  \* Neither row is marked for the other side.
  <1>5. CASE ~Sent(l) /\ ~Offered(r, col.usn)
    <2>1. l # Absent => ~UnsentGrave(col, o)
      BY <1>1, <1>5 DEF Sent
    <2>2. r # Absent => ~Deleted(server, o, col.usn)
      BY <1>1, <1>5 DEF Offered
    <2>3. CASE l = Absent /\ r = Absent
      BY <1>2, <2>3
    <2>4. CASE l # Absent \/ r # Absent
      <3>1. ~gone
        BY <1>1, <2>1, <2>2, <2>4
      <3>2. l = col.rows[o] /\ r = server.rows[o]
        BY <1>1, <3>1
      <3>3. ~UnsentRow(col, o) /\ ~news
        BY <1>5, <3>2 DEF Sent, Offered, UnsentRow, News, Has
      <3> QED BY <1>4, <3>1, <3>2, <3>3
    <2> QED BY <2>3, <2>4
  <1>6. CASE o \in Logs
    <2>1. l # Absent /\ r # Absent => Age(o, l) = Age(o, r)
      <3>1. o \in Logs \cap Obj
        BY <1>6
      <3>2. ColOK(server)
        BY DEF ServerOK
      <3>3. l # Absent /\ r # Absent => l.mod = 0 /\ r.mod = 0
        BY <1>1, <3>1, <3>2 DEF ColOK, LogsOK, Has
      <3> QED BY <1>1, <3>3, AgeSame
    <2>2. ~Sent(l) => r = Absent \/ l # Absent \/ ~Offered(r, col.usn)
      BY <1>6 DEF ClientTakes
    <2>3. Sent(l) => l # Absent /\ r # Absent
      BY <1>2, <1>6, SMT DEF ServerTakes, Sent, Unsent
    <2>4. Offered(r, col.usn) => r # Absent /\ l # Absent
      BY <1>6 DEF ClientTakes, Offered
    <2> QED BY <1>5, <2>1, <2>3, <2>4
  <1>7. CASE o \notin Logs /\ Sent(l) /\ Offered(r, col.usn)
    <2>1. ~(Age(o, l) < Age(o, r)) /\ ~(Age(o, r) < Age(o, l))
      BY <1>7 DEF ClientTakes, ServerTakes
    <2> QED BY <1>2, <2>1, SMT
  <1>8. CASE small /\ ~Sent(l) /\ Offered(r, col.usn)
    <2>1. ~(Age(o, l) < Age(o, r)) /\ r # Absent
      BY <1>8 DEF ClientTakes, Offered
    <2>2. l # Absent
      BY <1>2, <2>1, SMT
    <2>3. ~gone /\ l = col.rows[o] /\ r = server.rows[o]
      BY <1>1, <1>8, <2>1, <2>2 DEF Sent
    <2>4. ~UnsentRow(col, o)
      BY <1>8, <2>3 DEF Sent, UnsentRow
    <2> QED BY <1>2, <1>4, <1>8, <2>1, <2>3, <2>4, SMT
  <1>9. CASE small /\ Sent(l) /\ ~Offered(r, col.usn)
    <2>1. ~(Age(o, r) < Age(o, l))
      BY <1>9 DEF ServerTakes
    <2>2. l # Absent
      BY <1>2, <1>9, SMT DEF Sent, Unsent
    <2>3. r # Absent
      BY <1>2, <2>1, <2>2, SMT
    <2>4. ~gone /\ l = col.rows[o] /\ r = server.rows[o]
      BY <1>1, <2>2, <2>3
    <2>5. UnsentRow(col, o) /\ ~news
      BY <1>9, <2>3, <2>4 DEF Sent, UnsentRow, News, Offered, Has
    <2> QED BY <1>2, <1>4, <1>9, <2>1, <2>4, <2>5, SMT
  <1>10. CASE /\ o \notin Logs /\ o \notin Small
              /\ \/ Sent(l) /\ ~Offered(r, col.usn)
                 \/ ~Sent(l) /\ Offered(r, col.usn)
    BY <1>10 DEF ClientTakes, ServerTakes
  <1> QED BY <1>5, <1>6, <1>7, <1>8, <1>9, <1>10

\* After the exchange both sides have the same version of every object.
LEMMA MergedEqual ==
    ASSUME NEW col, ColOK(col), ServerOK(server), InStep(col, server),
           NEW o \in Obj, WholeAt(col, o)
    PROVE  Age(o, ClientAfter(col).rows[o]) = Age(o, ServerAfter(col).rows[o])
  <1> DEFINE l == Mine(col, o)
             r == Theirs(col, o)
  <1>1. l \in Row /\ r \in Row /\ server.usn \in Nat
    BY ExchangeFacts DEF ServerOK, ColOK, Collection
  <1>2. Age(o, Marked(l)) = Age(o, l)
    BY <1>1, MarkedTyped, AgeSame
  <1>3. /\ Age(o, l) \in Nat \cup {-1} /\ Age(o, r) \in Nat \cup {-1}
        /\ l = Absent => l.usn = 0
    BY <1>1, RowFacts, AgeFacts
  <1>4. Age(o, ClientAfter(col).rows[o]) =
           IF ClientTakes(col, o) THEN Age(o, r) ELSE Age(o, l)
    <2>1. ClientAfter(col).rows[o] =
             IF ClientTakes(col, o)
             THEN [r EXCEPT !.usn = IF o \in Small THEN @ ELSE server.usn]
             ELSE Marked(l)
      BY DEF ClientAfter
    <2>2. CASE ClientTakes(col, o)
      <3>1. r # Absent /\ r \in [mod : Nat, usn : Nat \cup {Unsent}]
        BY <1>1, <2>2 DEF ClientTakes, Offered, Row
      <3>2. ClientAfter(col).rows[o] # Absent
        BY <2>1, <2>2, <3>1, SMT DEF Absent
      <3>3. ClientAfter(col).rows[o].mod = r.mod
        BY <2>1, <2>2, <3>1
      <3> QED BY <2>2, <3>1, <3>2, <3>3 DEF Age
    <2>3. CASE ~ClientTakes(col, o)
      BY <1>2, <2>1, <2>3
    <2> QED BY <2>2, <2>3
  <1>5. Age(o, ServerAfter(col).rows[o]) =
           IF ServerTakes(col, o) THEN Age(o, l) ELSE Age(o, r)
    BY <1>2 DEF ServerAfter
  <1>6. ~(ClientTakes(col, o) /\ ServerTakes(col, o))
    <2> SUFFICES ASSUME ClientTakes(col, o), ServerTakes(col, o) PROVE FALSE
      OBVIOUS
    <2>1. Sent(l) /\ Offered(r, col.usn)
      BY DEF ClientTakes, ServerTakes
    <2>2. CASE o \in Logs
      <3>1. l = Absent
        BY <2>2 DEF ClientTakes
      <3> QED BY <1>3, <2>1, <3>1, SMT DEF Sent, Unsent
    <2>3. CASE o \notin Logs
      <3>1. Age(o, l) < Age(o, r) /\ Age(o, r) < Age(o, l)
        BY <2>1, <2>3 DEF ClientTakes, ServerTakes
      <3> QED BY <1>3, <3>1, SMT
    <2> QED BY <2>2, <2>3
  <1>7. CASE ~ClientTakes(col, o) /\ ~ServerTakes(col, o)
    BY <1>4, <1>5, <1>7, LeftAlone
  <1> QED BY <1>4, <1>5, <1>6, <1>7

-----------------------------------------------------------------------------
(* The collections after the exchange.                                     *)

\* The rows of the server after the exchange.
LEMMA ServerAfterRow ==
    ASSUME NEW col, ColOK(col), ServerOK(server), NEW o \in Obj
    PROVE  LET s == ServerAfter(col).rows[o]
               l == Mine(col, o)
               r == Theirs(col, o)
           IN  /\ s \in Row /\ s.usn \in Nat /\ s.usn < server.usn + 1
               /\ o \in Logs /\ s # Absent => s.mod = 0
               /\ ServerTakes(col, o) => s # Absent /\ s.usn = server.usn /\ s.mod = l.mod
               /\ ~ServerTakes(col, o) => s = r
  <1> DEFINE s == ServerAfter(col).rows[o]
             l == Mine(col, o)
             r == Theirs(col, o)
  <1>1. /\ l \in Row /\ r \in Row /\ server.usn \in Nat
        /\ l = Absent \/ l = col.rows[o]
        /\ r = Absent \/ r = server.rows[o]
        /\ server.rows[o].usn \in Nat /\ server.rows[o].usn < server.usn
    BY MineTheirsTyped DEF ColOK, ServerOK, Collection, Mine, Theirs
  <1>2. s = IF ServerTakes(col, o) THEN Marked(l) ELSE r
    BY DEF ServerAfter
  <1>3. o \in Logs => (l # Absent => l.mod = 0) /\ (r # Absent => r.mod = 0)
    BY <1>1 DEF ColOK, ServerOK, LogsOK, Has
  <1>4. r.usn \in Nat /\ r.usn < server.usn + 1
    BY <1>1, RowFacts, SMT
  <1>5. CASE ServerTakes(col, o)
    <2>1. Sent(l)
      BY <1>5 DEF ServerTakes
    <2>2. l # Absent
      BY <1>1, <2>1, RowFacts, SMT DEF Sent, Unsent
    <2>3. s = Marked(l) /\ s \in Row /\ s.mod = l.mod /\ s.usn = server.usn /\ s # Absent
      BY <1>1, <1>2, <1>5, <2>1, MarkedTyped
    <2> QED BY <1>1, <1>3, <1>5, <2>2, <2>3, SMT
  <1>6. CASE ~ServerTakes(col, o)
    BY <1>1, <1>2, <1>3, <1>4, <1>6
  <1> QED BY <1>5, <1>6

\* The graves of the server after the exchange.
LEMMA ServerAfterGraves ==
    ASSUME NEW col, ColOK(col), ServerOK(server)
    PROVE  LET srv == ServerAfter(col)
           IN  /\ srv.graves \in SUBSET Grave
               /\ \A g \in srv.graves : g.usn \in Nat /\ g.usn < server.usn + 1
               /\ \A g \in srv.graves :
                    \/ g \in server.graves
                    \/ g.obj \in Obj /\ UnsentGrave(col, g.obj) /\ g.usn = server.usn
               /\ server.graves \subseteq srv.graves
               /\ \A o \in Obj : UnsentGrave(col, o) =>
                    [obj |-> o, usn |-> server.usn] \in srv.graves
  <1> DEFINE new == {[obj |-> o, usn |-> server.usn] : o \in {x \in Obj : UnsentGrave(col, x)}}
  <1>1. ServerAfter(col).graves = server.graves \cup new
    BY DEF ServerAfter
  <1>2. server.usn \in Nat /\ server.graves \subseteq Grave
    BY DEF ServerOK, ColOK, Collection
  <1>3. \A g \in new : /\ g.obj \in Obj /\ UnsentGrave(col, g.obj)
                       /\ g.usn = server.usn /\ g \in Grave
    BY <1>2 DEF Grave
  <1>4. \A g \in server.graves : g.usn \in Nat /\ g.usn < server.usn + 1
    <2> SUFFICES ASSUME NEW g \in server.graves PROVE g.usn \in Nat /\ g.usn < server.usn + 1
      OBVIOUS
    <2>1. g.usn \in Nat /\ g.usn < server.usn
      BY DEF ServerOK
    <2> QED BY <1>2, <2>1, SMT
  <1>5. \A g \in new : g.usn \in Nat /\ g.usn < server.usn + 1
    BY <1>2, <1>3, SMT
  <1>6. \A o \in Obj : UnsentGrave(col, o) => [obj |-> o, usn |-> server.usn] \in new
    OBVIOUS
  <1> HIDE DEF new
  <1> QED BY <1>1, <1>2, <1>3, <1>4, <1>5, <1>6

\* The server's collection stays a server's collection.
LEMMA ServerAfterOK ==
    ASSUME NEW col, ColOK(col), ServerOK(server)
    PROVE  ServerOK(ServerAfter(col)) /\ ServerAfter(col).usn = server.usn + 1
  <1> DEFINE srv == ServerAfter(col)
  <1>1. srv.usn = server.usn + 1 /\ server.usn \in Nat
    BY DEF ServerAfter, ServerOK, ColOK, Collection
  <1>2. \A o \in Obj : /\ srv.rows[o] \in Row /\ srv.rows[o].usn \in Nat
                       /\ srv.rows[o].usn < srv.usn
                       /\ o \in Logs /\ srv.rows[o] # Absent => srv.rows[o].mod = 0
    BY <1>1, ServerAfterRow
  <1>3. srv.rows \in [Obj -> Row] /\ srv.graves \in SUBSET Grave /\ srv.usn \in Nat
    <2>1. srv.rows = [o \in Obj |-> srv.rows[o]]
      BY DEF ServerAfter
    <2> QED BY <1>1, <1>2, <2>1, ServerAfterGraves, SMT
  <1>4. srv = [rows |-> srv.rows, graves |-> srv.graves, usn |-> srv.usn]
    BY DEF ServerAfter
  <1>5. srv \in Collection
    BY <1>3, <1>4 DEF Collection
  <1>6. \A g \in srv.graves : g.usn \in Nat /\ g.usn < srv.usn
    BY <1>1, ServerAfterGraves
  <1>7. \A o \in Obj, g \in srv.graves :
            g.obj = o /\ Has(srv, o) => g.usn <= srv.rows[o].usn
    <2> SUFFICES ASSUME NEW o \in Obj, NEW g \in srv.graves, g.obj = o, Has(srv, o)
                 PROVE  g.usn <= srv.rows[o].usn
      OBVIOUS
    <2>0. g.usn \in Nat /\ g.usn <= server.usn
      BY <1>1, <1>6, SMT
    <2>1. CASE ServerTakes(col, o)
      <3>1. srv.rows[o].usn = server.usn
        BY <2>1, ServerAfterRow
      <3> QED BY <1>1, <2>0, <3>1, SMT
    <2>2. CASE ~ServerTakes(col, o)
      <3>1. srv.rows[o] = Theirs(col, o) /\ Theirs(col, o) # Absent
        BY <2>2, ServerAfterRow DEF Has
      <3>2. ~UnsentGrave(col, o) /\ srv.rows[o] = server.rows[o]
        BY <3>1 DEF Theirs
      <3>3. g \in server.graves
        BY <3>2, ServerAfterGraves
      <3> QED BY <3>1, <3>2, <3>3 DEF ServerOK, Has
    <2> QED BY <2>1, <2>2
  <1>8. ColOK(srv)
    <2>1. 0 < srv.usn
      BY <1>1, SMT
    <2> QED BY <1>2, <1>5, <2>1 DEF ColOK, LogsOK, Has
  <1> HIDE DEF srv
  <1> QED BY <1>1, <1>2, <1>6, <1>7, <1>8 DEF ServerOK, srv

\* What the client will commit has no mark left, nor have its graves.
LEMMA ClientAfterOK ==
    ASSUME NEW col, ColOK(col), ServerOK(server), col.usn <= server.usn
    PROVE  /\ ColOK(ClientAfter(col))
           /\ ClientAfter(col).usn = server.usn + 1
           /\ \A o \in Obj : ~UnsentRow(ClientAfter(col), o)
           /\ \A o \in Obj : ~UnsentGrave(ClientAfter(col), o)
  <1> DEFINE new == ClientAfter(col)
             mine == {[obj |-> g.obj, usn |-> IF g.usn = Unsent THEN server.usn ELSE g.usn] :
                        g \in col.graves}
             theirs == {[obj |-> o, usn |-> col.usn] : o \in {x \in Obj : NewGrave(x, col.usn)}}
  <1>1. /\ server.usn \in Nat /\ col.usn \in Nat /\ col.graves \subseteq Grave
        /\ new.usn = server.usn + 1
    BY DEF ClientAfter, ServerOK, ColOK, Collection
  <1>2. ASSUME NEW o \in Obj
        PROVE  /\ new.rows[o] \in Row /\ new.rows[o].usn \in Nat
               /\ new.rows[o].usn < server.usn + 1
               /\ o \in Logs /\ new.rows[o] # Absent => new.rows[o].mod = 0
    <2> DEFINE l == Mine(col, o)
               r == Theirs(col, o)
    <2>1. /\ l \in Row /\ r \in Row
          /\ l = Absent \/ l = col.rows[o]
          /\ r = Absent \/ r = server.rows[o]
          /\ server.rows[o].usn \in Nat /\ server.rows[o].usn < server.usn
          /\ col.rows[o].usn < col.usn
      BY MineTheirsTyped DEF ColOK, ServerOK, Collection, Mine, Theirs
    <2>2. o \in Logs => (l # Absent => l.mod = 0) /\ (r # Absent => r.mod = 0)
      BY <2>1 DEF ColOK, ServerOK, LogsOK, Has
    <2>3. CASE ClientTakes(col, o)
      <3> DEFINE u == IF o \in Small THEN r.usn ELSE server.usn
      <3>1. r # Absent /\ r \in [mod : Nat, usn : Nat \cup {Unsent}]
        BY <2>1, <2>3 DEF ClientTakes, Offered, Row
      <3>2. new.rows[o] = [r EXCEPT !.usn = u]
        BY <2>3 DEF ClientAfter
      <3>3. u \in Nat /\ u < server.usn + 1
        BY <1>1, <2>1, <3>1, SMT
      <3> HIDE DEF u
      <3>4. /\ new.rows[o] \in [mod : Nat, usn : Nat \cup {Unsent}]
            /\ new.rows[o].usn = u /\ new.rows[o].mod = r.mod
        BY <3>1, <3>2, <3>3
      <3> QED BY <2>2, <3>1, <3>3, <3>4 DEF Row
    <2>4. CASE ~ClientTakes(col, o)
      <3>1. new.rows[o] = Marked(l)
        BY <2>4 DEF ClientAfter
      <3>2. /\ Marked(l) \in Row /\ Marked(l).mod = l.mod /\ Marked(l).usn \in Nat
            /\ Sent(l) => Marked(l).usn = server.usn
            /\ ~Sent(l) => Marked(l) = l
        BY <1>1, <2>1, MarkedTyped
      <3>3. l = Absent => ~Sent(l)
        BY <2>1, RowFacts, SMT DEF Sent, Unsent
      <3>4. l.usn < server.usn + 1
        BY <1>1, <2>1, RowFacts, SMT
      <3>5. Marked(l).usn < server.usn + 1
        BY <1>1, <3>2, <3>4, SMT
      <3>6. Marked(l) # Absent => l # Absent
        BY <3>2, <3>3
      <3> QED BY <2>2, <3>1, <3>2, <3>5, <3>6
    <2> QED BY <2>3, <2>4
  <1>3. new.rows \in [Obj -> Row]
    <2>1. new.rows = [o \in Obj |-> new.rows[o]]
      BY DEF ClientAfter
    <2> QED BY <1>2, <2>1
  <1>4. new.graves = mine \cup theirs
    BY DEF ClientAfter
  <1>5. \A g \in mine \cup theirs : g \in Grave /\ g.usn \in Nat
    <2>1. \A g \in theirs : g \in Grave /\ g.usn \in Nat
      BY <1>1 DEF Grave
    <2>2. \A g \in mine : g \in Grave /\ g.usn \in Nat
      BY <1>1, SMT DEF Grave, Unsent
    <2> QED BY <2>1, <2>2
  <1> HIDE DEF mine, theirs
  <1>6. new \in Collection
    <2>1. new = [rows |-> new.rows, graves |-> new.graves, usn |-> new.usn]
      BY DEF ClientAfter
    <2>2. new.usn \in Nat /\ new.graves \in SUBSET Grave
      BY <1>1, <1>4, <1>5, SMT
    <2> QED BY <1>3, <2>1, <2>2 DEF Collection
  <1>7. ColOK(new)
    BY <1>1, <1>2, <1>6 DEF ColOK, LogsOK, Has
  <1>8. \A o \in Obj : ~UnsentRow(new, o)
    BY <1>2, SMT DEF UnsentRow, Unsent
  <1>9. \A o \in Obj : ~UnsentGrave(new, o)
    <2> SUFFICES ASSUME NEW o \in Obj, UnsentGrave(new, o) PROVE FALSE
      OBVIOUS
    <2>1. [obj |-> o, usn |-> Unsent] \in mine \cup theirs
      BY <1>4 DEF UnsentGrave
    <2>2. Unsent \in Nat
      BY <1>5, <2>1
    <2> QED BY <2>2, SMT DEF Unsent
  <1> HIDE DEF new
  <1> QED BY <1>1, <1>7, <1>8, <1>9 DEF new

\* After the exchange the two sides are in step, with nothing left to give.
LEMMA ExchangedInStep ==
    ASSUME NEW col, ColOK(col), ServerOK(server), Whole(col), InStep(col, server)
    PROVE  InStep(ClientAfter(col), ServerAfter(col))
  <1> DEFINE new == ClientAfter(col)
             srv == ServerAfter(col)
  <1>1. /\ server.usn \in Nat
        /\ new.usn = server.usn + 1 /\ srv.usn = server.usn + 1
        /\ ServerOK(srv) /\ ColOK(new)
        /\ \A o \in Obj : ~UnsentRow(new, o)
    BY ServerAfterOK, ClientAfterOK DEF InStep, ServerOK, ColOK, Collection
  <1>2. ASSUME NEW o \in Obj PROVE ObjectInStep(new, srv, o)
    <2>1. Age(o, new.rows[o]) = Age(o, srv.rows[o])
      BY MergedEqual DEF Whole, WholeAt
    <2>2. Age(o, new.rows[o]) \in Int
      BY <1>1, AgeFacts, SMT DEF ColOK, Collection
    <2> HIDE DEF new, srv
    <2> QED BY <1>1, <2>1, <2>2, SMT DEF ObjectInStep
  <1>3. new.usn <= srv.usn
    BY <1>1, SMT
  <1> QED BY <1>2, <1>3 DEF InStep

\* The server never goes back to an older version of an object that nobody
\* deleted: what it takes over blindly, because it has nothing new of its own,
\* was made from the version it has.
LEMMA ServerGoesForward ==
    ASSUME NEW col, ColOK(col), ServerOK(server), InStep(col, server),
           NEW o \in Obj, ~UnsentGrave(col, o)
    PROVE  Age(o, server.rows[o]) <= Age(o, ServerAfter(col).rows[o])
  <1> DEFINE l == Mine(col, o)
             r == server.rows[o]
  <1>1. /\ l \in Row /\ r \in Row
        /\ Theirs(col, o) = r
        /\ l = Absent \/ (~Deleted(server, o, col.usn) /\ l = col.rows[o])
    BY MineTheirsTyped DEF ColOK, ServerOK, Collection, Mine, Theirs, NewGrave, Deleted
  <1>2. /\ Age(o, l) \in Int /\ Age(o, r) \in Int
        /\ l = Absent => l.usn = 0
        /\ r = Absent => Age(o, r) = -1 /\ Age(o, l) >= -1
    BY <1>1, RowFacts, AgeFacts, SMT
  <1>3. CASE ~ServerTakes(col, o)
    BY <1>1, <1>2, <1>3, ServerAfterRow
  <1>4. CASE ServerTakes(col, o)
    <2>1. Age(o, ServerAfter(col).rows[o]) = Age(o, l) /\ Sent(l)
      <3>1. /\ ServerAfter(col).rows[o] \in Row
            /\ ServerAfter(col).rows[o].mod = l.mod
        BY <1>4, ServerAfterRow
      <3> QED BY <1>1, <1>4, <3>1, AgeSame DEF ServerTakes
    <2>2. CASE r = Absent \/ Age(o, r) < Age(o, l)
      BY <1>2, <2>1, <2>2, SMT
    <2>3. CASE r # Absent /\ ~(Age(o, r) < Age(o, l))
      <3>1. ~Offered(r, col.usn)
        BY <1>1, <1>4, <2>3 DEF ServerTakes
      <3>2. ~News(server, o, col.usn)
        BY <2>3, <3>1 DEF News, Offered, Has
      <3>3. ~Deleted(server, o, col.usn) /\ UnsentRow(col, o) /\ l = col.rows[o]
        BY <1>1, <1>2, <2>1, SMT DEF Sent, Unsent, UnsentRow
      <3>4. Age(o, l) >= Age(o, r)
        BY <3>2, <3>3 DEF InStep, ObjectInStep
      <3> QED BY <1>2, <2>1, <3>4, SMT
    <2> QED BY <2>2, <2>3
  <1> QED BY <1>3, <1>4

\* Nor does a client.
LEMMA ClientGoesForward ==
    ASSUME NEW col, ColOK(col), ServerOK(server), InStep(col, server),
           NEW o \in Obj, ~UnsentGrave(col, o), ~Deleted(server, o, col.usn)
    PROVE  Age(o, col.rows[o]) <= Age(o, ClientAfter(col).rows[o])
  <1> DEFINE l == col.rows[o]
             r == server.rows[o]
  <1>1. /\ l \in Row /\ r \in Row /\ ServerAfter(col).rows[o] \in Row
        /\ Mine(col, o) = l /\ Theirs(col, o) = r
    BY ServerAfterRow DEF ColOK, ServerOK, Collection, Mine, Theirs, NewGrave, Deleted
  <1>2. /\ Age(o, l) \in Int /\ Age(o, r) \in Int /\ Age(o, ServerAfter(col).rows[o]) \in Int
    BY <1>1, AgeFacts, SMT
  <1>3. /\ Age(o, ClientAfter(col).rows[o]) = Age(o, ServerAfter(col).rows[o])
        /\ Age(o, r) <= Age(o, ServerAfter(col).rows[o])
    BY MergedEqual, ServerGoesForward DEF WholeAt
  <1>4. CASE ~UnsentRow(col, o)
    <2>1. Age(o, l) <= Age(o, r)
      BY <1>4 DEF InStep, ObjectInStep
    <2> QED BY <1>2, <1>3, <2>1, SMT
  <1>5. CASE UnsentRow(col, o) /\ ServerTakes(col, o)
    <2>1. Age(o, ServerAfter(col).rows[o]) = Age(o, l)
      <3>1. ServerAfter(col).rows[o].mod = l.mod
        BY <1>1, <1>5, ServerAfterRow
      <3> QED BY <1>1, <3>1, AgeSame
    <2> QED BY <1>2, <1>3, <2>1, SMT
  <1>6. CASE UnsentRow(col, o) /\ ClientTakes(col, o)
    <2>1. Age(o, l) <= Age(o, r)
      <3>1. l # Absent /\ Sent(l)
        BY <1>1, <1>6, RowFacts, SMT DEF UnsentRow, Unsent, Sent
      <3> QED BY <1>1, <1>2, <1>6, <3>1, SMT DEF ClientTakes
    <2> QED BY <1>2, <1>3, <2>1, SMT
  <1>7. CASE UnsentRow(col, o) /\ ~ServerTakes(col, o) /\ ~ClientTakes(col, o)
    BY <1>1, <1>2, <1>3, <1>7, LeftAlone, ServerAfterRow, SMT DEF WholeAt
  <1> QED BY <1>4, <1>5, <1>6, <1>7

\* What another client exchanges with the server leaves this one in step: what
\* it has not heard of is marked as new for it.
LEMMA OthersStayInStep ==
    ASSUME NEW col, ColOK(col), NEW other, ColOK(other), ServerOK(server),
           InStep(col, server), InStep(other, server)
    PROVE  InStep(other, ServerAfter(col))
  <1> DEFINE srv == ServerAfter(col)
  <1>1. /\ server.usn \in Nat /\ other.usn \in Nat /\ other.usn <= server.usn
        /\ srv.usn = server.usn + 1 /\ ServerOK(srv)
        /\ other.rows \in [Obj -> Row] /\ server.rows \in [Obj -> Row]
        /\ srv.rows \in [Obj -> Row]
    BY ServerAfterOK DEF InStep, ServerOK, ColOK, Collection
  <1>2. ASSUME NEW o \in Obj PROVE ObjectInStep(other, srv, o)
    <2> DEFINE gone == Deleted(server, o, other.usn)
               goneNow == Deleted(srv, o, other.usn)
    <2>1. gone => goneNow
      BY ServerAfterGraves DEF Deleted
    <2>2. UnsentGrave(col, o) => goneNow
      <3> SUFFICES ASSUME UnsentGrave(col, o) PROVE goneNow
        OBVIOUS
      <3>1. [obj |-> o, usn |-> server.usn] \in srv.graves
        BY ServerAfterGraves
      <3>2. server.usn >= other.usn
        BY <1>1, SMT
      <3> QED BY <3>1, <3>2 DEF Deleted
    <2>3. CASE goneNow
      BY <2>3 DEF ObjectInStep
    <2>4. CASE ~goneNow /\ ServerTakes(col, o)
      <3>1. /\ srv.rows[o] # Absent /\ srv.rows[o].usn = server.usn
        BY <2>4, ServerAfterRow
      <3>2. News(srv, o, other.usn)
        BY <1>1, <3>1, SMT DEF News, Has
      <3>3. Theirs(col, o) = server.rows[o]
        BY <2>2, <2>4 DEF Theirs
      <3>4. Age(o, server.rows[o]) <= Age(o, srv.rows[o])
        BY <2>2, <2>4, ServerGoesForward
      <3>5. /\ Age(o, other.rows[o]) \in Int /\ Age(o, server.rows[o]) \in Int
            /\ Age(o, srv.rows[o]) \in Int
        BY <1>1, AgeFacts, SMT
      <3>6. ObjectInStep(other, server, o)
        BY DEF InStep
      <3> HIDE DEF srv
      <3> QED BY <2>1, <2>4, <3>2, <3>4, <3>5, <3>6, SMT DEF ObjectInStep
    <2>5. CASE ~goneNow /\ ~ServerTakes(col, o)
      <3>1. srv.rows[o] = server.rows[o]
        BY <2>2, <2>5, ServerAfterRow DEF Theirs
      <3>2. News(srv, o, other.usn) = News(server, o, other.usn)
        BY <3>1 DEF News, Has
      <3>3. ObjectInStep(other, server, o)
        BY DEF InStep
      <3> HIDE DEF srv
      <3> QED BY <2>1, <2>5, <3>1, <3>2, <3>3 DEF ObjectInStep
    <2> QED BY <2>3, <2>4, <2>5
  <1>3. other.usn <= srv.usn
    BY <1>1, SMT
  <1> QED BY <1>2, <1>3 DEF InStep

\* Editing marks what it changes, and so stays in step.
LEMMA EditStaysInStep ==
    ASSUME NEW col, ColOK(col), ServerOK(server), NEW new, LocalEdit(col, new)
    PROVE  /\ ColOK(new)
           /\ InStep(col, server) => InStep(new, server)
  <1>1. /\ new \in Collection /\ new.usn = col.usn /\ col.usn \in Nat
        /\ new.rows \in [Obj -> Row] /\ col.rows \in [Obj -> Row]
        /\ server.rows \in [Obj -> Row] /\ server.usn \in Nat
        /\ col.graves \subseteq new.graves
    BY DEF LocalEdit, ColOK, ServerOK, Collection
  <1>2. ASSUME NEW o \in Obj
        PROVE  /\ new.rows[o].usn < new.usn
               /\ o \in Logs /\ new.rows[o] # Absent => new.rows[o].mod = 0
    <2>1. CASE new.rows[o] = col.rows[o]
      BY <1>1, <2>1 DEF ColOK, LogsOK, Has
    <2>2. CASE new.rows[o].usn = Unsent /\ (o \in Logs => new.rows[o].mod = 0)
      BY <1>1, <2>2, SMT DEF Unsent
    <2>3. CASE new.rows[o] = Absent
      BY <1>1, <2>3, SMT DEF Absent, ColOK
    <2> QED BY <2>1, <2>2, <2>3 DEF LocalEdit
  <1>3. ColOK(new)
    <2>1. 0 < new.usn
      BY <1>1 DEF ColOK
    <2> QED BY <1>1, <1>2, <2>1 DEF ColOK, LogsOK, Has
  <1>4. ASSUME NEW o \in Obj, ObjectInStep(col, server, o)
        PROVE  ObjectInStep(new, server, o)
    <2>1. UnsentGrave(col, o) => UnsentGrave(new, o)
      BY <1>1 DEF UnsentGrave
    <2>2. /\ Deleted(server, o, new.usn) = Deleted(server, o, col.usn)
          /\ News(server, o, new.usn) = News(server, o, col.usn)
      BY <1>1
    <2>3. CASE new.rows[o] = col.rows[o]
      BY <1>4, <2>1, <2>2, <2>3 DEF ObjectInStep, UnsentRow
    <2>4. CASE new.rows[o].usn = Unsent /\ new.rows[o].mod >= col.rows[o].mod
      <3>1. UnsentRow(new, o)
        BY <2>4 DEF UnsentRow
      <3>2. /\ Age(o, new.rows[o]) \in Int /\ Age(o, col.rows[o]) \in Int
            /\ Age(o, server.rows[o]) \in Int
        BY <1>1, AgeFacts, SMT
      <3>3. new.rows[o] \in Row /\ col.rows[o] \in Row
        BY <1>1
      <3>4. col.rows[o].mod <= new.rows[o].mod
        BY <2>4, <3>3, RowFacts, SMT
      <3>5. Age(o, new.rows[o]) >= Age(o, col.rows[o])
        BY <3>2, <3>3, <3>4, AgeOrder, SMT
      <3> QED BY <1>4, <2>1, <2>2, <3>1, <3>2, <3>5, SMT DEF ObjectInStep
    <2>5. CASE UnsentGrave(new, o)
      BY <2>5 DEF ObjectInStep
    <2> QED BY <2>3, <2>4, <2>5 DEF LocalEdit
  <1>5. InStep(col, server) => InStep(new, server)
    BY <1>1, <1>4 DEF InStep
  <1> QED BY <1>3, <1>5

\* A collection prepared for a full upload can be the server's, and one that is
\* the server's is in step with it.
LEMMA PreparedOK ==
    ASSUME NEW col, ColOK(col)
    PROVE  ServerOK(Prepared(col))
  <1> DEFINE new == Prepared(col)
  <1>1. /\ col \in Collection /\ col.usn \in Nat /\ new.usn = col.usn + 1
        /\ new.graves = {} /\ col.rows \in [Obj -> Row]
    BY DEF Prepared, ColOK, Collection
  <1>2. ASSUME NEW o \in Obj
        PROVE  /\ new.rows[o] \in Row /\ new.rows[o].usn \in Nat
               /\ new.rows[o].usn < new.usn
               /\ new.rows[o].mod = col.rows[o].mod
               /\ new.rows[o] # Absent => col.rows[o] # Absent
    <2>1. /\ col.rows[o] \in Row /\ col.rows[o].usn < col.usn
          /\ 0 < col.usn
      BY <1>1 DEF ColOK
    <2>2. CASE UnsentRow(col, o)
      <3>1. col.rows[o] \in [mod : Nat, usn : Nat \cup {Unsent}]
        BY <2>1, <2>2, SMT DEF UnsentRow, Row, Absent, Unsent
      <3>2. new.rows[o] = [col.rows[o] EXCEPT !.usn = 0]
        BY <2>2 DEF Prepared
      <3>3. /\ new.rows[o] \in [mod : Nat, usn : Nat \cup {Unsent}]
            /\ new.rows[o].usn = 0 /\ new.rows[o].mod = col.rows[o].mod
        BY <3>1, <3>2
      <3>4. col.rows[o] # Absent
        BY <2>2, SMT DEF UnsentRow, Absent, Unsent
      <3> QED BY <1>1, <2>1, <3>3, <3>4, SMT DEF Row
    <2>3. CASE ~UnsentRow(col, o)
      <3>1. new.rows[o] = col.rows[o]
        BY <2>3 DEF Prepared
      <3>2. col.rows[o].usn \in Nat
        BY <2>1, <2>3, RowFacts, SMT DEF UnsentRow, Unsent
      <3> QED BY <1>1, <2>1, <3>1, <3>2, SMT
    <2> QED BY <2>2, <2>3
  <1>3. new \in Collection
    <2>1. new = [rows |-> new.rows, graves |-> new.graves, usn |-> new.usn]
      BY DEF Prepared
    <2>2. new.rows = [o \in Obj |-> new.rows[o]]
      BY DEF Prepared
    <2>3. new.rows \in [Obj -> Row]
      BY <1>2, <2>2
    <2>4. new.usn \in Nat /\ new.graves \in SUBSET Grave
      BY <1>1, SMT
    <2> QED BY <2>1, <2>3, <2>4 DEF Collection
  <1>4. 0 < new.usn
    BY <1>1, SMT
  <1>5. LogsOK(new)
    BY <1>2 DEF LogsOK, Has, ColOK
  <1> HIDE DEF new
  <1>6. ColOK(new)
    BY <1>2, <1>3, <1>4, <1>5 DEF ColOK
  <1> QED BY <1>1, <1>2, <1>6 DEF ServerOK, new

LEMMA SameInStep ==
    ASSUME NEW srv, ServerOK(srv)
    PROVE  InStep(srv, srv)
  <1>1. srv.usn \in Nat /\ srv.rows \in [Obj -> Row]
    BY DEF ServerOK, ColOK, Collection
  <1>2. ASSUME NEW o \in Obj PROVE ObjectInStep(srv, srv, o)
    <2>1. Age(o, srv.rows[o]) \in Int
      BY <1>1, AgeFacts, SMT
    <2>2. ~UnsentRow(srv, o)
      BY SMT DEF ServerOK, UnsentRow, Unsent
    <2> QED BY <2>1, <2>2, SMT DEF ObjectInStep
  <1> QED BY <1>1, <1>2, SMT DEF InStep

-----------------------------------------------------------------------------
(* The steps.                                                              *)

\* What the invariant says of one client.
ClientOK(c, col, debt, srv, compat) ==
    /\ ColOK(col)
    /\ debt # Nothing => ColOK(debt)
    /\ c \in compat => InStep(col, srv)
    /\ c \in compat /\ debt # Nothing => InStep(debt, srv)

LEMMA InitIInv == Init => IInv
  <1> SUFFICES ASSUME Init PROVE IInv
    OBVIOUS
  <1>1. /\ server \in Start
        /\ file = [c \in Clients |-> server]
        /\ owed = [c \in Clients |-> Nothing]
        /\ compatible = Clients
    BY DEF Init
  <1>2. /\ server.rows \in [Obj -> {Absent, [mod |-> 0, usn |-> 0]}]
        /\ server.graves = {} /\ server.usn = 1
        /\ server = [rows |-> server.rows, graves |-> server.graves, usn |-> server.usn]
    BY <1>1 DEF Start
  <1>3. \A o \in Obj : /\ server.rows[o] \in Row /\ server.rows[o].usn = 0
                       /\ server.rows[o] # Absent => server.rows[o].mod = 0
    BY <1>2, SMT DEF Row, Absent, Unsent
  <1>4. server \in Collection
    <2>1. server.rows \in [Obj -> Row]
      BY <1>2, <1>3
    <2> QED BY <1>2, <2>1 DEF Collection
  <1>5. ColOK(server)
    BY <1>2, <1>3, <1>4, SMT DEF ColOK, LogsOK, Has
  <1>6. ServerOK(server)
    BY <1>2, <1>3, <1>5 DEF ServerOK
  <1>7. InStep(server, server)
    BY <1>6, SameInStep
  <1> QED BY <1>1, <1>4, <1>5, <1>6, <1>7 DEF IInv

\* A step that touches one client and not the server.
LEMMA OneClientStep ==
    ASSUME IInv, NEW c \in Clients,
           file' = [file EXCEPT ![c] = file'[c]],
           DOMAIN owed' = Clients, \A k \in Clients \ {c} : owed'[k] = owed[k],
           compatible' \subseteq Clients, compatible' \ {c} \subseteq compatible,
           server' = server,
           file'[c] \in Collection,
           ClientOK(c, file'[c], owed'[c], server, compatible')
    PROVE  IInv'
  <1>1. /\ ServerOK(server) /\ file \in [Clients -> Collection] /\ DOMAIN owed = Clients
    BY DEF IInv
  <1>2. ServerOK(server')
    BY <1>1
  <1>3. file' \in [Clients -> Collection]
    BY <1>1
  <1>4. ASSUME NEW k \in Clients
        PROVE  ClientOK(k, file'[k], owed'[k], server, compatible')
    <2>1. CASE k = c
      BY <2>1
    <2>2. CASE k # c
      <3>1. file'[k] = file[k] /\ owed'[k] = owed[k]
        BY <1>1, <2>2
      <3>2. k \in compatible' => k \in compatible
        BY <2>2
      <3> QED BY <3>1, <3>2 DEF IInv, ClientOK
    <2> QED BY <2>1, <2>2
  <1> QED BY <1>2, <1>3, <1>4 DEF IInv, ClientOK

LEMMA EditStep ==
    ASSUME IInv, NEW c \in Clients, Edit(c)
    PROVE  IInv'
  <1>1. PICK new \in {file'[c]} :
            LocalEdit(file[c], new) /\ file' = [file EXCEPT ![c] = new]
    BY DEF Edit
  <1>2. /\ new = file'[c] /\ owed[c] = Nothing
        /\ server' = server /\ owed' = owed
        /\ compatible' \in {compatible, compatible \ {c}}
    BY <1>1 DEF Edit
  <1>3. /\ ColOK(file[c]) /\ ServerOK(server) /\ DOMAIN owed = Clients
        /\ compatible \subseteq Clients
        /\ c \in compatible => InStep(file[c], server)
    BY DEF IInv
  <1>4. ColOK(new) /\ (InStep(file[c], server) => InStep(new, server))
    BY <1>1, <1>3, EditStaysInStep
  <1>5. ClientOK(c, file'[c], owed'[c], server, compatible')
    BY <1>2, <1>3, <1>4 DEF ClientOK
  <1>6. file'[c] \in Collection
    BY <1>2, <1>4 DEF ColOK
  <1>7. DOMAIN owed' = Clients /\ \A k \in Clients \ {c} : owed'[k] = owed[k]
    BY <1>2, <1>3
  <1>8. compatible' \subseteq Clients /\ compatible' \ {c} \subseteq compatible
    BY <1>2, <1>3
  <1>9. file' = [file EXCEPT ![c] = file'[c]]
    BY <1>1, <1>2
  <1> QED BY <1>2, <1>5, <1>6, <1>7, <1>8, <1>9, OneClientStep

LEMMA ServerCommitsStep ==
    ASSUME IInv, NEW c \in Clients, ServerCommits(c)
    PROVE  IInv'
  <1> DEFINE new == ClientAfter(file[c])
             srv == ServerAfter(file[c])
  <1>1. /\ c \in compatible /\ Whole(file[c]) /\ owed[c] = Nothing
        /\ server' = srv /\ owed' = [owed EXCEPT ![c] = new]
        /\ file' = file /\ compatible' = compatible
    BY DEF ServerCommits
  <1>2. /\ ColOK(file[c]) /\ ServerOK(server) /\ DOMAIN owed = Clients
        /\ InStep(file[c], server) /\ compatible \subseteq Clients
        /\ file \in [Clients -> Collection]
        /\ file[c].usn <= server.usn
    BY <1>1 DEF IInv, InStep
  <1>3. ServerOK(srv)
    BY <1>2, ServerAfterOK
  <1>4. ColOK(new) /\ InStep(new, srv)
    BY <1>1, <1>2, ClientAfterOK, ExchangedInStep
  <1>5. ASSUME NEW k \in Clients
        PROVE  ClientOK(k, file[k], owed'[k], srv, compatible)
    <2>1. /\ ColOK(file[k])
          /\ owed[k] # Nothing => ColOK(owed[k])
          /\ k \in compatible => InStep(file[k], server)
          /\ k \in compatible /\ owed[k] # Nothing => InStep(owed[k], server)
      BY DEF IInv
    <2>2. k \in compatible => InStep(file[k], srv)
      BY <1>2, <2>1, OthersStayInStep
    <2>3. CASE k = c
      <3>1. owed'[k] = new
        BY <1>1, <1>2, <2>3
      <3> QED BY <1>4, <2>1, <2>2, <3>1 DEF ClientOK
    <2>4. CASE k # c
      <3>1. owed'[k] = owed[k]
        BY <1>1, <1>2, <2>4
      <3>2. k \in compatible /\ owed[k] # Nothing => InStep(owed[k], srv)
        BY <1>2, <2>1, OthersStayInStep
      <3> QED BY <2>1, <2>2, <3>1, <3>2 DEF ClientOK
    <2> QED BY <2>3, <2>4
  <1>6. ServerOK(server')
    BY <1>1, <1>3
  <1>7. DOMAIN owed' = Clients
    BY <1>1, <1>2
  <1> HIDE DEF new, srv
  <1> QED BY <1>1, <1>2, <1>5, <1>6, <1>7 DEF IInv, ClientOK

LEMMA ClientStep ==
    ASSUME IInv, NEW c \in Clients, ClientCommits(c) \/ ClientDrops(c)
    PROVE  IInv'
  <1>1. /\ owed[c] # Nothing /\ server' = server /\ compatible' = compatible
        /\ owed' = [owed EXCEPT ![c] = Nothing]
        /\ \/ file' = [file EXCEPT ![c] = owed[c]]
           \/ file' = file
    BY DEF ClientCommits, ClientDrops
  <1>2. /\ ColOK(file[c]) /\ ColOK(owed[c]) /\ DOMAIN owed = Clients
        /\ file \in [Clients -> Collection] /\ compatible \subseteq Clients
        /\ c \in compatible => InStep(file[c], server)
        /\ c \in compatible => InStep(owed[c], server)
    BY <1>1 DEF IInv
  <1>3. /\ owed'[c] = Nothing
        /\ file'[c] = owed[c] \/ file'[c] = file[c]
        /\ file' = [file EXCEPT ![c] = file'[c]]
        /\ DOMAIN owed' = Clients /\ \A k \in Clients \ {c} : owed'[k] = owed[k]
    BY <1>1, <1>2
  <1>4. ColOK(file'[c]) /\ (c \in compatible => InStep(file'[c], server))
    BY <1>2, <1>3
  <1>5. ClientOK(c, file'[c], owed'[c], server, compatible')
    BY <1>1, <1>3, <1>4 DEF ClientOK
  <1>6. file'[c] \in Collection
    BY <1>4 DEF ColOK
  <1> QED BY <1>1, <1>2, <1>3, <1>5, <1>6, OneClientStep

LEMMA UploadAllStep ==
    ASSUME IInv, NEW c \in Clients, UploadAll(c)
    PROVE  IInv'
  <1> DEFINE new == Prepared(file[c])
  <1>1. /\ owed[c] = Nothing /\ owed' = owed
        /\ file' = [file EXCEPT ![c] = new]
        /\ \/ server' = new /\ compatible' = {c}
           \/ server' = server /\ compatible' = compatible \ {c}
    BY DEF UploadAll
  <1>2. /\ ColOK(file[c]) /\ ServerOK(server) /\ DOMAIN owed = Clients
        /\ file \in [Clients -> Collection] /\ compatible \subseteq Clients
    BY DEF IInv
  <1>3. ServerOK(new) /\ ColOK(new) /\ new \in Collection
    BY <1>2, PreparedOK DEF ServerOK, ColOK
  <1>4. InStep(new, new)
    BY <1>3, SameInStep
  <1>5. file'[c] = new /\ file' \in [Clients -> Collection]
    BY <1>1, <1>2, <1>3
  <1> HIDE DEF new
  <1>6. CASE server' = new /\ compatible' = {c}
    <2>1. ServerOK(server')
      BY <1>3, <1>6
    <2>2. ASSUME NEW k \in Clients
          PROVE  ClientOK(k, file'[k], owed'[k], new, {c})
      <3>1. ColOK(file'[k])
        BY <1>1, <1>2, <1>3 DEF IInv
      <3>2. owed'[k] # Nothing => k # c /\ ColOK(owed'[k])
        BY <1>1 DEF IInv
      <3> QED BY <1>4, <1>5, <3>1, <3>2 DEF ClientOK
    <2> QED BY <1>1, <1>2, <1>5, <1>6, <2>1, <2>2 DEF IInv, ClientOK
  <1>7. CASE server' = server /\ compatible' = compatible \ {c}
    <2>1. ClientOK(c, file'[c], owed'[c], server, compatible')
      BY <1>1, <1>3, <1>5, <1>7 DEF ClientOK
    <2>2. /\ file' = [file EXCEPT ![c] = file'[c]]
          /\ DOMAIN owed' = Clients /\ \A k \in Clients \ {c} : owed'[k] = owed[k]
      BY <1>1, <1>2, <1>5
    <2> QED BY <1>2, <1>3, <1>5, <1>7, <2>1, <2>2, OneClientStep
  <1> QED BY <1>1, <1>6, <1>7

LEMMA DownloadAllStep ==
    ASSUME IInv, NEW c \in Clients, DownloadAll(c)
    PROVE  IInv'
  <1>1. /\ owed[c] = Nothing /\ owed' = owed /\ server' = server
        /\ file' = [file EXCEPT ![c] = server]
        /\ compatible' = compatible \cup {c}
    BY DEF DownloadAll
  <1>2. /\ ServerOK(server) /\ ColOK(server) /\ server \in Collection
        /\ DOMAIN owed = Clients
        /\ file \in [Clients -> Collection] /\ compatible \subseteq Clients
    BY DEF IInv, ServerOK, ColOK
  <1>3. InStep(server, server)
    BY <1>2, SameInStep
  <1>4. /\ file'[c] = server
        /\ file' = [file EXCEPT ![c] = file'[c]]
        /\ DOMAIN owed' = Clients /\ \A k \in Clients \ {c} : owed'[k] = owed[k]
    BY <1>1, <1>2
  <1>5. ClientOK(c, file'[c], owed'[c], server, compatible')
    BY <1>1, <1>2, <1>3, <1>4 DEF ClientOK
  <1>6. compatible' \subseteq Clients /\ compatible' \ {c} \subseteq compatible
    BY <1>1, <1>2
  <1> QED BY <1>1, <1>2, <1>4, <1>5, <1>6, OneClientStep

LEMMA StepIInv == IInv /\ [Next]_vars => IInv'
  <1> SUFFICES ASSUME IInv, [Next]_vars PROVE IInv'
    OBVIOUS
  <1>1. CASE UNCHANGED vars
    BY <1>1 DEF vars, IInv
  <1>2. CASE Next
    <2>1. PICK c \in Clients :
             \/ Edit(c) \/ ServerCommits(c) \/ ClientCommits(c) \/ ClientDrops(c)
             \/ UploadAll(c) \/ DownloadAll(c)
      BY <1>2 DEF Next
    <2> QED BY <2>1, EditStep, ServerCommitsStep, ClientStep, UploadAllStep, DownloadAllStep
  <1> QED BY <1>1, <1>2

LEMMA IInvImplies == IInv => NothingLeftBehind
  <1> SUFFICES ASSUME IInv, NEW c \in compatible, NEW o \in Obj, Settled(file[c], o)
               PROVE  Age(o, file[c].rows[o]) = Age(o, server.rows[o])
    BY DEF NothingLeftBehind
  <1>1. InStep(file[c], server)
    BY DEF IInv
  <1>2. ObjectInStep(file[c], server, o)
    BY <1>1 DEF InStep
  <1> QED BY <1>2 DEF ObjectInStep, Settled, NewRow, NewGrave, News, Deleted

-----------------------------------------------------------------------------
(* What is deleted stays deleted.  CollectionSync lets an edit write any   *)
(* row; where an object once deleted is never written again, the exchanges *)
(* do not bring it back either.                                            *)

HasGrave(col, o) == \E g \in col.graves : g.obj = o
Buried(col, o) == HasGrave(col, o) => ~Has(col, o)

\* What the server has buried a client that still has the object is to hear
\* of, and what a client has buried the server has or is to hear of.
Heard(col, srv, o) ==
    /\ HasGrave(srv, o) /\ Has(col, o) => Deleted(srv, o, col.usn)
    /\ HasGrave(col, o) => UnsentGrave(col, o) \/ HasGrave(srv, o)

\* How one object stands with one client's file, or with what it owes.
Rests(col, srv, o, compat) == Buried(col, o) /\ (compat => Heard(col, srv, o))

Gone ==
    \A o \in Obj \ Small :
        /\ Buried(server, o)
        /\ \A c \in Clients :
            /\ Rests(file[c], server, o, c \in compatible)
            /\ owed[c] # Nothing => Rests(owed[c], server, o, c \in compatible)

\* A new object was never deleted, and a deletion takes the row along.
NeverAgain(col, new, srv) ==
    \A o \in Obj \ Small :
        /\ Has(new, o) /\ ~Has(col, o) => ~HasGrave(new, o) /\ ~HasGrave(srv, o)
        /\ HasGrave(new, o) /\ ~HasGrave(col, o) => ~Has(new, o)

\* A step of which that is true.
CleanStep(c) ==
    \/ Edit(c) /\ NeverAgain(file[c], file'[c], server)
    \/ ServerCommits(c) \/ ClientCommits(c) \/ ClientDrops(c)
    \/ UploadAll(c) \/ DownloadAll(c)

\* Neither side comes out of an exchange with an object one of them buried.
LEMMA ExchangeBuries ==
    ASSUME NEW col, ColOK(col), ServerOK(server), NEW o \in Obj,
           Buried(server, o), Rests(col, server, o, TRUE)
    PROVE  /\ HasGrave(ServerAfter(col), o) =>
                 ~Has(ServerAfter(col), o) /\ ~Has(ClientAfter(col), o)
           /\ HasGrave(ClientAfter(col), o) =>
                 ~Has(ClientAfter(col), o) /\ HasGrave(ServerAfter(col), o)
  <1> DEFINE srv == ServerAfter(col)
             new == ClientAfter(col)
  <1>1. ASSUME HasGrave(server, o) \/ HasGrave(col, o)
        PROVE  ~Has(srv, o) /\ ~Has(new, o)
    <2>1. Mine(col, o) = Absent
      BY <1>1 DEF Rests, Heard, Buried, Has, Mine, NewGrave, Deleted
    <2>2. Theirs(col, o) = Absent
      BY <1>1 DEF Rests, Heard, Buried, Has, Theirs
    <2>3. ~ServerTakes(col, o) /\ ~ClientTakes(col, o)
      BY <2>1, <2>2, SMT DEF ServerTakes, ClientTakes, Sent, Offered, Absent, Unsent
    <2>4. srv.rows[o] = Absent
      BY <2>2, <2>3 DEF ServerAfter
    <2>5. new.rows[o] = Marked(Absent)
      BY <2>1, <2>3 DEF ClientAfter
    <2>6. Marked(Absent) = Absent
      BY SMT DEF Marked, Sent, Absent, Unsent
    <2> QED BY <2>4, <2>5, <2>6 DEF Has
  <1>2. HasGrave(srv, o) => HasGrave(server, o) \/ HasGrave(col, o)
    <2>1. UnsentGrave(col, o) => HasGrave(col, o)
      BY DEF HasGrave, UnsentGrave
    <2> QED BY <2>1, ServerAfterGraves DEF HasGrave
  <1>3. HasGrave(new, o) => HasGrave(col, o) \/ NewGrave(o, col.usn)
    BY DEF HasGrave, ClientAfter
  <1>4. NewGrave(o, col.usn) => HasGrave(server, o)
    BY DEF NewGrave, HasGrave
  <1>5. HasGrave(server, o) \/ UnsentGrave(col, o) => HasGrave(srv, o)
    <2>1. [obj |-> o, usn |-> server.usn].obj = o
      OBVIOUS
    <2> QED BY <2>1, ServerAfterGraves DEF HasGrave
  <1>6. HasGrave(col, o) => UnsentGrave(col, o) \/ HasGrave(server, o)
    BY DEF Rests, Heard
  <1> HIDE DEF srv, new
  <1>7. QED
    BY <1>1, <1>2, <1>3, <1>4, <1>5, <1>6 DEF srv, new

\* Another client's exchange gives every other its news.
LEMMA OthersHear ==
    ASSUME NEW col, ColOK(col), ServerOK(server), NEW o \in Obj,
           NEW x, x.usn \in Nat, x.usn <= server.usn, Heard(x, server, o)
    PROVE  Heard(x, ServerAfter(col), o)
  <1>1. server.usn \in Nat
    BY DEF ServerOK, ColOK, Collection
  <1>2. ASSUME HasGrave(ServerAfter(col), o), Has(x, o)
        PROVE  Deleted(ServerAfter(col), o, x.usn)
    <2>1. PICK g \in ServerAfter(col).graves : g.obj = o
      BY <1>2 DEF HasGrave
    <2>2. CASE g \in server.graves
      <3>1. Deleted(server, o, x.usn)
        BY <1>2, <2>1, <2>2 DEF Heard, HasGrave
      <3> QED BY <3>1, ServerAfterGraves DEF Deleted
    <2>3. CASE g.usn = server.usn
      BY <1>1, <2>1, <2>3 DEF Deleted
    <2> QED BY <2>1, <2>2, <2>3, ServerAfterGraves
  <1>3. HasGrave(server, o) => HasGrave(ServerAfter(col), o)
    BY ServerAfterGraves DEF HasGrave
  <1> QED BY <1>2, <1>3 DEF Heard

LEMMA InitGone == Init => Gone
  <1> SUFFICES ASSUME Init PROVE Gone
    OBVIOUS
  <1>1. server.graves = {} /\ \A c \in Clients : file[c] = server /\ owed[c] = Nothing
    BY DEF Init, Start
  <1>2. \A o : ~HasGrave(server, o)
    BY <1>1 DEF HasGrave
  <1> QED BY <1>1, <1>2 DEF Gone, Rests, Heard, Buried

LEMMA EditGone ==
    ASSUME IInv, Gone, NEW c \in Clients, Edit(c), NeverAgain(file[c], file'[c], server)
    PROVE  Gone'
  <1> DEFINE new == file'[c]
  <1>1. /\ LocalEdit(file[c], new) /\ file' = [file EXCEPT ![c] = new]
        /\ owed[c] = Nothing /\ owed' = owed /\ server' = server
        /\ compatible' \subseteq compatible
    BY DEF Edit
  <1>2. \A k \in Clients \ {c} : file'[k] = file[k]
    BY <1>1 DEF IInv
  <1>3. ASSUME NEW o \in Obj \ Small PROVE Rests(new, server, o, c \in compatible)
    <2>1. Rests(file[c], server, o, c \in compatible)
      BY DEF Gone
    <2>2. /\ new.usn = file[c].usn
          /\ file[c].graves \subseteq new.graves
          /\ \A g \in new.graves \ file[c].graves : g.usn = Unsent
          /\ new.graves \subseteq Grave
      BY <1>1 DEF LocalEdit, Collection
    <2>3. Buried(new, o)
      BY <2>1 DEF NeverAgain, Rests, Buried
    <2>4. UnsentGrave(file[c], o) => UnsentGrave(new, o)
      BY <2>2 DEF UnsentGrave
    <2>5. HasGrave(new, o) => HasGrave(file[c], o) \/ UnsentGrave(new, o)
      <3> SUFFICES ASSUME HasGrave(new, o), ~HasGrave(file[c], o) PROVE UnsentGrave(new, o)
        OBVIOUS
      <3>1. PICK g \in new.graves : g.obj = o
        BY DEF HasGrave
      <3>2. g.usn = Unsent /\ g = [obj |-> g.obj, usn |-> g.usn]
        BY <2>2, <3>1 DEF HasGrave, Grave
      <3> QED BY <3>1, <3>2 DEF UnsentGrave
    <2>6. Heard(file[c], server, o) => Heard(new, server, o)
      BY <2>2, <2>4, <2>5 DEF Heard, NeverAgain
    <2> QED BY <2>1, <2>3, <2>6 DEF Rests
  <1> HIDE DEF new
  <1>4. ASSUME NEW o \in Obj \ Small, NEW k \in Clients
        PROVE  /\ Rests(file'[k], server, o, k \in compatible')
               /\ owed[k] # Nothing => Rests(owed[k], server, o, k \in compatible')
    <2>1. k \in compatible' => k \in compatible
      BY <1>1
    <2>2. CASE k = c
      BY <1>1, <1>3, <2>1, <2>2 DEF Rests, new
    <2>3. CASE k # c
      BY <1>2, <2>1, <2>3 DEF Gone, Rests
    <2> QED BY <2>2, <2>3
  <1> QED BY <1>1, <1>4 DEF Gone

LEMMA ServerCommitsGone ==
    ASSUME IInv, Gone, NEW c \in Clients, ServerCommits(c)
    PROVE  Gone'
  <1> DEFINE new == ClientAfter(file[c])
             srv == ServerAfter(file[c])
  <1>1. /\ c \in compatible /\ server' = srv /\ owed' = [owed EXCEPT ![c] = new]
        /\ file' = file /\ compatible' = compatible
    BY DEF ServerCommits
  <1>2. /\ ColOK(file[c]) /\ ServerOK(server) /\ DOMAIN owed = Clients
    BY <1>1 DEF IInv
  <1>3. ASSUME NEW o \in Obj \ Small
        PROVE  Buried(srv, o) /\ Rests(new, srv, o, TRUE)
    <2>1. Buried(server, o) /\ Rests(file[c], server, o, TRUE)
      BY <1>1 DEF Gone
    <2>2. /\ HasGrave(srv, o) => ~Has(srv, o) /\ ~Has(new, o)
          /\ HasGrave(new, o) => ~Has(new, o) /\ HasGrave(srv, o)
      BY <1>2, <2>1, ExchangeBuries
    <2> HIDE DEF new, srv
    <2> QED BY <2>2 DEF Buried, Rests, Heard
  <1>4. ASSUME NEW o \in Obj \ Small, NEW x, ColOK(x), x.usn <= server.usn, Heard(x, server, o)
        PROVE  Heard(x, srv, o)
    <2>1. x.usn \in Nat
      BY <1>4 DEF ColOK, Collection
    <2> QED BY <1>2, <1>4, <2>1, OthersHear
  <1> HIDE DEF new, srv
  <1>5. ASSUME NEW o \in Obj \ Small, NEW k \in Clients
        PROVE  /\ Rests(file[k], srv, o, k \in compatible)
               /\ owed'[k] # Nothing => Rests(owed'[k], srv, o, k \in compatible)
    <2>1. /\ Rests(file[k], server, o, k \in compatible)
          /\ owed[k] # Nothing => Rests(owed[k], server, o, k \in compatible)
      BY DEF Gone
    <2>2. /\ ColOK(file[k]) /\ (owed[k] # Nothing => ColOK(owed[k]))
          /\ k \in compatible => file[k].usn <= server.usn
          /\ k \in compatible /\ owed[k] # Nothing => owed[k].usn <= server.usn
      BY DEF IInv, InStep
    <2>3. Rests(file[k], srv, o, k \in compatible)
      BY <1>4, <2>1, <2>2 DEF Rests
    <2>4. CASE k = c
      <3>1. owed'[k] = new
        BY <1>1, <1>2, <2>4
      <3> QED BY <1>3, <2>3, <3>1 DEF Rests
    <2>5. CASE k # c
      <3>1. owed'[k] = owed[k]
        BY <1>1, <1>2, <2>5
      <3> QED BY <1>4, <2>1, <2>2, <2>3, <3>1 DEF Rests
    <2> QED BY <2>4, <2>5
  <1> QED BY <1>1, <1>3, <1>5 DEF Gone

LEMMA ClientGone ==
    ASSUME IInv, Gone, NEW c \in Clients, ClientCommits(c) \/ ClientDrops(c)
    PROVE  Gone'
  <1>1. /\ owed[c] # Nothing /\ server' = server /\ compatible' = compatible
        /\ owed' = [owed EXCEPT ![c] = Nothing]
        /\ \/ file' = [file EXCEPT ![c] = owed[c]]
           \/ file' = file
    BY DEF ClientCommits, ClientDrops
  <1>2. ASSUME NEW k \in Clients
        PROVE  /\ file'[k] \in {file[k], owed[k]} /\ (owed[k] = Nothing => file'[k] = file[k])
               /\ owed'[k] \in {owed[k], Nothing}
    BY <1>1 DEF IInv
  <1> QED BY <1>1, <1>2 DEF Gone

LEMMA UploadGone ==
    ASSUME IInv, Gone, NEW c \in Clients, UploadAll(c)
    PROVE  Gone'
  <1> DEFINE new == Prepared(file[c])
  <1>1. /\ owed[c] = Nothing /\ owed' = owed
        /\ file' = [file EXCEPT ![c] = new]
        /\ \/ server' = new /\ compatible' = {c}
           \/ server' = server /\ compatible' = compatible \ {c}
    BY DEF UploadAll
  <1>2. \A o : ~HasGrave(new, o)
    BY DEF Prepared, HasGrave
  <1>3. \A k \in Clients : file'[k] = IF k = c THEN new ELSE file[k]
    BY <1>1 DEF IInv
  <1> HIDE DEF new
  <1> QED BY <1>1, <1>2, <1>3 DEF Gone, Rests, Heard, Buried

LEMMA DownloadGone ==
    ASSUME IInv, Gone, NEW c \in Clients, DownloadAll(c)
    PROVE  Gone'
  <1>1. /\ owed[c] = Nothing /\ owed' = owed /\ server' = server
        /\ file' = [file EXCEPT ![c] = server]
        /\ compatible' = compatible \cup {c}
    BY DEF DownloadAll
  <1>2. \A k \in Clients : file'[k] = IF k = c THEN server ELSE file[k]
    BY <1>1 DEF IInv
  <1>3. ASSUME NEW o \in Obj \ Small, NEW k \in Clients
        PROVE  /\ Buried(server, o)
               /\ Rests(file'[k], server, o, k \in compatible')
               /\ owed[k] # Nothing => Rests(owed[k], server, o, k \in compatible')
    BY <1>1, <1>2 DEF Gone, Rests, Heard, Buried
  <1> QED BY <1>1, <1>3 DEF Gone

LEMMA CleanStepGone ==
    ASSUME IInv, Gone, NEW c \in Clients, CleanStep(c)
    PROVE  Gone'
  BY EditGone, ServerCommitsGone, ClientGone, UploadGone, DownloadGone DEF CleanStep

-----------------------------------------------------------------------------
(* Which objects there are: those that were written or buried once.        *)

\* Rows and graves of col are of objects in B, its graves of objects in S.
Names(col, B, S) ==
    \A o \in Obj :
        /\ HasGrave(col, o) => o \in S
        /\ o \notin Small /\ (Has(col, o) \/ HasGrave(col, o)) => o \in B

AllNamed(srv, files, debts, B, S) ==
    /\ Names(srv, B, S)
    /\ \A c \in Clients :
        /\ Names(files[c], B, S)
        /\ debts[c] # Nothing => Names(debts[c], B, S)

LEMMA ExchangeNames ==
    ASSUME NEW col, ColOK(col), ServerOK(server), NEW B, NEW S,
           Names(col, B, S), Names(server, B, S)
    PROVE  Names(ServerAfter(col), B, S) /\ Names(ClientAfter(col), B, S)
  <1> DEFINE srv == ServerAfter(col)
             new == ClientAfter(col)
  <1>1. ASSUME NEW o \in Obj
        PROVE  /\ Has(srv, o) => Has(server, o) \/ Has(col, o)
               /\ Has(new, o) => Has(server, o) \/ Has(col, o)
    <2>1. /\ Mine(col, o) = Absent \/ Mine(col, o) = col.rows[o]
          /\ Theirs(col, o) = Absent \/ Theirs(col, o) = server.rows[o]
      BY DEF Mine, Theirs
    <2>2. /\ ServerTakes(col, o) => Mine(col, o) # Absent
          /\ ClientTakes(col, o) => Theirs(col, o) # Absent
      BY SMT DEF ServerTakes, ClientTakes, Sent, Offered, Absent, Unsent
    <2>3. Marked(Absent) = Absent
      BY SMT DEF Marked, Sent, Absent, Unsent
    <2>4. /\ srv.rows[o] = IF ServerTakes(col, o) THEN Marked(Mine(col, o)) ELSE Theirs(col, o)
          /\ ~ClientTakes(col, o) => new.rows[o] = Marked(Mine(col, o))
      BY DEF ServerAfter, ClientAfter
    <2> HIDE DEF srv, new
    <2> QED BY <2>1, <2>2, <2>3, <2>4 DEF Has
  <1>2. ASSUME NEW o \in Obj
        PROVE  /\ HasGrave(srv, o) => HasGrave(server, o) \/ HasGrave(col, o)
               /\ HasGrave(new, o) => HasGrave(server, o) \/ HasGrave(col, o)
    <2>1. UnsentGrave(col, o) => HasGrave(col, o)
      BY DEF HasGrave, UnsentGrave
    <2>2. NewGrave(o, col.usn) => HasGrave(server, o)
      BY DEF NewGrave, HasGrave
    <2>3. HasGrave(srv, o) => HasGrave(server, o) \/ HasGrave(col, o)
      BY <2>1, ServerAfterGraves DEF HasGrave
    <2>4. HasGrave(new, o) => HasGrave(col, o) \/ NewGrave(o, col.usn)
      BY DEF HasGrave, ClientAfter
    <2> QED BY <2>2, <2>3, <2>4
  <1> HIDE DEF srv, new
  <1>3. Names(srv, B, S) /\ Names(new, B, S)
    BY <1>1, <1>2 DEF Names
  <1> QED BY <1>3 DEF srv, new

LEMMA PreparedNames ==
    ASSUME NEW col, NEW B, NEW S, Names(col, B, S)
    PROVE  Names(Prepared(col), B, S)
  <1> DEFINE new == Prepared(col)
  <1>1. ASSUME NEW o \in Obj PROVE ~HasGrave(new, o) /\ (Has(new, o) => Has(col, o))
    <2>1. ~HasGrave(new, o)
      BY DEF Prepared, HasGrave
    <2>2. new.rows[o] # Absent => col.rows[o] # Absent
      BY SMT DEF Prepared, UnsentRow, Absent, Unsent
    <2> QED BY <2>1, <2>2 DEF Has
  <1> HIDE DEF new
  <1>2. Names(new, B, S)
    BY <1>1 DEF Names
  <1> QED BY <1>2 DEF new

\* No step but an edit brings up another object.
LEMMA StepNames ==
    ASSUME IInv, NEW B, NEW S, AllNamed(server, file, owed, B, S), NEW c \in Clients,
           \/ Edit(c) /\ Names(file'[c], B, S)
           \/ ServerCommits(c) \/ ClientCommits(c) \/ ClientDrops(c)
           \/ UploadAll(c) \/ DownloadAll(c)
    PROVE  AllNamed(server', file', owed', B, S)
  <1>1. /\ ColOK(file[c]) /\ ServerOK(server) /\ DOMAIN owed = Clients
        /\ file \in [Clients -> Collection]
        /\ Names(server, B, S) /\ Names(file[c], B, S)
    BY DEF IInv, AllNamed
  <1>2. CASE Edit(c) /\ Names(file'[c], B, S)
    <2>1. /\ server' = server /\ owed' = owed
          /\ \A k \in Clients \ {c} : file'[k] = file[k]
      BY <1>1, <1>2 DEF Edit
    <2> QED BY <1>2, <2>1 DEF AllNamed
  <1>3. CASE ServerCommits(c)
    <2>1. /\ server' = ServerAfter(file[c]) /\ file' = file
          /\ owed'[c] = ClientAfter(file[c])
          /\ \A k \in Clients \ {c} : owed'[k] = owed[k]
      BY <1>1, <1>3 DEF ServerCommits
    <2>2. Names(server', B, S) /\ Names(owed'[c], B, S)
      BY <1>1, <2>1, ExchangeNames
    <2> QED BY <2>1, <2>2 DEF AllNamed
  <1>4. CASE ClientCommits(c) \/ ClientDrops(c)
    <2>1. /\ owed[c] # Nothing /\ server' = server
          /\ \A k \in Clients :
               /\ file'[k] = file[k] \/ (owed[k] # Nothing /\ file'[k] = owed[k])
               /\ owed'[k] \in {owed[k], Nothing}
      BY <1>1, <1>4 DEF ClientCommits, ClientDrops
    <2> QED BY <2>1 DEF AllNamed
  <1>5. CASE UploadAll(c)
    <2>1. /\ file'[c] = Prepared(file[c]) /\ owed' = owed
          /\ server' = server \/ server' = Prepared(file[c])
          /\ \A k \in Clients \ {c} : file'[k] = file[k]
      BY <1>1, <1>5 DEF UploadAll
    <2>2. Names(Prepared(file[c]), B, S)
      BY <1>1, PreparedNames
    <2> QED BY <2>1, <2>2 DEF AllNamed
  <1>6. CASE DownloadAll(c)
    <2>1. /\ file'[c] = server /\ owed' = owed /\ server' = server
          /\ \A k \in Clients \ {c} : file'[k] = file[k]
      BY <1>1, <1>6 DEF DownloadAll
    <2> QED BY <2>1 DEF AllNamed
  <1> QED BY <1>2, <1>3, <1>4, <1>5, <1>6

-----------------------------------------------------------------------------
(* No commit takes an object back.                                         *)

Onward(old, new) ==
    \A o \in Obj : Has(old, o) =>
        Age(o, old.rows[o]) <= Age(o, new.rows[o]) \/ HasGrave(new, o)

OwedOnward == \A c \in Clients : owed[c] # Nothing => Onward(file[c], owed[c])

LEMMA ExchangeOnward ==
    ASSUME NEW col, ColOK(col), ServerOK(server), InStep(col, server)
    PROVE  Onward(server, ServerAfter(col)) /\ Onward(col, ClientAfter(col))
  <1> DEFINE srv == ServerAfter(col)
             new == ClientAfter(col)
  <1>1. ASSUME NEW o \in Obj
        PROVE  Age(o, server.rows[o]) <= Age(o, srv.rows[o]) \/ HasGrave(srv, o)
    <2>1. CASE UnsentGrave(col, o)
      <3>1. [obj |-> o, usn |-> server.usn].obj = o
        OBVIOUS
      <3> QED BY <2>1, <3>1, ServerAfterGraves DEF HasGrave
    <2> QED BY <2>1, ServerGoesForward
  <1>2. ASSUME NEW o \in Obj
        PROVE  Age(o, col.rows[o]) <= Age(o, new.rows[o]) \/ HasGrave(new, o)
    <2>1. CASE UnsentGrave(col, o)
      <3>1. [obj |-> o, usn |-> server.usn] \in new.graves
        <4>1. \E g \in col.graves : g.obj = o /\ g.usn = Unsent
          BY <2>1 DEF UnsentGrave
        <4> QED BY <4>1 DEF ClientAfter
      <3> HIDE DEF new
      <3> QED BY <3>1 DEF HasGrave
    <2>2. CASE Deleted(server, o, col.usn)
      <3>1. NewGrave(o, col.usn)
        BY <2>2 DEF Deleted, NewGrave
      <3>2. [obj |-> o, usn |-> col.usn] \in new.graves
        BY <3>1 DEF ClientAfter
      <3> HIDE DEF new
      <3> QED BY <3>2 DEF HasGrave
    <2> QED BY <2>1, <2>2, ClientGoesForward
  <1> QED BY <1>1, <1>2 DEF Onward

LEMMA StepOnward ==
    ASSUME IInv, OwedOnward, [Next]_vars
    PROVE  OwedOnward'
  <1>1. CASE UNCHANGED vars
    BY <1>1 DEF vars, OwedOnward
  <1>2. CASE Next
    <2>1. PICK c \in Clients :
             \/ Edit(c) \/ ServerCommits(c) \/ ClientCommits(c) \/ ClientDrops(c)
             \/ UploadAll(c) \/ DownloadAll(c)
      BY <1>2 DEF Next
    <2>2. /\ ColOK(file[c]) /\ ServerOK(server) /\ DOMAIN owed = Clients
          /\ file \in [Clients -> Collection]
          /\ c \in compatible => InStep(file[c], server)
      BY DEF IInv
    <2>3. CASE ServerCommits(c)
      <3>1. /\ file' = file /\ c \in compatible
            /\ owed'[c] = ClientAfter(file[c])
            /\ \A k \in Clients \ {c} : owed'[k] = owed[k]
        BY <2>2, <2>3 DEF ServerCommits
      <3>2. Onward(file[c], ClientAfter(file[c]))
        BY <2>2, <3>1, ExchangeOnward
      <3> QED BY <3>1, <3>2 DEF OwedOnward
    <2>4. CASE ClientCommits(c) \/ ClientDrops(c)
      <3>1. owed'[c] = Nothing /\ \A k \in Clients \ {c} : owed'[k] = owed[k] /\ file'[k] = file[k]
        BY <2>2, <2>4 DEF ClientCommits, ClientDrops
      <3> QED BY <3>1 DEF OwedOnward
    <2>5. CASE Edit(c) \/ UploadAll(c) \/ DownloadAll(c)
      <3>1. owed[c] = Nothing /\ owed' = owed /\ \A k \in Clients \ {c} : file'[k] = file[k]
        BY <2>2, <2>5 DEF Edit, UploadAll, DownloadAll
      <3> QED BY <3>1 DEF OwedOnward
    <2> QED BY <2>1, <2>3, <2>4, <2>5
  <1> QED BY <1>1, <1>2

LEMMA InitOnward == Init => OwedOnward
  BY DEF Init, OwedOnward

-----------------------------------------------------------------------------
\* What neither side has marked for the other is the same on both, and a note
\* at least on both or on neither, for any number of clients and objects,
\* whatever is edited, deleted, lost or replaced by a full sync (usnLim,
\* newerRows, remove).
THEOREM NothingLeftBehindHolds == Spec => []NothingLeftBehind
  <1>1. Init => IInv
    BY InitIInv
  <1>2. IInv /\ [Next]_vars => IInv'
    BY StepIInv
  <1>3. IInv => NothingLeftBehind
    BY IInvImplies
  <1> QED BY <1>1, <1>2, <1>3, PTL DEF Spec

=============================================================================

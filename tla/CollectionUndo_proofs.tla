------------------------ MODULE CollectionUndo_proofs ------------------------
(***************************************************************************)
(* Theorems about CollectionUndo, for all decks, cards, options, bounds    *)
(* and sizes of the undo list.                                             *)
(*                                                                         *)
(* An entry of the list is a copy of rows made at some earlier time, and   *)
(* undoing writes it over a table that has gone on.  What is proved of the *)
(* rows therefore has to hold of a row by itself, whatever the day and the *)
(* other rows: then it holds of every copy as well, and of a table put     *)
(* together of old copies and new rows.                                    *)
(***************************************************************************)
EXTENDS CollectionUndo, SchedV2Cards_proofs

-----------------------------------------------------------------------------
(* The undo list as a sequence.                                            *)

Listed(s) == s \in Seq({s[i] : i \in DOMAIN s})

LEMMA EmptyListed == Listed(<<>>)
BY DEF Listed

\* Adding an entry keeps every entry in its place.
LEMMA AppendListed ==
    ASSUME NEW s, Listed(s), NEW e
    PROVE  /\ Listed(Append(s, e))
           /\ Len(s) \in Nat /\ DOMAIN s = 1..Len(s)
           /\ Len(Append(s, e)) = Len(s) + 1
           /\ DOMAIN Append(s, e) = 1..(Len(s) + 1)
           /\ \A i \in 1..Len(s) : Append(s, e)[i] = s[i]
           /\ Append(s, e)[Len(s) + 1] = e
<1> DEFINE E == {s[i] : i \in DOMAIN s} \cup {e}
           a == Append(s, e)
<1>1. s \in Seq(E)
  BY DEF Listed
<1> HIDE DEF E
<1>2. a \in Seq(E) /\ Len(a) = Len(s) + 1
  BY <1>1 DEF E
<1>3. /\ Len(s) \in Nat /\ DOMAIN s = 1..Len(s)
      /\ DOMAIN a = 1..(Len(s) + 1)
      /\ \A i \in 1..Len(s) : a[i] = s[i]
      /\ a[Len(s) + 1] = e
  BY <1>1 DEF E
<1>4. a \in Seq({a[i] : i \in DOMAIN a})
  BY <1>2, <1>3
<1> QED BY <1>2, <1>3, <1>4 DEF Listed

\* Dropping the oldest entry moves the others up by one.
LEMMA TailListed ==
    ASSUME NEW s, Listed(s), s # <<>>
    PROVE  /\ Listed(Tail(s))
           /\ Len(s) \in Nat /\ Len(s) > 0 /\ DOMAIN s = 1..Len(s)
           /\ Len(Tail(s)) = Len(s) - 1
           /\ DOMAIN Tail(s) = 1..(Len(s) - 1)
           /\ \A i \in 1..(Len(s) - 1) : Tail(s)[i] = s[i + 1]
<1> DEFINE E == {s[i] : i \in DOMAIN s}
           a == Tail(s)
<1>1. s \in Seq(E)
  BY DEF Listed
<1> HIDE DEF E
<1>2. a \in Seq(E) /\ Len(a) = Len(s) - 1 /\ Len(s) \in Nat /\ Len(s) > 0
  BY <1>1
<1>3. /\ DOMAIN s = 1..Len(s)
      /\ DOMAIN a = 1..(Len(s) - 1)
      /\ \A i \in 1..(Len(s) - 1) : a[i] = s[i + 1]
  BY <1>1, <1>2
<1> HIDE DEF a
<1>4. a = [i \in 1..(Len(s) - 1) |-> a[i]]
  BY <1>2, <1>3
<1>5. a \in Seq({a[i] : i \in DOMAIN a})
  BY <1>2, <1>3, <1>4
<1> QED BY <1>2, <1>3, <1>5 DEF Listed, a

\* Popping the last entry.
LEMMA FrontListed ==
    ASSUME NEW s, Listed(s), s # <<>>
    PROVE  /\ Listed(Front(s))
           /\ Len(s) \in Nat /\ Len(s) > 0 /\ DOMAIN s = 1..Len(s)
           /\ Len(Front(s)) = Len(s) - 1
           /\ DOMAIN Front(s) = 1..(Len(s) - 1)
           /\ \A i \in 1..(Len(s) - 1) : Front(s)[i] = s[i]
           /\ Last(s) = s[Len(s)]
<1> DEFINE E == {s[i] : i \in DOMAIN s}
           a == Front(s)
<1>1. s \in Seq(E)
  BY DEF Listed
<1> HIDE DEF E
<1>2. Len(s) \in Nat /\ Len(s) > 0 /\ DOMAIN s = 1..Len(s)
  BY <1>1
<1>3. a = SubSeq(s, 1, Len(s) - 1)
  BY DEF Front
<1>4. /\ a = [i \in 1..(Len(s) - 1) |-> s[i]]
  BY <1>1, <1>2, <1>3
<1> HIDE DEF a
<1>5. /\ a \in Seq({a[i] : i \in DOMAIN a}) /\ Len(a) = Len(s) - 1
      /\ DOMAIN a = 1..(Len(s) - 1)
      /\ \A i \in 1..(Len(s) - 1) : a[i] = s[i]
  BY <1>2, <1>4
<1>6. Last(s) = s[Len(s)]
  BY DEF Last
<1> QED BY <1>2, <1>5, <1>6 DEF Listed, a

-----------------------------------------------------------------------------
(* What an entry says.                                                     *)


LEMMA ReviewEntryFields ==
    ASSUME NEW c \in Cards
    PROVE  LET e == ReviewEntry(c)
           IN  e.type = "review" /\ e.card = c /\ e.rows = [k \in {c} |-> rows[k]]
BY DEF ReviewEntry, ReviewOn

-----------------------------------------------------------------------------
(* The review log.                                                         *)

\* Undoing the entry deletes a log entry of the card.
ReviewOf(e, c) == e.type = "review" /\ e.card = c /\ ~Previewing(e.rows[c])

ReviewsIn(s, c) == {i \in DOMAIN s : ReviewOf(s[i], c)}

LEMMA ReviewsToUndoIn == \A c : ReviewsToUndo(c) = ReviewsIn(undos, c)
BY DEF ReviewsToUndo, ReviewsIn, ReviewOf

LEMMA ReviewsFinite ==
    ASSUME NEW s, Listed(s), NEW c
    PROVE  IsFiniteSet(ReviewsIn(s, c)) /\ Cardinality(ReviewsIn(s, c)) \in Nat
<1>1. DOMAIN s = 1..Len(s) /\ Len(s) \in Nat
  BY AppendListed
<1>2. IsFiniteSet(1..Len(s))
  BY <1>1, FS_Interval
<1>3. ReviewsIn(s, c) \in SUBSET (1..Len(s))
  BY <1>1 DEF ReviewsIn
<1>4. IsFiniteSet(ReviewsIn(s, c))
  BY <1>2, <1>3, FS_Subset
<1> QED BY <1>4, FS_CardinalityType

LEMMA ReviewsAppended ==
    ASSUME NEW s, Listed(s), NEW e, NEW c
    PROVE  Cardinality(ReviewsIn(Append(s, e), c)) =
              IF ReviewOf(e, c) THEN Cardinality(ReviewsIn(s, c)) + 1
                                ELSE Cardinality(ReviewsIn(s, c))
<1>1. ReviewsIn(Append(s, e), c) =
         IF ReviewOf(e, c) THEN ReviewsIn(s, c) \cup {Len(s) + 1}
                           ELSE ReviewsIn(s, c)
  BY AppendListed DEF ReviewsIn
<1>2. Len(s) + 1 \notin ReviewsIn(s, c)
  BY AppendListed DEF ReviewsIn
<1> QED BY <1>1, <1>2, ReviewsFinite, FS_AddElement

LEMMA ReviewsPopped ==
    ASSUME NEW s, Listed(s), s # <<>>, NEW c
    PROVE  Cardinality(ReviewsIn(Front(s), c)) =
              IF ReviewOf(Last(s), c) THEN Cardinality(ReviewsIn(s, c)) - 1
                                      ELSE Cardinality(ReviewsIn(s, c))
<1>1. ReviewsIn(Front(s), c) = ReviewsIn(s, c) \ {Len(s)}
  <2>1. /\ Len(s) \in Nat /\ DOMAIN s = 1..Len(s)
        /\ DOMAIN Front(s) = 1..(Len(s) - 1)
        /\ \A i \in 1..(Len(s) - 1) : Front(s)[i] = s[i]
    BY FrontListed
  <2>2. 1..(Len(s) - 1) = (1..Len(s)) \ {Len(s)}
    BY <2>1
  <2> QED BY <2>1, <2>2 DEF ReviewsIn
<1>2. Len(s) \in ReviewsIn(s, c) <=> ReviewOf(Last(s), c)
  BY FrontListed DEF ReviewsIn
<1> QED BY <1>1, <1>2, ReviewsFinite, FS_RemoveElement

\* Dropping the oldest entry leaves no more reviews to undo than there were.
LEMMA ReviewsDropped ==
    ASSUME NEW s, Listed(s), s # <<>>, NEW c
    PROVE  Cardinality(ReviewsIn(Tail(s), c)) <= Cardinality(ReviewsIn(s, c))
<1> DEFINE T == ReviewsIn(Tail(s), c)
           R == ReviewsIn(s, c)
           f == [i \in T |-> i + 1]
<1>1. \A i \in T : i \in Int /\ i + 1 \in R
  BY TailListed DEF ReviewsIn
<1>2. IsFiniteSet(R)
  BY ReviewsFinite
<1> HIDE DEF T, R
<1>3. f \in Injection(T, R)
  BY <1>1 DEF Injection, IsInjective
<1> HIDE DEF f
<1>4. Cardinality(T) <= Cardinality(R)
  BY <1>2, <1>3, FS_Injection
<1> QED BY <1>4 DEF T, R

\* markUndo: at most the marked entry comes to the reviews that can be undone.
LEMMA MarkUndoReviews ==
    ASSUME Listed(undos), NEW e, MarkUndo(e), NEW c
    PROVE  /\ Listed(undos')
           /\ Cardinality(ReviewsIn(undos', c)) <=
                 IF ReviewOf(e, c) THEN Cardinality(ReviewsIn(undos, c)) + 1
                                   ELSE Cardinality(ReviewsIn(undos, c))
<1> DEFINE marked == Append(undos, e)
<1>1. Listed(marked) /\ Len(marked) = Len(undos) + 1 /\ Len(undos) \in Nat
  BY AppendListed
<1>2. Cardinality(ReviewsIn(marked, c)) =
         IF ReviewOf(e, c) THEN Cardinality(ReviewsIn(undos, c)) + 1
                           ELSE Cardinality(ReviewsIn(undos, c))
  BY ReviewsAppended
<1>3. undos' = marked \/ undos' = Tail(marked)
  BY DEF MarkUndo
<1>4. marked # <<>>
  BY <1>1
<1> HIDE DEF marked
<1>5. /\ Listed(Tail(marked))
      /\ Cardinality(ReviewsIn(Tail(marked), c)) <= Cardinality(ReviewsIn(marked, c))
      /\ Cardinality(ReviewsIn(marked, c)) \in Nat
      /\ Cardinality(ReviewsIn(undos, c)) \in Nat
      /\ Cardinality(ReviewsIn(Tail(marked), c)) \in Nat
  BY <1>1, <1>4, TailListed, ReviewsDropped, ReviewsFinite
<1>6. Cardinality(ReviewsIn(undos', c)) <= Cardinality(ReviewsIn(marked, c))
  <2> DEFINE n == Cardinality(ReviewsIn(marked, c))
  <2>1. n \in Nat
    BY <1>5
  <2>2. CASE undos' = marked
    <3>1. Cardinality(ReviewsIn(undos', c)) = n
      BY <2>2, Zenon
    <3> QED BY <2>1, <3>1
  <2>3. CASE undos' = Tail(marked)
    <3>1. Cardinality(ReviewsIn(undos', c)) = Cardinality(ReviewsIn(Tail(marked), c))
      BY <2>3, Zenon
    <3> QED BY <1>5, <3>1
  <2> QED BY <1>3, <2>2, <2>3
<1>7. Listed(undos')
  BY <1>1, <1>3, <1>5
<1> QED BY <1>2, <1>6, <1>7

LogInv ==
    /\ Listed(undos)
    /\ log \in [Cards -> 0..MaxLog]
    /\ UndoableReviewHasLog

\* How many reviews of a card can be undone.
Undoable(c) == Cardinality(ReviewsIn(undos, c))

LEMMA LogInvOfCounts ==
    ASSUME Listed(undos), log \in [Cards -> 0..MaxLog],
           \A c \in Cards : log[c] >= Undoable(c)
    PROVE  LogInv
BY ReviewsToUndoIn DEF LogInv, UndoableReviewHasLog, Undoable

LEMMA CountsOfLogInv ==
    ASSUME LogInv, NEW c \in Cards
    PROVE  log[c] \in 0..MaxLog /\ log[c] >= Undoable(c) /\ Undoable(c) \in Nat
BY ReviewsToUndoIn, ReviewsFinite DEF LogInv, UndoableReviewHasLog, Undoable

\* An entry that is no review asks nothing of the log.
LEMMA OtherEntryLog ==
    ASSUME LogInv, NEW e, MarkUndo(e), e.type # "review", UNCHANGED log
    PROVE  LogInv'
<1>1. ASSUME NEW c \in Cards PROVE log'[c] >= Undoable(c)'
  <2>1. Undoable(c)' <= Undoable(c) /\ Listed(undos)'
    BY MarkUndoReviews DEF LogInv, Undoable, ReviewOf
  <2>2. Undoable(c)' \in Nat
    BY <2>1, ReviewsFinite DEF Undoable
  <2>3. log[c] \in 0..MaxLog /\ log[c] >= Undoable(c) /\ Undoable(c) \in Nat
    BY CountsOfLogInv
  <2> QED BY <2>1, <2>2, <2>3, UndoAssumption
<1>2. Listed(undos')
  BY MarkUndoReviews DEF LogInv
<1>3. log' \in [Cards -> 0..MaxLog]
  BY DEF LogInv
<1>4. \A c \in Cards : ReviewsToUndo(c)' = ReviewsIn(undos', c)
  BY DEF ReviewsToUndo, ReviewsIn, ReviewOf
<1> QED BY <1>1, <1>2, <1>3, <1>4 DEF LogInv, UndoableReviewHasLog, Undoable

\* answerCard writes the log entry of the review it marks.
LEMMA AnswerCardLog ==
    ASSUME LogInv, NEW c \in Cards, NEW ease \in Ease, AnswerCard(c, ease)
    PROVE  LogInv'
<1> DEFINE e == ReviewEntry(c)
<1>1. e.type = "review" /\ e.card = c /\ e.rows[c] = rows[c]
  <2>1. e.type = "review" /\ e.card = c /\ e.rows = [k \in {c} |-> rows[k]]
    BY ReviewEntryFields
  <2> HIDE DEF e
  <2> QED BY <2>1
<1>2. MarkUndo(e) /\ log'[c] <= MaxLog
      /\ log' = IF Previewing(rows[c]) THEN log ELSE [log EXCEPT ![c] = @ + 1]
  BY DEF AnswerCard
<1> HIDE DEF e
<1>3. ASSUME NEW k \in Cards
      PROVE  log'[k] \in 0..MaxLog /\ log'[k] >= Undoable(k)'
  <2>1. /\ Listed(undos')
        /\ Undoable(k)' <= IF ReviewOf(e, k) THEN Undoable(k) + 1 ELSE Undoable(k)
    BY <1>2, MarkUndoReviews DEF LogInv, Undoable
  <2>2. Undoable(k)' \in Nat
    BY <2>1, ReviewsFinite DEF Undoable
  <2>3. log[k] \in 0..MaxLog /\ log[k] >= Undoable(k) /\ Undoable(k) \in Nat
    BY CountsOfLogInv
  <2>4. CASE k = c /\ ~Previewing(rows[c])
    <3>1. ReviewOf(e, k)
      BY <1>1, <2>4 DEF ReviewOf
    <3>2. log'[k] = log[k] + 1
      BY <1>2, <2>4 DEF LogInv
    <3> QED BY <1>2, <2>1, <2>2, <2>3, <2>4, <3>1, <3>2, UndoAssumption
  <2>5. CASE ~(k = c /\ ~Previewing(rows[c]))
    <3>1. ~ReviewOf(e, k)
      BY <1>1, <2>5 DEF ReviewOf
    <3>2. log'[k] = log[k]
      BY <1>2, <2>5 DEF LogInv
    <3> QED BY <2>1, <2>2, <2>3, <3>1, <3>2, UndoAssumption
  <2> QED BY <2>4, <2>5
<1>4. Listed(undos')
  BY <1>2, MarkUndoReviews DEF LogInv
<1>5. log' \in [Cards -> 0..MaxLog]
  <2>1. log' = [k \in Cards |-> log'[k]]
    BY <1>2 DEF LogInv
  <2> QED BY <1>3, <2>1
<1>6. \A k \in Cards : ReviewsToUndo(k)' = ReviewsIn(undos', k)
  BY DEF ReviewsToUndo, ReviewsIn, ReviewOf
<1> QED BY <1>3, <1>4, <1>5, <1>6 DEF LogInv, UndoableReviewHasLog, Undoable

\* undoReview deletes a log entry exactly when it pops a review that wrote one.
LEMMA UndoLog ==
    ASSUME LogInv, Undo
    PROVE  LogInv'
<1> DEFINE e == Last(undos)
<1>1. undos # <<>> /\ undos' = Front(undos)
  BY DEF Undo
<1>2. \/ e.type = "review" /\ log' = LogDeleted(e.card, e.rows[e.card])
      \/ e.type # "review" /\ log' = log
  BY DEF Undo, UndoReview, UndoDismiss, UndoSuspendCardMulti, UndoEditCards,
         UndoChangeDeckMulti
<1>3. ASSUME NEW k
      PROVE  Undoable(k)' = IF ReviewOf(e, k) THEN Undoable(k) - 1 ELSE Undoable(k)
  BY <1>1, ReviewsPopped DEF LogInv, Undoable
<1> HIDE DEF e
<1>4. Listed(undos')
  BY <1>1, FrontListed DEF LogInv
<1>5. ASSUME NEW k \in Cards
      PROVE  log'[k] \in 0..MaxLog /\ log'[k] >= Undoable(k)'
  <2>1. log[k] \in 0..MaxLog /\ log[k] >= Undoable(k) /\ Undoable(k) \in Nat
    BY CountsOfLogInv
  <2>2. CASE ReviewOf(e, k)
    <3>1. log' = [log EXCEPT ![k] = MaxOf(0, log[k] - 1)]
      BY <1>2, <2>2 DEF ReviewOf, LogDeleted
    <3>2. log'[k] = MaxOf(0, log[k] - 1)
      BY <3>1 DEF LogInv
    <3> QED BY <1>3, <2>1, <2>2, <3>2, UndoAssumption DEF MaxOf
  <2>3. CASE ~ReviewOf(e, k)
    <3>1. log'[k] = log[k]
      <4>1. CASE e.type # "review"
        BY <1>2, <4>1
      <4>2. CASE e.type = "review" /\ e.card = k
        BY <1>2, <2>3, <4>2 DEF ReviewOf, LogDeleted
      <4>3. CASE e.type = "review" /\ e.card # k
        BY <1>2, <4>3 DEF LogInv, LogDeleted
      <4> QED BY <4>1, <4>2, <4>3
    <3> QED BY <1>3, <2>1, <2>3, <3>1
  <2> QED BY <2>2, <2>3
<1>6. log' \in [Cards -> 0..MaxLog]
  <2>1. log' = [k \in Cards |-> log'[k]]
    BY <1>2 DEF LogInv, LogDeleted
  <2> QED BY <1>5, <2>1
<1>7. \A k \in Cards : ReviewsToUndo(k)' = ReviewsIn(undos', k)
  BY DEF ReviewsToUndo, ReviewsIn, ReviewOf
<1> QED BY <1>4, <1>5, <1>6, <1>7 DEF LogInv, UndoableReviewHasLog, Undoable

LEMMA StepLogInv ==
    ASSUME LogInv, [UndoNext]_undoVars
    PROVE  LogInv'
<1>1. ASSUME NEW type, NEW card, NEW S, NEW table, type # "review",
             MarkUndo(Entry(type, card, S, table)), UNCHANGED log
      PROVE  LogInv'
  <2> DEFINE e == Entry(type, card, S, table)
  <2>1. e.type # "review" /\ MarkUndo(e)
    BY <1>1 DEF Entry
  <2> HIDE DEF e
  <2> QED BY <1>1, <2>1, OtherEntryLog
<1>2. ASSUME NEW c \in Cards, Dismiss(c) PROVE LogInv'
  BY <1>1, <1>2 DEF Dismiss
<1>3. ASSUME NEW c \in Cards, DismissFails(c) PROVE LogInv'
  BY <1>1, <1>3 DEF DismissFails
<1>4. ASSUME NEW S, SuspendCardMulti(S) PROVE LogInv'
  BY <1>1, <1>4 DEF SuspendCardMulti
<1>5. ASSUME UNCHANGED <<undos, log>> PROVE LogInv'
  BY <1>5 DEF LogInv, UndoableReviewHasLog, ReviewsToUndo
<1>6. ASSUME NEW S, EditCards(S) PROVE LogInv'
  BY <1>1, <1>5, <1>6 DEF EditCards
<1>7. ASSUME NEW S, NEW d, ChangeDeckMulti(S, d) PROVE LogInv'
  BY <1>1, <1>7 DEF ChangeDeckMulti
<1>8. CASE ClearUndo
  <2>1. undos' = <<>> /\ log' = log
    BY <1>8 DEF ClearUndo
  <2>2. \A c \in Cards : ReviewsToUndo(c)' = {}
    BY <2>1 DEF ReviewsToUndo
  <2>3. Listed(undos') /\ log' \in [Cards -> 0..MaxLog]
    BY <2>1, EmptyListed DEF LogInv
  <2>4. ASSUME NEW c \in Cards PROVE log'[c] >= Cardinality(ReviewsToUndo(c)')
    BY <2>2, <2>3, FS_EmptySet, UndoAssumption
  <2> QED BY <2>3, <2>4 DEF LogInv, UndoableReviewHasLog
<1>9. CASE WithoutUndo
  BY <1>5, <1>9 DEF WithoutUndo
<1>10. CASE RolloverCounts
  BY <1>5, <1>10 DEF RolloverCounts
<1>11. CASE UNCHANGED undoVars
  BY <1>5, <1>11 DEF undoVars
<1> QED BY <1>2, <1>3, <1>4, <1>6, <1>7, <1>8, <1>9, <1>10, <1>11,
           AnswerCardLog, UndoLog DEF UndoNext

LEMMA InitLogInv == UndoInit => LogInv
<1> SUFFICES ASSUME UndoInit PROVE LogInv
  OBVIOUS
<1>1. undos = <<>> /\ log = [c \in Cards |-> 0]
  BY DEF UndoInit
<1>2. \A c \in Cards : ReviewsToUndo(c) = {}
  BY <1>1 DEF ReviewsToUndo
<1> QED BY <1>1, <1>2, EmptyListed, FS_EmptySet, UndoAssumption
        DEF LogInv, UndoableReviewHasLog

LEMMA AlwaysLogInv == UndoSpec => []LogInv
<1>1. UndoInit => LogInv
  BY InitLogInv
<1>2. LogInv /\ [UndoNext]_undoVars => LogInv'
  BY StepLogInv
<1> QED BY <1>1, <1>2, PTL DEF UndoSpec

\* SchedV2.undoReview deletes the last log entry of the card: that is the entry
\* of the review undone, for there are always as many as reviews to undo.
THEOREM UndoableReviewHasLogHolds == UndoSpec => []UndoableReviewHasLog
<1>1. LogInv => UndoableReviewHasLog
  BY DEF LogInv
<1> QED BY <1>1, AlwaysLogInv, PTL

-----------------------------------------------------------------------------
(* What every row and every copy of a row keeps, whatever is undone.       *)

\* A row of a filtered deck remembers its home, and only a row that remembers
\* one has an original due date.  That it remembers none outside filtered decks
\* is lost where the undo of a move puts the deck back alone.
Housed(r) ==
    /\ r \in Rows
    /\ r.did \in FilteredDecks => InDynamicDeck(r)
    /\ ~InDynamicDeck(r) => r.odue = 0
    /\ ~UndoableMoves /\ InDynamicDeck(r) => r.did \in FilteredDecks
    /\ FilteredDecks = {} => ~InDynamicDeck(r)

\* Row s is what one statement, or one answer, makes of row r on day t.
Writes(r, s, t) ==
    \/ s = r
    \/ \E ease \in Ease : s \in AnswerRows(r, ease, t)
    \/ InDynamicDeck(r) /\ s = EmptyDynRow(r)
    \/ \E f \in FilteredDecks : Gatherable(r) /\ s = MoveToDynRow(r, f)
    \/ s = HoldRow(r, QueueSuspended) \/ s = HoldRow(r, QueueManuallyBuried)
    \/ SiblingToBury(r, t) /\ s = HoldRow(r, QueueSiblingBuried)
    \/ s = RestoreRow(r)
    \/ r.queue = QueueSiblingBuried /\ s = RestoreRowByType(r)
    \/ \E pos \in 1..MaxPos : s = ForgetRow(r, pos) \/ s = PlaceRow(r, pos)
    \/ \E d \in 1..MaxOf(MaxPos, r.due) : r.queue = QueueNew /\ s = [r EXCEPT !.due = d]
    \/ \E days \in ReschedDays : s = ReschedRow(r, days, t)
    \/ \E d \in StdDecks : s = [RemFromDynRow(r) EXCEPT !.did = d]
    \/ \E d \in StdDecks : UndoableMoves /\ s = [r EXCEPT !.did = d]

\* What the entries of the list are made of.
EntryOK(e) ==
    /\ DOMAIN e.rows \subseteq Cards
    /\ \A c \in DOMAIN e.rows : Housed(e.rows[c])
    /\ e.type \in {"review", "dismiss"} => e.card \in DOMAIN e.rows
    /\ e.type = "move" =>
          UndoableMoves /\ \A c \in DOMAIN e.rows : ~InDynamicDeck(e.rows[c])

UndoIInv ==
    /\ today \in FirstDay..MaxDay
    /\ rows \in [Cards -> Rows]
    /\ \A c \in Cards : Housed(rows[c])
    /\ Listed(undos)
    /\ Len(undos) <= UndoSizeMax
    /\ \A i \in DOMAIN undos : EntryOK(undos[i])
    /\ counts \in [StdDecks -> [new: Int, rev: Int]]

-----------------------------------------------------------------------------
(* One write keeps a row housed.                                           *)

USE DEF TypeNew, TypeLrn, TypeRev, TypeRelearn, QueueNew, QueueLrn, QueueRev,
        QueueDayLearn, QueuePreview, QueueSuspended, QueueSiblingBuried,
        QueueManuallyBuried, LearningTypes, BuriedQueues

\* Writing columns other than the decks keeps a row housed; an original due
\* date may only be dropped.
LEMMA HousedPlanned ==
    ASSUME NEW r, Housed(r), NEW s \in Rows, s.did = r.did, s.odid = r.odid,
           s.odue = r.odue \/ s.odue = 0
    PROVE  Housed(s)
BY DEF Housed, InDynamicDeck

\* A row of an ordinary deck that remembers nothing.
LEMMA HousedAtHome ==
    ASSUME NEW s \in Rows, s.did \in StdDecks, ~InDynamicDeck(s), s.odue = 0
    PROVE  Housed(s)
BY DecksAssumption DEF Housed

LEMMA HousedEmptied ==
    ASSUME NEW r, Housed(r), InDynamicDeck(r)
    PROVE  LET e == EmptyDynRow(r)
           IN  /\ Housed(e) /\ ~InDynamicDeck(e) /\ e.did \in StdDecks /\ e.odue = 0
<1> DEFINE e == EmptyDynRow(r)
<1>1. /\ e.did = r.odid /\ e.odid = NoDeck /\ e.odue = 0
      /\ e = [r EXCEPT !.did = r.odid,
                       !.queue = RestoreQueueWhenEmptying(r),
                       !.due = IF r.odue > 0 THEN r.odue ELSE r.due,
                       !.odue = 0, !.odid = NoDeck]
  BY DEF EmptyDynRow, Housed, Rows
<1>2. RestoreQueueWhenEmptying(r) \in QueueManuallyBuried..QueuePreview
  BY DEF RestoreQueueWhenEmptying, RestoreQueue, Housed, Rows
<1>3. (IF r.odue > 0 THEN r.odue ELSE r.due) \in Dues
  BY DEF Housed, Rows
<1>4. r.odid \in StdDecks /\ 0 \in Dues /\ r \in Rows
  BY BoundsAssumption DEF Housed, Rows, InDynamicDeck, Dues
<1> HIDE DEF e
<1>5. e \in Rows
  BY <1>1, <1>2, <1>3, <1>4 DEF Rows
<1>6. e.did \in StdDecks /\ ~InDynamicDeck(e)
  BY <1>1, <1>4 DEF InDynamicDeck
<1>7. Housed(e)
  BY <1>1, <1>5, <1>6, HousedAtHome
<1> QED BY <1>1, <1>6, <1>7 DEF e

\* A row taken out of the filtered deck it may be in.
LEMMA HousedRemoved ==
    ASSUME NEW r, Housed(r)
    PROVE  LET m == RemFromDynRow(r)
           IN  Housed(m) /\ ~InDynamicDeck(m) /\ m.did \in StdDecks /\ m.odue = 0
<1>1. CASE InDynamicDeck(r)
  BY <1>1, HousedEmptied DEF RemFromDynRow
<1>2. CASE ~InDynamicDeck(r)
  BY <1>2 DEF RemFromDynRow, Housed, Rows
<1> QED BY <1>1, <1>2

LEMMA HousedMoved ==
    ASSUME NEW r, Housed(r), Gatherable(r), NEW f \in FilteredDecks
    PROVE  Housed(MoveToDynRow(r, f))
<1> DEFINE e == MoveToDynRow(r, f)
           due == IF r.due <= 0 THEN r.due ELSE FilteredDue
           queue == IF f \in PreviewDecks THEN QueueRev ELSE r.queue
<1>1. r \in Rows /\ r.did \in StdDecks
  BY DEF Gatherable, Housed, Rows, InDynamicDeck
<1>2. due \in Dues /\ queue \in QueueManuallyBuried..QueuePreview
  BY <1>1, BoundsAssumption DEF Rows, Dues, FilteredDue
<1>3. e = [r EXCEPT !.odid = r.did, !.odue = r.due, !.did = f,
                    !.due = due, !.queue = queue]
  BY DEF MoveToDynRow
<1> HIDE DEF e, due, queue
<1>4. e \in Rows /\ e.did = f /\ e.odid = r.did
  BY <1>1, <1>2, <1>3 DEF Rows
<1>5. Housed(e)
  BY <1>1, <1>4, DecksAssumption DEF Housed, InDynamicDeck
<1> QED BY <1>5 DEF e

LEMMA HousedHeld ==
    ASSUME NEW r, Housed(r), NEW q \in QueueManuallyBuried..QueuePreview
    PROVE  Housed(HoldRow(r, q))
<1>1. HoldRow(r, q) \in Rows /\ HoldRow(r, q).did = r.did
      /\ HoldRow(r, q).odid = r.odid /\ HoldRow(r, q).odue = r.odue
  BY DEF HoldRow, Housed, Rows
<1> QED BY <1>1, HousedPlanned

LEMMA HousedRestored ==
    ASSUME NEW r, Housed(r)
    PROVE  Housed(RestoreRow(r)) /\ Housed(RestoreRowByType(r))
<1>1. /\ RestoreQueue(r) \in QueueManuallyBuried..QueuePreview
      /\ r.type \in QueueManuallyBuried..QueuePreview
  BY DEF RestoreQueue, Housed, Rows
<1>2. /\ RestoreRow(r) = HoldRow(r, RestoreQueue(r))
      /\ RestoreRowByType(r) = HoldRow(r, r.type)
  BY DEF RestoreRow, RestoreRowByType, HoldRow
<1> QED BY <1>1, <1>2, HousedHeld

\* Forgetting and rescheduling.
LEMMA HousedByHand ==
    ASSUME NEW r, Housed(r), NEW y \in TypeNew..TypeRelearn,
           NEW q \in QueueManuallyBuried..QueuePreview,
           NEW i \in 0..IvlCeiling, NEW d \in Dues
    PROVE  Housed([RemFromDynRow(r) EXCEPT !.type = y, !.queue = q, !.ivl = i,
                                           !.due = d, !.odue = 0])
<1> DEFINE m == RemFromDynRow(r)
           s == [m EXCEPT !.type = y, !.queue = q, !.ivl = i, !.due = d, !.odue = 0]
<1>1. m \in Rows /\ ~InDynamicDeck(m) /\ m.did \in StdDecks
  BY HousedRemoved DEF Housed
<1>2. 0 \in Dues
  BY BoundsAssumption DEF Dues
<1> HIDE DEF m
<1>3. s \in Rows
  BY <1>1, <1>2, PlannedRow, Zenon
<1>4. s.did = m.did /\ s.odid = m.odid /\ s.odue = 0
  BY <1>1 DEF Rows
<1> HIDE DEF s
<1>5. Housed(s)
  BY <1>1, <1>3, <1>4, HousedAtHome DEF InDynamicDeck
<1> QED BY <1>5 DEF s, m

LEMMA HousedForgotten ==
    ASSUME NEW r, Housed(r), NEW pos \in 1..MaxPos
    PROVE  Housed(ForgetRow(r, pos))
<1>1. /\ pos \in Dues /\ 0 \in 0..IvlCeiling /\ TypeNew \in TypeNew..TypeRelearn
      /\ QueueNew \in QueueManuallyBuried..QueuePreview
  BY BoundsAssumption DEF Dues
<1> QED BY <1>1, HousedByHand, Zenon DEF ForgetRow

LEMMA HousedRescheduled ==
    ASSUME NEW r, Housed(r), NEW days \in ReschedDays, NEW t \in FirstDay..MaxDay
    PROVE  Housed(ReschedRow(r, days, t))
<1>1. /\ t + days \in Dues /\ MaxOf(1, days) \in 0..IvlCeiling
      /\ TypeRev \in TypeNew..TypeRelearn
      /\ QueueRev \in QueueManuallyBuried..QueuePreview
  BY BoundsAssumption, CardsAssumption DEF Dues, MaxOf
<1> QED BY <1>1, HousedByHand, Zenon DEF ReschedRow

LEMMA HousedPlaced ==
    ASSUME NEW r, Housed(r), NEW d \in Dues
    PROVE  Housed([r EXCEPT !.due = d]) /\ Housed(PlaceRow(r, d))
<1> DEFINE s == [r EXCEPT !.due = d]
<1>1. s \in Rows /\ s.did = r.did /\ s.odid = r.odid /\ s.odue = r.odue
  BY DEF Housed, Rows
<1> HIDE DEF s
<1>2. Housed(s)
  BY <1>1, HousedPlanned
<1> QED BY <1>2 DEF s, PlaceRow

\* Changing the deck, out of a filtered deck first or not.
LEMMA HousedElsewhere ==
    ASSUME NEW r, Housed(r), NEW d \in StdDecks
    PROVE  /\ Housed([RemFromDynRow(r) EXCEPT !.did = d])
           /\ UndoableMoves => Housed([r EXCEPT !.did = d])
<1>1. ASSUME NEW m, Housed(m), UndoableMoves \/ ~InDynamicDeck(m)
      PROVE  Housed([m EXCEPT !.did = d])
  <2> DEFINE s == [m EXCEPT !.did = d]
  <2>1. s \in Rows /\ s.did = d /\ s.odid = m.odid /\ s.odue = m.odue
    BY <1>1 DEF Housed, Rows
  <2> HIDE DEF s
  <2>2. Housed(s)
    BY <1>1, <2>1, DecksAssumption DEF Housed, InDynamicDeck
  <2> QED BY <2>2 DEF s
<1> QED BY <1>1, HousedRemoved

-----------------------------------------------------------------------------
(* An answer keeps a row housed.                                           *)

LEMMA HousedTakenOut ==
    ASSUME NEW r, Housed(r)
    PROVE  Housed(RemoveFromFiltered(r))
<1>1. CASE InDynamicDeck(r)
  <2> DEFINE s == [r EXCEPT !.did = r.odid, !.odue = 0, !.odid = NoDeck]
  <2>1. r \in Rows /\ r.odid \in StdDecks /\ 0 \in Dues
    BY <1>1, BoundsAssumption DEF Housed, Rows, InDynamicDeck, Dues
  <2>2. s \in Rows /\ s.did = r.odid /\ s.odid = NoDeck /\ s.odue = 0
    BY <2>1 DEF Rows
  <2> HIDE DEF s
  <2>3. Housed(s)
    BY <2>1, <2>2, HousedAtHome DEF InDynamicDeck
  <2>4. RemoveFromFiltered(r) = s
    BY <1>1 DEF RemoveFromFiltered, s
  <2> QED BY <2>3, <2>4
<1>2. CASE ~InDynamicDeck(r)
  BY <1>2 DEF RemoveFromFiltered
<1> QED BY <1>1, <1>2

LEMMA HousedUndue ==
    ASSUME NEW r, Housed(r)
    PROVE  Housed(DropOriginalDue(r))
<1> DEFINE s == [r EXCEPT !.odue = 0]
<1>1. s \in Rows /\ s.did = r.did /\ s.odid = r.odid /\ s.odue = 0
  BY BoundsAssumption DEF Housed, Rows, Dues
<1> HIDE DEF s
<1>2. Housed(s)
  BY <1>1, HousedPlanned
<1> QED BY <1>2 DEF s, DropOriginalDue

LEMMA HousedStep ==
    ASSUME NEW r, Housed(r), NEW t \in FirstDay..MaxDay, NEW a \in RescheduleLrn(r, t)
    PROVE  Housed(a)
<1>1. PICK d \in Dues, q \in {QueueLrn, QueueDayLearn} :
         a = [r EXCEPT !.due = d, !.queue = q]
  <2>1. Seconds(t) \in Dues
    BY BoundsAssumption, CardsAssumption DEF Seconds, Dues
  <2>2. \A ahead \in 1..MaxAhead : t + ahead \in Dues
    BY BoundsAssumption, CardsAssumption DEF Dues
  <2> QED BY <2>1, <2>2 DEF RescheduleLrn
<1>2. a \in Rows /\ a.did = r.did /\ a.odid = r.odid /\ a.odue = r.odue
  <2>1. r \in Rows /\ q \in QueueManuallyBuried..QueuePreview
    BY DEF Housed
  <2> QED BY <1>1, <2>1 DEF Rows
<1> QED BY <1>2, HousedPlanned

LEMMA HousedFirstStep ==
    ASSUME NEW r, Housed(r), NEW t \in FirstDay..MaxDay, NEW a \in MoveToFirstStep(r, t)
    PROVE  Housed(a)
<1> DEFINE e == IF r.type = TypeRelearn
                THEN [r EXCEPT !.left = RelearnSteps, !.ivl = LapseIvl(r)]
                ELSE [r EXCEPT !.left = LearnSteps]
<1>1. r \in Rows /\ LapseIvl(r) \in 0..IvlCeiling
  BY LapseIvlBounds, BoundsAssumption DEF Housed
<1>2. e \in Rows
  BY <1>1, OptionsAssumption DEF Rows
<1>3. e.did = r.did /\ e.odid = r.odid /\ e.odue = r.odue
  BY <1>1 DEF Rows
<1>4. a \in RescheduleLrn(e, t)
  BY DEF MoveToFirstStep
<1> HIDE DEF e
<1> QED BY <1>2, <1>3, <1>4, HousedPlanned, HousedStep

\* A row given an interval and made a review card, or left one.
LEMMA HousedReview ==
    ASSUME NEW r, Housed(r), NEW i \in 0..IvlCeiling, NEW t \in FirstDay..MaxDay
    PROVE  /\ Housed(RemoveFromFiltered(AsReview(r, i, t)))
           /\ Housed(RemoveFromFiltered([r EXCEPT !.ivl = i, !.due = t + i]))
<1> DEFINE s == AsReview(r, i, t)
           u == [r EXCEPT !.ivl = i, !.due = t + i]
<1>1. /\ t + i \in Dues /\ r \in Rows
      /\ QueueRev \in QueueManuallyBuried..QueuePreview
      /\ TypeRev \in TypeNew..TypeRelearn
  BY BoundsAssumption, CardsAssumption DEF Dues, Housed
<1>2. s \in Rows /\ s.did = r.did /\ s.odid = r.odid /\ s.odue = r.odue
  BY <1>1 DEF AsReview, Rows
<1>3. u \in Rows /\ u.did = r.did /\ u.odid = r.odid /\ u.odue = r.odue
  BY <1>1 DEF Rows
<1> HIDE DEF s, u
<1>4. Housed(s) /\ Housed(u)
  BY <1>2, <1>3, HousedPlanned
<1>5. Housed(RemoveFromFiltered(s)) /\ Housed(RemoveFromFiltered(u))
  BY <1>4, HousedTakenOut
<1> QED BY <1>5 DEF s, u

LEMMA HousedGraduated ==
    ASSUME NEW r, Housed(r), NEW bonus, NEW t \in FirstDay..MaxDay,
           NEW a \in RescheduleAsRev(r, bonus, t)
    PROVE  Housed(a)
<1>1. GraduatingIvls(r, bonus) \subseteq 0..IvlCeiling
  <2>1. GradIvls \subseteq 0..IvlCeiling
    BY OptionsAssumption, BoundsAssumption
  <2> QED BY <2>1 DEF GraduatingIvls
<1>2. PICK ivl \in GraduatingIvls(r, bonus) : a = RemoveFromFiltered(AsReview(r, ivl, t))
  BY DEF RescheduleAsRev
<1> QED BY <1>1, <1>2, HousedReview

LEMMA HousedLrn ==
    ASSUME NEW r, Housed(r), NEW ease \in Ease, NEW t \in FirstDay..MaxDay,
           NEW a \in AnswerLrn(r, ease, t)
    PROVE  Housed(a)
<1>1. \/ \E bonus \in 0..1 : a \in RescheduleAsRev(r, bonus, t)
      \/ a \in RescheduleLrn(r, t)
      \/ ~(r.left - 1 <= 0) /\ a \in RescheduleLrn([r EXCEPT !.left = @ - 1], t)
      \/ a \in MoveToFirstStep(r, t)
  BY DEF AnswerLrn, Ease
<1>2. CASE ~(r.left - 1 <= 0) /\ a \in RescheduleLrn([r EXCEPT !.left = @ - 1], t)
  <2> DEFINE e == [r EXCEPT !.left = @ - 1]
  <2>1. r.left - 1 \in Nat /\ r \in Rows
    BY <1>2 DEF Housed, Rows
  <2>2. e \in Rows /\ e.did = r.did /\ e.odid = r.odid /\ e.odue = r.odue
    BY <2>1 DEF Rows
  <2>3. a \in RescheduleLrn(e, t)
    BY <1>2
  <2> HIDE DEF e
  <2> QED BY <2>2, <2>3, HousedPlanned, HousedStep
<1> QED BY <1>1, <1>2, HousedGraduated, HousedStep, HousedFirstStep

LEMMA HousedLapse ==
    ASSUME NEW r, Housed(r), NEW t \in FirstDay..MaxDay, NEW a \in RescheduleLapse(r, t)
    PROVE  Housed(a)
<1> DEFINE lapsed == [r EXCEPT !.lapses = @ + 1]
           relearn == [lapsed EXCEPT !.type = TypeRelearn]
           lapse == [lapsed EXCEPT !.ivl = LapseIvl(r)]
<1>1. r \in Rows /\ LapseIvl(r) \in 0..IvlCeiling
  BY LapseIvlBounds, BoundsAssumption DEF Housed
<1>2. lapsed \in Rows /\ lapsed.did = r.did /\ lapsed.odid = r.odid /\ lapsed.odue = r.odue
  BY <1>1 DEF Rows
<1>3. \/ a \in MoveToFirstStep(relearn, t)
      \/ \E g \in RescheduleAsRev(lapse, 0, t) : a = g \/ a = HoldRow(g, QueueSuspended)
  BY DEF RescheduleLapse
<1> HIDE DEF lapsed
<1>4. relearn \in Rows /\ relearn.did = r.did /\ relearn.odid = r.odid
      /\ relearn.odue = r.odue
  BY <1>2 DEF Rows
<1>5. lapse \in Rows /\ lapse.did = r.did /\ lapse.odid = r.odid /\ lapse.odue = r.odue
  BY <1>1, <1>2 DEF Rows
<1> HIDE DEF relearn, lapse
<1>6. Housed(relearn) /\ Housed(lapse)
  BY <1>4, <1>5, HousedPlanned
<1>7. QueueSuspended \in QueueManuallyBuried..QueuePreview
  OBVIOUS
<1> QED BY <1>3, <1>6, <1>7, HousedFirstStep, HousedGraduated, HousedHeld

LEMMA HousedRev ==
    ASSUME NEW r, Housed(r), NEW t \in FirstDay..MaxDay, NEW a \in RescheduleRev(r, t)
    PROVE  Housed(a)
<1>1. r.ivl \in Nat
  BY BoundsAssumption DEF Housed, Rows
<1>2. ASSUME NEW prev \in Nat
      PROVE  ConstrainedIvls(prev) \subseteq 0..IvlCeiling
  BY OptionsAssumption, BoundsAssumption DEF ConstrainedIvls, MinOf
<1>3. PICK prev \in {0, r.ivl} : \E ivl \in ConstrainedIvls(prev) :
         a = RemoveFromFiltered([r EXCEPT !.ivl = ivl, !.due = t + ivl])
  BY DEF RescheduleRev
<1>4. PICK ivl \in 0..IvlCeiling :
         a = RemoveFromFiltered([r EXCEPT !.ivl = ivl, !.due = t + ivl])
  BY <1>1, <1>2, <1>3
<1> QED BY <1>4, HousedReview

LEMMA HousedPreview ==
    ASSUME NEW r, Housed(r), NEW t \in FirstDay..MaxDay, NEW ease,
           NEW a \in AnswerPreview(r, ease, t)
    PROVE  Housed(a)
<1>1. ASSUME NEW d \in Dues, NEW q \in QueueManuallyBuried..QueuePreview
      PROVE  Housed([r EXCEPT !.due = d, !.queue = q])
  <2> DEFINE s == [r EXCEPT !.due = d, !.queue = q]
  <2>1. s \in Rows /\ s.did = r.did /\ s.odid = r.odid /\ s.odue = r.odue
    BY DEF Housed, Rows
  <2> HIDE DEF s
  <2>2. Housed(s)
    BY <2>1, HousedPlanned
  <2> QED BY <2>2 DEF s
<1>2. CASE a = [r EXCEPT !.queue = QueuePreview, !.due = Seconds(t)]
  <2>1. Seconds(t) \in Dues /\ QueuePreview \in QueueManuallyBuried..QueuePreview
    BY BoundsAssumption, CardsAssumption DEF Seconds, Dues
  <2>2. a = [r EXCEPT !.due = Seconds(t), !.queue = QueuePreview]
    BY <1>2 DEF Housed, Rows
  <2> QED BY <1>1, <2>1, <2>2
<1>3. CASE a = RemoveFromFiltered(RestorePreviewRow(r))
  <2> DEFINE q == IF r.type \in LearningTypes
                  THEN IF r.odue > SecBase THEN QueueLrn ELSE QueueDayLearn
                  ELSE r.type
  <2>1. q \in QueueManuallyBuried..QueuePreview /\ r.odue \in Dues
    BY DEF Housed, Rows
  <2>2. RestorePreviewRow(r) = [r EXCEPT !.due = r.odue, !.queue = q]
    BY DEF RestorePreviewRow
  <2> HIDE DEF q
  <2> QED BY <1>1, <1>3, <2>1, <2>2, HousedTakenOut
<1> QED BY <1>2, <1>3 DEF AnswerPreview

LEMMA HousedAnswered ==
    ASSUME NEW r, Housed(r), NEW ease \in Ease, NEW t \in FirstDay..MaxDay,
           NEW a \in AnswerRows(r, ease, t)
    PROVE  Housed(a)
<1>1. CASE Previewing(r)
  BY <1>1, HousedPreview DEF AnswerRows
<1>2. CASE ~Previewing(r)
  <2> DEFINE q == IF r.queue = QueueNew THEN StartLearning(r) ELSE r
  <2>1. PICK b \in AnswerQueue(r, ease, t) : a = DropOriginalDue(b)
    BY <1>2 DEF AnswerRows
  <2>2. b \in AnswerLrn(q, ease, t) \/ b \in AnswerRev(q, ease, t)
    BY DEF AnswerQueue
  <2>3. Housed(StartLearning(r))
    <3> DEFINE s == StartLearning(r)
    <3>1. r \in Rows /\ QueueLrn \in QueueManuallyBuried..QueuePreview
          /\ TypeLrn \in TypeNew..TypeRelearn
      BY DEF Housed
    <3>2. s \in Rows /\ s.did = r.did /\ s.odid = r.odid /\ s.odue = r.odue
      BY <3>1, OptionsAssumption DEF StartLearning, Rows
    <3> HIDE DEF s
    <3>3. Housed(s)
      BY <3>2, HousedPlanned
    <3> QED BY <3>3 DEF s
  <2>4. Housed(q)
    BY <2>3
  <2> HIDE DEF q
  <2>5. Housed(b)
    BY <2>2, <2>4, HousedLrn, HousedLapse, HousedRev DEF AnswerRev
  <2> QED BY <2>1, <2>5, HousedUndue
<1> QED BY <1>1, <1>2

\* No write unhouses a row.
LEMMA HousedWritten ==
    ASSUME NEW r, Housed(r), NEW t \in FirstDay..MaxDay, NEW s, Writes(r, s, t)
    PROVE  Housed(s)
<1>1. ASSUME NEW ease \in Ease, s \in AnswerRows(r, ease, t) PROVE Housed(s)
  BY <1>1, HousedAnswered
<1>2. ASSUME InDynamicDeck(r), s = EmptyDynRow(r) PROVE Housed(s)
  BY <1>2, HousedEmptied
<1>3. ASSUME NEW f \in FilteredDecks, Gatherable(r), s = MoveToDynRow(r, f)
      PROVE  Housed(s)
  BY <1>3, HousedMoved
<1>4. ASSUME NEW q \in QueueManuallyBuried..QueuePreview, s = HoldRow(r, q)
      PROVE  Housed(s)
  BY <1>4, HousedHeld
<1>5. ASSUME NEW pos \in 1..MaxPos, s = ForgetRow(r, pos) \/ s = PlaceRow(r, pos)
      PROVE  Housed(s)
  <2>1. pos \in Dues
    BY BoundsAssumption DEF Dues
  <2> QED BY <1>5, <2>1, HousedForgotten, HousedPlaced
<1>6. ASSUME NEW d \in 1..MaxOf(MaxPos, r.due), s = [r EXCEPT !.due = d]
      PROVE  Housed(s)
  <2>1. r.due \in Dues
    BY DEF Housed, Rows
  <2>2. d \in Dues
    BY <2>1, BoundsAssumption DEF Dues, MaxOf
  <2> QED BY <1>6, <2>2, HousedPlaced
<1>7. ASSUME NEW days \in ReschedDays, s = ReschedRow(r, days, t) PROVE Housed(s)
  BY <1>7, HousedRescheduled
<1>8. ASSUME NEW d \in StdDecks,
             \/ s = [RemFromDynRow(r) EXCEPT !.did = d]
             \/ UndoableMoves /\ s = [r EXCEPT !.did = d]
      PROVE  Housed(s)
  BY <1>8, HousedElsewhere
<1>9. CASE s = RestoreRow(r) \/ s = RestoreRowByType(r)
  BY <1>9, HousedRestored
<1>10. CASE s = HoldRow(r, QueueSuspended) \/ s = HoldRow(r, QueueManuallyBuried)
            \/ s = HoldRow(r, QueueSiblingBuried)
  <2>1. {QueueSuspended, QueueManuallyBuried, QueueSiblingBuried}
           \subseteq QueueManuallyBuried..QueuePreview
    OBVIOUS
  <2> QED BY <1>4, <1>10, <2>1
<1> QED BY <1>1, <1>2, <1>3, <1>5, <1>6, <1>7, <1>8, <1>9, <1>10 DEF Writes

-----------------------------------------------------------------------------
(* What a step does to the table and to the list.                          *)

\* Each row of the new table is made in at most two writes of the row as it was
\* or of a copy in the list.
RowFollows(c) ==
    \E m, x :
        /\ \/ m = rows[c]
           \/ \E i \in DOMAIN undos : c \in DOMAIN undos[i].rows /\ m = undos[i].rows[c]
        /\ Writes(m, x, today)
        /\ Writes(x, rows'[c], today)

RowsFollow ==
    /\ today' \in FirstDay..MaxDay
    /\ rows' = [c \in Cards |-> rows'[c]]
    /\ \A c \in Cards : RowFollows(c)

\* An entry made by this step: copies of the rows before it, those of a move
\* taken out of their filtered decks.
FreshEntry(e) ==
    /\ DOMAIN e.rows \subseteq Cards
    /\ \A c \in DOMAIN e.rows :
          \/ e.rows[c] = RemFromDynRow(rows[c])
          \/ e.type # "move" /\ e.rows[c] = rows[c]
    /\ e.type \in {"review", "dismiss"} => e.card \in DOMAIN e.rows
    /\ e.type = "move" => UndoableMoves

UndosFollow ==
    /\ Listed(undos')
    /\ Len(undos') <= UndoSizeMax
    /\ \A i \in DOMAIN undos' : \/ \E j \in DOMAIN undos : undos'[i] = undos[j]
                                \/ FreshEntry(undos'[i])

LEMMA FollowsTwice ==
    ASSUME NEW c \in Cards, NEW x, Writes(rows[c], x, today), Writes(x, rows'[c], today)
    PROVE  RowFollows(c)
BY DEF RowFollows

LEMMA FollowsOnce ==
    ASSUME NEW c \in Cards, Writes(rows[c], rows'[c], today)
    PROVE  RowFollows(c)
<1>1. Writes(rows'[c], rows'[c], today)
  BY DEF Writes
<1> QED BY <1>1, FollowsTwice

\* A copy is written back, and the table goes on from there.
LEMMA FollowsCopy ==
    ASSUME NEW c \in Cards, NEW i \in DOMAIN undos, c \in DOMAIN undos[i].rows,
           Writes(undos[i].rows[c], rows'[c], today)
    PROVE  RowFollows(c)
<1>1. Writes(undos[i].rows[c], undos[i].rows[c], today)
  BY DEF Writes
<1> QED BY <1>1 DEF RowFollows

\* The list when an entry is marked.
LEMMA MarkedFollows ==
    ASSUME UndoIInv, NEW e, FreshEntry(e), MarkUndo(e)
    PROVE  UndosFollow
<1> DEFINE marked == Append(undos, e)
           n == Len(undos)
<1>1. /\ Listed(marked) /\ n \in Nat /\ DOMAIN undos = 1..n
      /\ Len(marked) = n + 1 /\ DOMAIN marked = 1..(n + 1)
      /\ \A i \in 1..n : marked[i] = undos[i]
      /\ marked[n + 1] = e
  BY AppendListed DEF UndoIInv
<1>2. undos' = IF Len(marked) > UndoSizeMax THEN Tail(marked) ELSE marked
  BY DEF MarkUndo
<1>3. n <= UndoSizeMax /\ UndoSizeMax \in Nat
  BY UndoAssumption DEF UndoIInv
<1> HIDE DEF marked, n
<1>4. ASSUME NEW i \in 1..(n + 1)
      PROVE  (\E j \in DOMAIN undos : marked[i] = undos[j]) \/ FreshEntry(marked[i])
  <2>1. CASE i \in 1..n
    BY <1>1, <2>1
  <2>2. CASE i = n + 1
    BY <1>1, <2>2
  <2> QED BY <1>1, <2>1, <2>2
<1>5. CASE undos' = marked /\ n + 1 <= UndoSizeMax
  BY <1>1, <1>4, <1>5 DEF UndosFollow
<1>6. CASE undos' = Tail(marked)
  <2>1. marked # <<>>
    BY <1>1
  <2>2. /\ Listed(Tail(marked)) /\ Len(Tail(marked)) = n /\ DOMAIN Tail(marked) = 1..n
        /\ \A i \in 1..n : Tail(marked)[i] = marked[i + 1]
    BY <1>1, <2>1, TailListed
  <2>3. ASSUME NEW i \in 1..n
        PROVE  (\E j \in DOMAIN undos : undos'[i] = undos[j]) \/ FreshEntry(undos'[i])
    <3>1. i + 1 \in 1..(n + 1) /\ undos'[i] = marked[i + 1]
      BY <1>1, <1>6, <2>2
    <3> QED BY <1>4, <3>1
  <2> QED BY <1>3, <1>6, <2>2, <2>3 DEF UndosFollow
<1> QED BY <1>1, <1>2, <1>3, <1>5, <1>6

LEMMA SameUndosFollow ==
    ASSUME UndoIInv, UNCHANGED undos
    PROVE  UndosFollow
BY DEF UndoIInv, UndosFollow

LEMMA PoppedFollows ==
    ASSUME UndoIInv, undos # <<>>, undos' = Front(undos)
    PROVE  /\ UndosFollow
           /\ \E i \in DOMAIN undos : Last(undos) = undos[i]
<1> DEFINE n == Len(undos)
<1>1. /\ Listed(Front(undos)) /\ n \in Nat /\ n > 0 /\ DOMAIN undos = 1..n
      /\ Len(Front(undos)) = n - 1 /\ DOMAIN Front(undos) = 1..(n - 1)
      /\ \A i \in 1..(n - 1) : Front(undos)[i] = undos[i]
      /\ Last(undos) = undos[n]
  BY FrontListed DEF UndoIInv
<1>2. n <= UndoSizeMax /\ UndoSizeMax \in Nat
  BY UndoAssumption DEF UndoIInv
<1> HIDE DEF n
<1>3. ASSUME NEW i \in 1..(n - 1) PROVE \E j \in DOMAIN undos : undos'[i] = undos[j]
  BY <1>1
<1> QED BY <1>1, <1>2, <1>3 DEF UndosFollow

\* The entries the operations make.
LEMMA CopiesFresh ==
    ASSUME NEW type, NEW card, NEW S \in SUBSET Cards, type # "move",
           type \in {"review", "dismiss"} => card \in S
    PROVE  FreshEntry(Entry(type, card, S, rows))
<1> DEFINE e == Entry(type, card, S, rows)
<1>1. e.type = type /\ e.card = card /\ e.rows = [c \in S |-> rows[c]]
  BY DEF Entry
<1> HIDE DEF e
<1>2. FreshEntry(e)
  BY <1>1 DEF FreshEntry
<1> QED BY <1>2 DEF e

LEMMA ReviewFresh ==
    ASSUME NEW c \in Cards
    PROVE  FreshEntry(ReviewEntry(c))
<1> DEFINE e == ReviewEntry(c)
<1>1. e.type = "review" /\ e.card = c /\ e.rows = [k \in {c} |-> rows[k]]
  BY ReviewEntryFields
<1> HIDE DEF e
<1>2. FreshEntry(e)
  BY <1>1 DEF FreshEntry
<1> QED BY <1>2 DEF e

LEMMA MoveFresh ==
    ASSUME NEW S \in SUBSET Cards, UndoableMoves
    PROVE  FreshEntry(Entry("move", NoCard, S, [c \in Cards |-> RemFromDynRow(rows[c])]))
<1> DEFINE e == Entry("move", NoCard, S, [c \in Cards |-> RemFromDynRow(rows[c])])
<1>1. e.type = "move" /\ e.rows = [c \in S |-> RemFromDynRow(rows[c])]
  BY DEF Entry
<1> HIDE DEF e
<1>2. FreshEntry(e)
  BY <1>1 DEF FreshEntry
<1> QED BY <1>2 DEF e

\* Burying the siblings of the next card writes each row once.
LEMMA BuriedWrites ==
    ASSUME NEW table, NEW c \in Cards, NEW k \in Cards
    PROVE  /\ Writes(table[k], SiblingsBuried(table, c)[k], today)
           /\ SiblingsBuried(table, c) = [x \in Cards |-> SiblingsBuried(table, c)[x]]
BY DEF SiblingsBuried, Writes

LEMMA ShownWrites ==
    ASSUME NEW table, table = [x \in Cards |-> table[x]], NEW next \in NextShown(table)
    PROVE  /\ next = [x \in Cards |-> next[x]]
           /\ \A k \in Cards : Writes(table[k], next[k], today)
<1>1. CASE next = table
  BY <1>1 DEF Writes
<1>2. ASSUME NEW c \in Cards, next = SiblingsBuried(table, c)
      PROVE  /\ next = [x \in Cards |-> next[x]]
             /\ \A k \in Cards : Writes(table[k], next[k], today)
  <2>1. next = [x \in Cards |-> next[x]]
    BY <1>2 DEF SiblingsBuried
  <2> QED BY <1>2, <2>1, BuriedWrites
<1> QED BY <1>1, <1>2 DEF NextShown

\* A table whose rows are written once and then shown.
LEMMA ShownFollows ==
    ASSUME UndoIInv, UNCHANGED today,
           NEW table, table = [x \in Cards |-> table[x]],
           \A k \in Cards : Writes(rows[k], table[k], today),
           rows' \in NextShown(table)
    PROVE  RowsFollow
<1>1. /\ rows' = [x \in Cards |-> rows'[x]]
      /\ \A k \in Cards : Writes(table[k], rows'[k], today)
  BY ShownWrites
<1>2. \A k \in Cards : RowFollows(k)
  BY <1>1, FollowsTwice
<1> QED BY <1>1, <1>2 DEF RowsFollow, UndoIInv

LEMMA TableFollows ==
    ASSUME today' \in FirstDay..MaxDay, rows' = [x \in Cards |-> rows'[x]],
           \A k \in Cards : Writes(rows[k], rows'[k], today)
    PROVE  RowsFollow
BY FollowsOnce DEF RowsFollow

LEMMA AnswerCardFollows ==
    ASSUME UndoIInv, NEW c \in Cards, NEW ease \in Ease, AnswerCard(c, ease)
    PROVE  RowsFollow /\ UndosFollow
<1>1. PICK answered \in AnswerRows(rows[c], ease, today) :
         rows' = [SiblingsBuried(rows, c) EXCEPT ![c] = answered]
  BY DEF AnswerCard, Answer
<1>2. Answer(c, ease) /\ today' = today /\ MarkUndo(ReviewEntry(c))
  BY DEF AnswerCard, Answer
<1>3. ASSUME NEW k \in Cards PROVE Writes(rows[k], rows'[k], today)
  <2>1. CASE k = c
    <3>1. rows'[k] = answered
      BY <1>1, <2>1 DEF SiblingsBuried
    <3> QED BY <2>1, <3>1 DEF Writes
  <2>2. CASE k # c
    <3>1. rows'[k] = SiblingsBuried(rows, c)[k]
      BY <1>1, <2>2 DEF SiblingsBuried
    <3> QED BY <3>1, BuriedWrites
  <2> QED BY <2>1, <2>2
<1>4. rows' = [x \in Cards |-> rows'[x]]
  BY <1>1 DEF SiblingsBuried
<1>5. UndosFollow
  BY <1>2, ReviewFresh, MarkedFollows
<1> QED BY <1>2, <1>3, <1>4, <1>5, TableFollows DEF UndoIInv

LEMMA DismissFollows ==
    ASSUME UndoIInv, NEW c \in Cards, Dismiss(c)
    PROVE  RowsFollow /\ UndosFollow
<1> DEFINE Held(S, q) == [k \in Cards |-> IF k \in S THEN HoldRow(rows[k], q) ELSE rows[k]]
           note == Siblings(c) \cup {c}
<1>1. today' = today
  BY DEF Dismiss
<1>2. ASSUME NEW S, NEW q \in {QueueSuspended, QueueManuallyBuried},
             rows' \in NextShown(Held(S, q))
      PROVE  RowsFollow
  <2> DEFINE table == Held(S, q)
  <2>1. /\ table = [x \in Cards |-> table[x]]
        /\ \A k \in Cards : Writes(rows[k], table[k], today)
    BY DEF Writes
  <2>2. rows' \in NextShown(table)
    BY <1>2
  <2> HIDE DEF table
  <2> QED BY <1>1, <2>1, <2>2, ShownFollows
<1>3. RowsFollow
  BY <1>2 DEF Dismiss
<1>4. {c} \in SUBSET Cards /\ note \in SUBSET Cards
  BY DEF Siblings
<1>5. \/ MarkUndo(Entry("dismiss", c, {c}, rows))
      \/ MarkUndo(Entry("dismiss", c, note, rows))
  BY DEF Dismiss
<1>6. /\ FreshEntry(Entry("dismiss", c, {c}, rows))
      /\ FreshEntry(Entry("dismiss", c, note, rows))
  BY <1>4, CopiesFresh
<1> QED BY <1>3, <1>5, <1>6, MarkedFollows

LEMMA SuspendCardMultiFollows ==
    ASSUME UndoIInv, NEW S \in SUBSET Cards, SuspendCardMulti(S)
    PROVE  RowsFollow /\ UndosFollow
<1>1. UnsuspendCards(S) \/ SuspendCards(S)
  BY DEF SuspendCardMulti
<1>2. /\ today' = today
      /\ rows' = [x \in Cards |-> rows'[x]]
      /\ \A k \in Cards : Writes(rows[k], rows'[k], today)
  <2>1. CASE UnsuspendCards(S)
    BY <2>1 DEF UnsuspendCards, UpdateRows, Writes
  <2>2. CASE SuspendCards(S)
    BY <2>2 DEF SuspendCards, UpdateRows, Writes
  <2> QED BY <1>1, <2>1, <2>2
<1>3. FreshEntry(Entry("suspend", NoCard, S, rows))
  BY CopiesFresh
<1>4. MarkUndo(Entry("suspend", NoCard, S, rows))
  BY DEF SuspendCardMulti
<1>5. UndosFollow
  BY <1>3, <1>4, MarkedFollows
<1> QED BY <1>2, <1>5, TableFollows DEF UndoIInv

\* A set of cards has finitely many notes.
LEMMA NotesCounted ==
    ASSUME NEW S \in SUBSET Cards
    PROVE  Cardinality(Notes(S)) \in Nat
<1> DEFINE f == [c \in S |-> NoteOf[c]]
           T == Notes(S)
<1>1. IsFiniteSet(S)
  BY CardsAssumption, FS_Subset
<1>2. \A n \in T : \E c \in S : n = NoteOf[c]
  BY DEF Notes
<1>3. \A c \in S : NoteOf[c] \in T
  BY DEF Notes
<1> HIDE DEF T
<1>4. f \in Surjection(S, T)
  BY <1>2, <1>3 DEF Surjection
<1> HIDE DEF f
<1>5. IsFiniteSet(T)
  BY <1>1, <1>4, FS_Surjection
<1>6. Cardinality(T) \in Nat
  BY <1>5, FS_CardinalityType
<1> QED BY <1>6 DEF T

LEMMA EditCardsFollows ==
    ASSUME UndoIInv, NEW S \in SUBSET Cards, EditCards(S)
    PROVE  RowsFollow /\ UndosFollow
<1>1. today' = today
  BY DEF EditCards
<1>2. ASSUME NEW start \in 1..MaxPos, NEW table \in Forgotten(S, start),
             rows' \in NextShown(table)
      PROVE  RowsFollow
  <2>1. PICK place \in Placings(S, start) :
           table = [c \in Cards |-> IF c \in S THEN ForgetRow(rows[c], place[NoteOf[c]])
                                               ELSE rows[c]]
    BY DEF Forgotten
  <2>2. table = [x \in Cards |-> table[x]]
    BY <2>1
  <2>3. ASSUME NEW k \in Cards PROVE Writes(rows[k], table[k], today)
    <3>1. CASE k \in S
      <4>1. place[NoteOf[k]] \in 1..MaxPos
        BY <3>1, PlacingsOK
      <4>2. table[k] = ForgetRow(rows[k], place[NoteOf[k]])
        BY <2>1, <3>1
      <4> QED BY <4>1, <4>2 DEF Writes
    <3>2. CASE k \notin S
      BY <2>1, <3>2 DEF Writes
    <3> QED BY <3>1, <3>2
  <2> QED BY <1>1, <1>2, <2>2, <2>3, ShownFollows
<1>3. ASSUME NEW days \in ReschedDays, rows' \in NextShown(Rescheduled(S, days))
      PROVE  RowsFollow
  <2> DEFINE table == Rescheduled(S, days)
  <2>1. table = [x \in Cards |-> table[x]]
    BY DEF Rescheduled
  <2>2. \A k \in Cards : Writes(rows[k], table[k], today)
    BY DEF Rescheduled, Writes
  <2>3. rows' \in NextShown(table)
    BY <1>3
  <2> HIDE DEF table
  <2> QED BY <1>1, <2>1, <2>2, <2>3, ShownFollows
<1>4. ASSUME NEW start \in 1..MaxPos, NEW place \in Placings(S, start),
             NEW low \in Least(TakenFrom(S, start), start + Cardinality(Notes(S))),
             rows' \in NextShown(Repositioned(S, start + Cardinality(Notes(S)), place, low)),
             \A c \in Cards \ S : rows'[c].due <= MaxOf(MaxPos, rows[c].due)
      PROVE  RowsFollow
  <2> DEFINE next == start + Cardinality(Notes(S))
             table == Repositioned(S, next, place, low)
  <2>1. next \in Nat \ {0}
    BY NotesCounted
  <2> HIDE DEF next
  <2>2. low \in Int
    <3>1. \A d \in TakenFrom(S, start) : d \in Int
      BY DEF TakenFrom, UndoIInv, Housed, Rows, Dues
    <3>2. low = next \/ low \in TakenFrom(S, start)
      BY <1>4 DEF Least, next
    <3> QED BY <2>1, <3>1, <3>2
  <2>3. table = [x \in Cards |-> table[x]]
    BY DEF Repositioned
  <2>4. rows' \in NextShown(table)
    BY <1>4 DEF next
  <2> HIDE DEF table
  <2>5. \A k \in Cards : Writes(table[k], rows'[k], today)
    BY <2>3, <2>4, ShownWrites
  <2>6. ASSUME NEW k \in Cards, k \notin S, rows[k].queue = QueueNew, rows[k].due >= low
        PROVE  Writes(rows[k], table[k], today)
    <3>1. rows[k] \in Rows /\ rows[k].due \in Int
      BY DEF UndoIInv, Housed, Rows, Dues
    <3>2. table[k] = [rows[k] EXCEPT !.due = rows[k].due + (next - low)]
      BY <2>6 DEF table, Repositioned, ShiftRow
    <3>3. table[k].due = rows[k].due + (next - low)
      BY <3>1, <3>2 DEF Rows
    <3>4. rows'[k].due = table[k].due
      <4>1. rows'[k] = table[k] \/ \E q : rows'[k] = HoldRow(table[k], q)
        BY <2>4 DEF NextShown, SiblingsBuried
      <4>2. \A q : HoldRow(table[k], q).due = table[k].due
        BY <3>1, <3>2 DEF HoldRow, Rows
      <4> QED BY <4>1, <4>2
    <3>5. rows[k].due + (next - low) \in 1..MaxOf(MaxPos, rows[k].due)
      BY <1>4, <2>1, <2>2, <2>6, <3>1, <3>3, <3>4, BoundsAssumption DEF MaxOf
    <3> QED BY <2>6, <3>2, <3>5 DEF Writes
  <2>7. ASSUME NEW k \in S
        PROVE  Writes(rows[k], table[k], today)
    <3>1. place[NoteOf[k]] \in 1..MaxPos
      BY <2>7, PlacingsOK
    <3>2. table[k] = PlaceRow(rows[k], place[NoteOf[k]])
      BY DEF table, Repositioned
    <3> QED BY <3>1, <3>2 DEF Writes
  <2>8. ASSUME NEW k \in Cards, k \notin S, ~(rows[k].queue = QueueNew /\ rows[k].due >= low)
        PROVE  Writes(rows[k], table[k], today)
    <3>1. table[k] = rows[k]
      BY <2>8 DEF table, Repositioned, ShiftRow
    <3> QED BY <3>1 DEF Writes
  <2>9. \A k \in Cards : Writes(rows[k], table[k], today)
    BY <2>6, <2>7, <2>8
  <2> QED BY <1>1, <2>3, <2>4, <2>9, ShownFollows
<1>5. RowsFollow
  BY <1>2, <1>3, <1>4 DEF EditCards
<1>6. FreshEntry(Entry("edit", NoCard, S, rows))
  BY CopiesFresh
<1>7. MarkUndo(Entry("edit", NoCard, S, rows)) \/ UNCHANGED undos
  BY DEF EditCards
<1>8. UndosFollow
  BY <1>6, <1>7, MarkedFollows, SameUndosFollow
<1> QED BY <1>5, <1>8

LEMMA ChangeDeckMultiFollows ==
    ASSUME UndoIInv, NEW S \in SUBSET Cards, NEW d \in StdDecks, ChangeDeckMulti(S, d)
    PROVE  RowsFollow /\ UndosFollow
<1>1. /\ today' = today
      /\ rows' = [x \in Cards |-> rows'[x]]
      /\ \A k \in Cards : Writes(rows[k], rows'[k], today)
  BY DEF ChangeDeckMulti, ChangeDeck, UpdateRows, Writes
<1>2. FreshEntry(Entry("move", NoCard, S, [c \in Cards |-> RemFromDynRow(rows[c])]))
  BY MoveFresh DEF ChangeDeckMulti
<1>3. UndosFollow
  BY <1>2, MarkedFollows DEF ChangeDeckMulti
<1> QED BY <1>1, <1>3, TableFollows DEF UndoIInv

LEMMA WithoutUndoFollows ==
    ASSUME UndoIInv, WithoutUndo
    PROVE  RowsFollow /\ UndosFollow
<1>1. ASSUME NEW f \in FilteredDecks, NEW found \in SUBSET Cards, RebuildDyn(f, found)
      PROVE  RowsFollow
  <2> DEFINE Emptied(c) == IF rows[c].did = f THEN EmptyDynRow(rows[c]) ELSE rows[c]
  <2>1. /\ \A c \in found : Gatherable(Emptied(c))
        /\ rows' = [c \in Cards |->
              IF c \in found THEN MoveToDynRow(Emptied(c), f) ELSE Emptied(c)]
        /\ today' = today
    BY <1>1 DEF RebuildDyn
  <2>2. \A c \in Cards : Writes(rows[c], Emptied(c), today)
    BY DEF UndoIInv, Housed, Writes
  <2> HIDE DEF Emptied
  <2>3. \A c \in Cards : Writes(Emptied(c), rows'[c], today)
    BY <2>1 DEF Writes
  <2>4. \A c \in Cards : RowFollows(c)
    BY <2>2, <2>3, FollowsTwice
  <2> QED BY <2>1, <2>4 DEF RowsFollow, UndoIInv
<1>2. ASSUME NEW f \in FilteredDecks, EmptyDyn(f)
      PROVE  RowsFollow
  <2>1. /\ today' = today
        /\ rows' = [x \in Cards |-> rows'[x]]
        /\ \A k \in Cards : Writes(rows[k], rows'[k], today)
    BY <1>2 DEF EmptyDyn, UpdateRows, UndoIInv, Housed, Writes
  <2> QED BY <2>1, TableFollows DEF UndoIInv
<1>3. ASSUME NEW c \in Cards, BurySiblings(c)
      PROVE  RowsFollow
  <2>1. rows' = SiblingsBuried(rows, c) /\ today' = today
    BY <1>3 DEF BurySiblings
  <2> QED BY <2>1, BuriedWrites, TableFollows DEF UndoIInv
<1>4. ASSUME NEW dids, NEW queues, UnburyCardsForDeck(dids, queues)
      PROVE  RowsFollow
  <2>1. /\ today' = today
        /\ rows' = [x \in Cards |-> rows'[x]]
        /\ \A k \in Cards : Writes(rows[k], rows'[k], today)
    BY <1>4 DEF UnburyCardsForDeck, UpdateRows, Writes
  <2> QED BY <2>1, TableFollows DEF UndoIInv
<1>5. ASSUME NEW d \in StdDecks, SortDeck(d)
      PROVE  RowsFollow
  <2> DEFINE S == {c \in Cards : rows[c].did = d}
  <2>1. PICK place \in Placings(S, 1) :
           rows' = [c \in Cards |-> IF c \in S
                                   THEN PlaceRow(rows[c], place[NoteOf[c]])
                                   ELSE rows[c]]
    BY <1>5 DEF SortDeck
  <2>2. today' = today /\ S \in SUBSET Cards /\ 1 \in Nat \ {0}
    BY <1>5 DEF SortDeck
  <2> HIDE DEF S
  <2>3. ASSUME NEW k \in Cards PROVE Writes(rows[k], rows'[k], today)
    <3>1. CASE k \in S
      <4>1. place[NoteOf[k]] \in 1..MaxPos
        BY <2>2, <3>1, PlacingsOK
      <4>2. rows'[k] = PlaceRow(rows[k], place[NoteOf[k]])
        BY <2>1, <3>1
      <4> QED BY <4>1, <4>2 DEF Writes
    <3>2. CASE k \notin S
      BY <2>1, <3>2 DEF Writes
    <3> QED BY <3>1, <3>2
  <2>4. rows' = [x \in Cards |-> rows'[x]]
    BY <2>1
  <2> QED BY <2>2, <2>3, <2>4, TableFollows DEF UndoIInv
<1>6. RowsFollow
  BY <1>1, <1>2, <1>3, <1>4, <1>5 DEF WithoutUndo, Filter
<1>7. UndosFollow
  BY SameUndosFollow DEF WithoutUndo
<1> QED BY <1>6, <1>7

LEMMA RolloverCountsFollows ==
    ASSUME UndoIInv, RolloverCounts
    PROVE  RowsFollow /\ UndosFollow
<1>1. PICK day \in (today + 1)..MaxDay : NewDay(day)
  BY DEF RolloverCounts, Rollover
<1>2. today' \in FirstDay..MaxDay
  BY <1>1, BoundsAssumption, CardsAssumption DEF NewDay, UndoIInv
<1>3. /\ rows' = [x \in Cards |-> rows'[x]]
      /\ \A k \in Cards : Writes(rows[k], rows'[k], today)
  BY <1>1 DEF NewDay, UpdateRows, Writes
<1>4. UndosFollow
  BY SameUndosFollow DEF RolloverCounts
<1> QED BY <1>2, <1>3, <1>4, TableFollows

LEMMA UndoFollows ==
    ASSUME UndoIInv, Undo
    PROVE  RowsFollow /\ UndosFollow
<1>1. undos # <<>> /\ undos' = Front(undos) /\ today' = today
  BY DEF Undo
<1>2. UndosFollow /\ \E i \in DOMAIN undos : Last(undos) = undos[i]
  BY <1>1, PoppedFollows
<1>3. PICK i \in DOMAIN undos : Last(undos) = undos[i]
  BY <1>2
<1> DEFINE e == undos[i]
<1>4. EntryOK(e)
  BY DEF UndoIInv
<1>5. \/ e.type = "review" /\ rows' = ReviewUndone(rows, e)
      \/ e.type = "dismiss" /\ rows' = SiblingsBuried(WriteBack(e.rows), e.card)
      \/ e.type = "suspend" /\ UndoSuspendCardMulti(e)
      \/ e.type = "edit" /\ rows' \in NextShown(WriteBack(e.rows))
      \/ e.type = "move" /\ UndoChangeDeckMulti(e)
  BY <1>3 DEF Undo, UndoReview, UndoDismiss, UndoEditCards
<1>6. today' \in FirstDay..MaxDay
  BY <1>1 DEF UndoIInv
<1>7. ASSUME NEW k \in Cards, NEW table, Writes(table[k], rows'[k], today),
             \/ Writes(rows[k], table[k], today)
             \/ k \in DOMAIN e.rows /\ table[k] = e.rows[k]
      PROVE  RowFollows(k)
  <2>1. CASE Writes(rows[k], table[k], today)
    BY <1>7, <2>1, FollowsTwice
  <2>2. CASE k \in DOMAIN e.rows /\ table[k] = e.rows[k]
    BY <1>7, <2>2, FollowsCopy
  <2> QED BY <1>7, <2>1, <2>2
<1>8. CASE e.type = "review" /\ rows' = ReviewUndone(rows, e)
  <2> DEFINE c == e.card
             restored ==
                 [k \in Cards |->
                     IF k \in Siblings(c) /\ rows[k].queue = QueueSiblingBuried
                     THEN RestoreRowByType(rows[k])
                     ELSE rows[k]]
             table == [restored EXCEPT ![c] = e.rows[c]]
  <2>1. c \in DOMAIN e.rows /\ c \in Cards
    BY <1>4, <1>8 DEF EntryOK
  <2>2. rows' = SiblingsBuried(table, c)
    BY <1>8 DEF ReviewUndone
  <2>3. ASSUME NEW k \in Cards
        PROVE  \/ Writes(rows[k], table[k], today)
               \/ k \in DOMAIN e.rows /\ table[k] = e.rows[k]
    <3>1. CASE k = c
      BY <2>1, <3>1
    <3>2. CASE k # c
      <4>1. table[k] = restored[k]
        BY <3>2
      <4>2. Writes(rows[k], restored[k], today)
        BY DEF Writes
      <4> QED BY <4>1, <4>2
    <3> QED BY <3>1, <3>2
  <2> HIDE DEF table, c
  <2>4. /\ rows' = [x \in Cards |-> rows'[x]]
        /\ \A k \in Cards : Writes(table[k], rows'[k], today)
    BY <2>1, <2>2, BuriedWrites
  <2>5. \A k \in Cards : RowFollows(k)
    BY <1>7, <2>3, <2>4
  <2> QED BY <1>2, <1>6, <2>4, <2>5 DEF RowsFollow
<1>9. ASSUME NEW k \in Cards
      PROVE  LET table == WriteBack(e.rows)
             IN  \/ Writes(rows[k], table[k], today)
                 \/ k \in DOMAIN e.rows /\ table[k] = e.rows[k]
  BY DEF WriteBack, Writes
<1>10. CASE e.type = "dismiss" /\ rows' = SiblingsBuried(WriteBack(e.rows), e.card)
  <2>1. e.card \in Cards
    BY <1>4, <1>10 DEF EntryOK
  <2>2. /\ rows' = [x \in Cards |-> rows'[x]]
        /\ \A k \in Cards : Writes(WriteBack(e.rows)[k], rows'[k], today)
    BY <1>10, <2>1, BuriedWrites
  <2>3. \A k \in Cards : RowFollows(k)
    BY <1>7, <1>9, <2>2
  <2> QED BY <1>2, <1>6, <2>2, <2>3 DEF RowsFollow
<1>11. CASE e.type = "suspend" /\ UndoSuspendCardMulti(e)
  <2>1. /\ rows' = [x \in Cards |-> rows'[x]]
        /\ \A k \in Cards : Writes(rows[k], rows'[k], today)
    BY <1>11 DEF UndoSuspendCardMulti, Writes
  <2> QED BY <1>2, <1>6, <2>1, TableFollows
<1>12. CASE e.type = "edit" /\ rows' \in NextShown(WriteBack(e.rows))
  <2>1. WriteBack(e.rows) = [x \in Cards |-> WriteBack(e.rows)[x]]
    BY DEF WriteBack
  <2>2. /\ rows' = [x \in Cards |-> rows'[x]]
        /\ \A k \in Cards : Writes(WriteBack(e.rows)[k], rows'[k], today)
    BY <1>12, <2>1, ShownWrites
  <2>3. \A k \in Cards : RowFollows(k)
    BY <1>7, <1>9, <2>2
  <2> QED BY <1>2, <1>6, <2>2, <2>3 DEF RowsFollow
<1>13. CASE e.type = "move" /\ UndoChangeDeckMulti(e)
  <2>1. /\ UndoableMoves
        /\ \A k \in DOMAIN e.rows : e.rows[k].did \in StdDecks
    BY <1>4, <1>13 DEF EntryOK, Housed, Rows
  <2>2. /\ rows' = [x \in Cards |-> rows'[x]]
        /\ \A k \in Cards : Writes(rows[k], rows'[k], today)
    BY <1>13, <2>1 DEF UndoChangeDeckMulti, Writes
  <2> QED BY <1>2, <1>6, <2>2, TableFollows
<1> HIDE DEF e
<1> QED BY <1>5, <1>8, <1>10, <1>11, <1>12, <1>13

LEMMA ClearUndoFollows ==
    ASSUME UndoIInv, ClearUndo
    PROVE  RowsFollow /\ UndosFollow
<1>1. /\ today' = today
      /\ rows' = [x \in Cards |-> rows'[x]]
      /\ \A k \in Cards : Writes(rows[k], rows'[k], today)
  BY DEF ClearUndo, UndoIInv, Writes
<1>2. undos' = <<>>
  BY DEF ClearUndo
<1>3. UndosFollow
  BY <1>2, EmptyListed, UndoAssumption DEF UndosFollow
<1> QED BY <1>1, <1>3, TableFollows DEF UndoIInv

\* Every step writes rows and entries in these ways only.
LEMMA StepFollows ==
    ASSUME UndoIInv, [UndoNext]_undoVars
    PROVE  RowsFollow /\ UndosFollow
<1>1. ASSUME NEW c \in Cards, DismissFails(c)
      PROVE  RowsFollow /\ UndosFollow
  <2>1. /\ today' = today
        /\ rows' = [x \in Cards |-> rows'[x]]
        /\ \A k \in Cards : Writes(rows[k], rows'[k], today)
    BY <1>1 DEF DismissFails, UndoIInv, Writes
  <2>2. FreshEntry(Entry("dismiss", c, {c}, rows))
    BY CopiesFresh
  <2>3. UndosFollow
    BY <1>1, <2>2, MarkedFollows DEF DismissFails
  <2> QED BY <2>1, <2>3, TableFollows DEF UndoIInv
<1>2. CASE UNCHANGED undoVars
  <2>1. /\ today' = today
        /\ rows' = [x \in Cards |-> rows'[x]]
        /\ \A k \in Cards : Writes(rows[k], rows'[k], today)
    BY <1>2 DEF undoVars, UndoIInv, Writes
  <2>2. UndosFollow
    BY <1>2, SameUndosFollow DEF undoVars
  <2> QED BY <2>1, <2>2, TableFollows DEF UndoIInv
<1>3. CASE UndoNext
  <2>1. ASSUME NEW S \in SUBSET Cards \ {{}} PROVE S \in SUBSET Cards
    OBVIOUS
  <2> QED BY <1>1, <1>3, <2>1, AnswerCardFollows, DismissFollows, SuspendCardMultiFollows,
             EditCardsFollows, ChangeDeckMultiFollows, UndoFollows, ClearUndoFollows,
             WithoutUndoFollows, RolloverCountsFollows DEF UndoNext
<1> QED BY <1>2, <1>3

-----------------------------------------------------------------------------
(* The daily counts.                                                       *)

LEMMA StatsTyped ==
    ASSUME counts \in [StdDecks -> [new: Int, rev: Int]], NEW did, NEW n \in Int
    PROVE  /\ UpdateStats(did, "new", n) \in [StdDecks -> [new: Int, rev: Int]]
           /\ UpdateStats(did, "rev", n) \in [StdDecks -> [new: Int, rev: Int]]
<1> DEFINE r == counts[did]
<1>1. CASE did \in StdDecks
  <2>1. r \in [new: Int, rev: Int]
    BY <1>1
  <2>2. /\ UpdateStats(did, "new", n) = [counts EXCEPT ![did] = [r EXCEPT !.new = r.new + n]]
        /\ UpdateStats(did, "rev", n) = [counts EXCEPT ![did] = [r EXCEPT !.rev = r.rev + n]]
    BY <1>1 DEF UpdateStats
  <2> HIDE DEF r
  <2>3. /\ [r EXCEPT !.new = r.new + n] \in [new: Int, rev: Int]
        /\ [r EXCEPT !.rev = r.rev + n] \in [new: Int, rev: Int]
    BY <2>1
  <2> QED BY <2>2, <2>3
<1>2. CASE did \notin StdDecks
  BY <1>2 DEF UpdateStats
<1> QED BY <1>1, <1>2

LEMMA CountsTyped ==
    ASSUME counts \in [StdDecks -> [new: Int, rev: Int]], [UndoNext]_undoVars
    PROVE  counts' \in [StdDecks -> [new: Int, rev: Int]]
<1>1. ASSUME NEW c, NEW ease, AnswerCard(c, ease)
      PROVE  counts' \in [StdDecks -> [new: Int, rev: Int]]
  BY <1>1, StatsTyped DEF AnswerCard, CountedAnswer
<1>2. CASE Undo
  BY <1>2, StatsTyped DEF Undo, UndoReview, CountsUndone, UndoDismiss,
     UndoSuspendCardMulti, UndoEditCards, UndoChangeDeckMulti
<1>3. CASE RolloverCounts
  BY <1>3 DEF RolloverCounts, NoCounts
<1> QED BY <1>1, <1>2, <1>3
        DEF UndoNext, undoVars, Dismiss, DismissFails, SuspendCardMulti, EditCards,
            ChangeDeckMulti, ClearUndo, WithoutUndo

-----------------------------------------------------------------------------
(* The invariant of the rows and the copies.                               *)

LEMMA HousedStays ==
    ASSUME UndoIInv, NEW c \in Cards, RowFollows(c)
    PROVE  Housed(rows'[c])
<1>1. PICK m, x :
        /\ \/ m = rows[c]
           \/ \E i \in DOMAIN undos : c \in DOMAIN undos[i].rows /\ m = undos[i].rows[c]
        /\ Writes(m, x, today)
        /\ Writes(x, rows'[c], today)
  BY DEF RowFollows
<1>2. Housed(m)
  BY <1>1 DEF UndoIInv, EntryOK
<1>3. Housed(x)
  BY <1>1, <1>2, HousedWritten DEF UndoIInv
<1> QED BY <1>1, <1>3, HousedWritten DEF UndoIInv

LEMMA FreshEntryOK ==
    ASSUME UndoIInv, NEW e, FreshEntry(e)
    PROVE  EntryOK(e)
<1>1. \A c \in DOMAIN e.rows :
         /\ Housed(rows[c]) /\ Housed(RemFromDynRow(rows[c]))
         /\ ~InDynamicDeck(RemFromDynRow(rows[c]))
  BY HousedRemoved DEF UndoIInv, FreshEntry
<1> QED BY <1>1 DEF FreshEntry, EntryOK

LEMMA StepUndoIInv ==
    ASSUME UndoIInv, [UndoNext]_undoVars
    PROVE  UndoIInv'
<1>1. RowsFollow /\ UndosFollow
  BY StepFollows
<1>2. \A c \in Cards : Housed(rows'[c])
  BY <1>1, HousedStays DEF RowsFollow
<1>3. rows' \in [Cards -> Rows]
  BY <1>1, <1>2 DEF RowsFollow, Housed
<1>4. ASSUME NEW i \in DOMAIN undos' PROVE EntryOK(undos'[i])
  BY <1>1, FreshEntryOK DEF UndosFollow, UndoIInv
<1>5. counts' \in [StdDecks -> [new: Int, rev: Int]]
  BY CountsTyped DEF UndoIInv
<1> QED BY <1>1, <1>2, <1>3, <1>4, <1>5 DEF UndoIInv, RowsFollow, UndosFollow

LEMMA InitUndoIInv == UndoInit => UndoIInv
<1> SUFFICES ASSUME UndoInit PROVE UndoIInv
  OBVIOUS
<1>1. ASSUME NEW c \in Cards PROVE Housed(rows[c])
  <2>1. PICK d \in StdDecks : rows[c] = NewRow(d)
    BY DEF UndoInit, Init
  <2>2. RowOK(rows[c]) /\ rows[c].odid = NoDeck
    BY <2>1, NewRowOK DEF NewRow
  <2> QED BY <2>2 DEF RowOK, RowLinked, InDynamicDeck, Housed
<1>2. rows \in [Cards -> Rows] /\ today \in FirstDay..MaxDay
  BY <1>1, CardsAssumption, BoundsAssumption DEF UndoInit, Init, Housed
<1>3. undos = <<>> /\ counts \in [StdDecks -> [new: Int, rev: Int]]
  BY DEF UndoInit, NoCounts
<1> QED BY <1>1, <1>2, <1>3, EmptyListed, UndoAssumption DEF UndoIInv

LEMMA AlwaysUndoIInv == UndoSpec => []UndoIInv
<1>1. UndoInit => UndoIInv
  BY InitUndoIInv
<1>2. UndoIInv /\ [UndoNext]_undoVars => UndoIInv'
  BY StepUndoIInv
<1> QED BY <1>1, <1>2, PTL DEF UndoSpec

\* The table, the copies in the undo list, the log and the counts keep their
\* ranges, and the list its size, whatever is undone after whatever.
THEOREM UndoTypeOKHolds == UndoSpec => []UndoTypeOK
<1>1. UndoIInv /\ LogInv => UndoTypeOK
  BY CardsAssumption, BoundsAssumption
     DEF UndoIInv, LogInv, UndoTypeOK, TypeOK, EntryOK, Housed
<1> QED BY <1>1, AlwaysUndoIInv, AlwaysLogInv, PTL

\* As long as no move is undone, or there are no filtered decks, the undo list
\* never takes filtered decks and remembered decks apart: Collection.fixIntegrity
\* has nothing to repair.  CollectionTask.UndoChangeDeckMulti alone does.
THEOREM FilteredLinkUndone ==
    (UndoableMoves => FilteredDecks = {}) => (UndoSpec => []FilteredLink)
<1> SUFFICES ASSUME UndoableMoves => FilteredDecks = {} PROVE UndoSpec => []FilteredLink
  OBVIOUS
<1>1. UndoIInv => FilteredLink
  BY DEF UndoIInv, Housed, FilteredLink
<1> QED BY <1>1, AlwaysUndoIInv, PTL

\* Without preview decks, and without moves undone behind a filtered deck, rows
\* and copies are sound, and a sibling is buried only as a new card or a review.
Sound(r) ==
    /\ RowOK(r)
    /\ r.queue = QueueSiblingBuried => r.type \in {TypeNew, TypeRev}

SoundInv ==
    /\ \A c \in Cards : Sound(rows[c])
    /\ \A i \in DOMAIN undos : \A c \in DOMAIN undos[i].rows : Sound(undos[i].rows[c])

-----------------------------------------------------------------------------
(* An answer leaves no card buried, and moves none but out of a filtered   *)
(* deck.                                                                   *)

\* Outside preview decks.
LEMMA AnsweredUnburied ==
    ASSUME NEW r, Housed(r), ~Previewing(r), NEW ease \in Ease,
           NEW t \in FirstDay..MaxDay, NEW a \in AnswerRows(r, ease, t)
    PROVE  a.queue # QueueSiblingBuried /\ SameHome(r, a)
<1> DEFINE q == IF r.queue = QueueNew THEN StartLearning(r) ELSE r
<1>1. PICK b \in AnswerQueue(r, ease, t) : a = DropOriginalDue(b)
  BY DEF AnswerRows
<1>2. \/ b \in AnswerLrn(q, ease, t)
      \/ q.queue = QueueRev /\ b \in AnswerRev(q, ease, t)
  BY DEF AnswerQueue
<1>3. q \in Rows /\ Housed(q) /\ q.did = r.did /\ q.odid = r.odid
  <2>1. r \in Rows /\ QueueLrn \in QueueManuallyBuried..QueuePreview
        /\ TypeLrn \in TypeNew..TypeRelearn
    BY DEF Housed
  <2>2. /\ StartLearning(r) \in Rows
        /\ StartLearning(r).did = r.did /\ StartLearning(r).odid = r.odid
        /\ StartLearning(r).odue = r.odue
    BY <2>1, OptionsAssumption DEF StartLearning, Rows
  <2> QED BY <2>1, <2>2, HousedPlanned
<1> HIDE DEF q
<1>4. b.queue # QueueSiblingBuried /\ SameHome(q, b)
  BY <1>2, <1>3, LrnOutcome, LapseOutcome, RevOutcome DEF AnswerRev
<1>5. b \in Rows
  BY <1>2, <1>3, HousedLrn, HousedLapse, HousedRev DEF AnswerRev, Housed
<1> QED BY <1>1, <1>3, <1>4, <1>5, OriginalDueOutcome DEF SameHome, InDynamicDeck

-----------------------------------------------------------------------------
(* One write keeps a row sound.                                            *)

\* What the code leaves to chance with preview decks, with moves undone behind
\* a filtered deck, and with a reschedule by 0 days on day 0.
Plain ==
    /\ PreviewDecks = {}
    /\ UndoableMoves => FilteredDecks = {}
    /\ PositiveDues

LEMMA SoundHoused ==
    ASSUME Plain, NEW r, RowOK(r)
    PROVE  r \in Rows /\ (FilteredDecks = {} => ~InDynamicDeck(r)) /\ Housed(r)
BY DEF RowOK, RowLinked, Housed, Plain

\* A sibling that was buried is restored to the queue it was buried in.
LEMMA SoundByType ==
    ASSUME NEW r, Sound(r), r.queue = QueueSiblingBuried
    PROVE  Sound(RestoreRowByType(r))
<1>1. RestoreRowByType(r) = RestoreRow(r)
  BY DEF RestoreRowByType, RestoreRow, RestoreQueue, Sound
<1>2. RowOK(RestoreRow(r))
  BY RestoreRowOK DEF Sound
<1>3. RestoreRowByType(r).queue = r.type /\ r.type >= 0
  BY DEF RestoreRowByType, Sound, RowOK, Rows
<1> QED BY <1>1, <1>2, <1>3 DEF Sound

LEMMA SoundEmptied ==
    ASSUME NEW r, Sound(r)
    PROVE  Sound(RemFromDynRow(r))
<1>1. RowOK(RemFromDynRow(r))
  BY RemFromDynRowOK DEF Sound
<1>2. CASE InDynamicDeck(r)
  <2>1. /\ EmptyDynRow(r).queue = IF r.queue < 0 THEN r.queue ELSE RestoreQueue(r)
        /\ EmptyDynRow(r).type = r.type
    BY DEF EmptyDynRow, RestoreQueueWhenEmptying, Sound, RowOK, Rows
  <2>2. RestoreQueue(r) >= 0
    BY DEF RestoreQueue, Sound, RowOK, Rows
  <2> QED BY <1>1, <1>2, <2>1, <2>2 DEF RemFromDynRow, Sound
<1>3. CASE ~InDynamicDeck(r)
  BY <1>3 DEF RemFromDynRow
<1> QED BY <1>2, <1>3

LEMMA SoundWritten ==
    ASSUME Plain, NEW r, Sound(r), NEW t \in FirstDay..MaxDay, NEW s, Writes(r, s, t)
    PROVE  Sound(s)
<1>1. RowOK(r) /\ r \in Rows /\ Housed(r) /\ ~Previewing(r)
  BY SoundHoused DEF Sound, Plain, Previewing
<1>2. ASSUME RowOK(s), s.queue # QueueSiblingBuried PROVE Sound(s)
  BY <1>2 DEF Sound
<1>3. ASSUME NEW ease \in Ease, s \in AnswerRows(r, ease, t) PROVE Sound(s)
  BY <1>1, <1>2, <1>3, AnswerRowsOK, AnsweredUnburied
<1>4. CASE InDynamicDeck(r) /\ s = EmptyDynRow(r)
  BY <1>4, SoundEmptied DEF RemFromDynRow
<1>5. ASSUME NEW f \in FilteredDecks, Gatherable(r), s = MoveToDynRow(r, f) PROVE Sound(s)
  <2>1. RowOK(s)
    BY <1>1, <1>5, MoveToDynRowOK
  <2>2. s.queue = r.queue \/ s.queue = QueueRev
    BY <1>1, <1>5 DEF MoveToDynRow, Rows
  <2>3. r.queue >= 0
    BY <1>5 DEF Gatherable
  <2> QED BY <1>2, <2>1, <2>2, <2>3
<1>6. ASSUME NEW q \in {QueueSuspended, QueueManuallyBuried}, s = HoldRow(r, q) PROVE Sound(s)
  <2>1. RowOK(s) /\ s.queue = q
    BY <1>1, <1>6, HeldRowOK DEF HoldRow, Rows
  <2> QED BY <1>2, <2>1
<1>7. CASE SiblingToBury(r, t) /\ s = HoldRow(r, QueueSiblingBuried)
  <2>1. RowOK(s) /\ s.type = r.type
    BY <1>1, <1>7, HeldRowOK DEF HoldRow, Rows
  <2>2. r.queue \in {QueueNew, QueueRev} /\ r.queue = RestoreQueue(r)
    BY <1>1, <1>7 DEF SiblingToBury, RowOK, RowQueued
  <2>3. r.type \in {TypeNew, TypeRev}
    BY <2>2 DEF RestoreQueue
  <2> QED BY <2>1, <2>3 DEF Sound
<1>8. CASE s = RestoreRow(r)
  <2>1. RowOK(s) /\ s.queue = RestoreQueue(r)
    BY <1>1, <1>8, RestoreRowOK DEF RestoreRow, Rows
  <2>2. RestoreQueue(r) >= 0
    BY <1>1 DEF RestoreQueue, Rows
  <2> QED BY <1>2, <2>1, <2>2
<1>9. CASE r.queue = QueueSiblingBuried /\ s = RestoreRowByType(r)
  BY <1>9, SoundByType
<1>10. ASSUME NEW pos \in 1..MaxPos, s = ForgetRow(r, pos) PROVE Sound(s)
  <2>1. RowOK(s)
    BY <1>1, <1>10, ForgetRowOK
  <2>2. s.queue = QueueNew
    BY <1>1, <1>10, RemFromDynRowOK DEF ForgetRow, RowOK, Rows
  <2> QED BY <1>2, <2>1, <2>2
<1>11. ASSUME NEW pos \in 1..MaxPos, s = PlaceRow(r, pos) PROVE Sound(s)
  <2>1. RowOK(s)
    BY <1>1, <1>11, PlaceRowOK
  <2>2. s.queue = r.queue /\ s.type = r.type
    BY <1>1, <1>11 DEF PlaceRow, Rows
  <2> QED BY <2>1, <2>2 DEF Sound
<1>12. ASSUME NEW d \in 1..MaxOf(MaxPos, r.due), r.queue = QueueNew, s = [r EXCEPT !.due = d]
       PROVE  Sound(s)
  <2>1. RowOK(s)
    BY <1>1, <1>12, ShiftedRowOK
  <2>2. s.queue = QueueNew
    BY <1>1, <1>12 DEF Rows
  <2> QED BY <1>2, <2>1, <2>2
<1>13. ASSUME NEW days \in ReschedDays, s = ReschedRow(r, days, t) PROVE Sound(s)
  <2>1. RowOK(s)
    BY <1>1, <1>13, ReschedRowOK DEF Plain
  <2>2. s.queue = QueueRev
    BY <1>1, <1>13, RemFromDynRowOK DEF ReschedRow, RowOK, Rows
  <2> QED BY <1>2, <2>1, <2>2
<1>14. ASSUME NEW d \in StdDecks, s = [RemFromDynRow(r) EXCEPT !.did = d] PROVE Sound(s)
  <2> DEFINE m == RemFromDynRow(r)
  <2>1. RowOK(s)
    BY <1>1, <1>14, ChangeDeckRowOK
  <2>2. Sound(m)
    BY SoundEmptied
  <2>3. s = [m EXCEPT !.did = d]
    BY <1>14
  <2> HIDE DEF m
  <2>4. s.queue = m.queue /\ s.type = m.type
    BY <2>2, <2>3 DEF Sound, RowOK, Rows
  <2> QED BY <2>1, <2>2, <2>4 DEF Sound
<1>15. ASSUME NEW d \in StdDecks, UndoableMoves, s = [r EXCEPT !.did = d] PROVE Sound(s)
  <2>1. RemFromDynRow(r) = r
    BY <1>1, <1>15 DEF RemFromDynRow, Housed, Plain
  <2> QED BY <1>14, <1>15, <2>1
<1> QED BY <1>2, <1>3, <1>4, <1>5, <1>6, <1>7, <1>8, <1>9, <1>10, <1>11, <1>12, <1>13,
           <1>14, <1>15
        DEF Writes, Plain

LEMMA SoundStays ==
    ASSUME Plain, UndoIInv, SoundInv, NEW c \in Cards, RowFollows(c)
    PROVE  Sound(rows'[c])
<1>1. PICK m, x :
        /\ \/ m = rows[c]
           \/ \E i \in DOMAIN undos : c \in DOMAIN undos[i].rows /\ m = undos[i].rows[c]
        /\ Writes(m, x, today)
        /\ Writes(x, rows'[c], today)
  BY DEF RowFollows
<1>2. Sound(m)
  BY <1>1 DEF SoundInv
<1>3. Sound(x)
  BY <1>1, <1>2, SoundWritten DEF UndoIInv
<1> QED BY <1>1, <1>3, SoundWritten DEF UndoIInv

LEMMA StepSoundInv ==
    ASSUME Plain, UndoIInv, SoundInv, [UndoNext]_undoVars
    PROVE  SoundInv'
<1>1. RowsFollow /\ UndosFollow
  BY StepFollows
<1>2. \A c \in Cards : Sound(rows'[c])
  BY <1>1, SoundStays DEF RowsFollow
<1>3. ASSUME NEW e, FreshEntry(e), NEW c \in DOMAIN e.rows PROVE Sound(e.rows[c])
  BY <1>3, SoundEmptied DEF FreshEntry, SoundInv
<1>4. ASSUME NEW i \in DOMAIN undos', NEW c \in DOMAIN undos'[i].rows
      PROVE  Sound(undos'[i].rows[c])
  <2>1. CASE FreshEntry(undos'[i])
    BY <1>3, <2>1
  <2>2. CASE \E j \in DOMAIN undos : undos'[i] = undos[j]
    BY <2>2 DEF SoundInv
  <2> QED BY <1>1, <2>1, <2>2 DEF UndosFollow
<1> QED BY <1>2, <1>4 DEF SoundInv

LEMMA InitSoundInv == UndoInit => SoundInv
<1> SUFFICES ASSUME UndoInit PROVE SoundInv
  OBVIOUS
<1>1. ASSUME NEW c \in Cards PROVE Sound(rows[c])
  <2>1. PICK d \in StdDecks : rows[c] = NewRow(d)
    BY DEF UndoInit, Init
  <2>2. RowOK(rows[c]) /\ rows[c].queue = QueueNew
    BY <2>1, NewRowOK DEF NewRow
  <2> QED BY <2>2 DEF Sound
<1>2. undos = <<>>
  BY DEF UndoInit
<1> QED BY <1>1, <1>2 DEF SoundInv

LEMMA AlwaysSoundInv == Plain => (UndoSpec => [](UndoIInv /\ SoundInv))
<1> SUFFICES ASSUME Plain PROVE UndoSpec => [](UndoIInv /\ SoundInv)
  OBVIOUS
<1>1. UndoInit => UndoIInv /\ SoundInv
  BY InitUndoIInv, InitSoundInv
<1>2. UndoIInv /\ SoundInv /\ [UndoNext]_undoVars => (UndoIInv /\ SoundInv)'
  BY StepUndoIInv, StepSoundInv
<1> QED BY <1>1, <1>2, PTL DEF UndoSpec

\* Neither undoing a review, which gives buried siblings the queue of their
\* type, nor writing old copies back takes a card out of the queue its type and
\* due date belong in: then the invariant of SchedV2Cards_proofs still holds.
THEOREM QueueIsRestorableUndone == Plain => (UndoSpec => []QueueIsRestorable)
<1> SUFFICES ASSUME Plain PROVE UndoSpec => []QueueIsRestorable
  OBVIOUS
<1>1. UndoIInv /\ SoundInv => QueueIsRestorable
  BY DEF SoundInv, Sound, QueueIsRestorable, RowOK, RowQueued
<1> QED BY <1>1, AlwaysSoundInv, PTL

-----------------------------------------------------------------------------
(* Undoing a review at once.                                               *)

\* A sibling is buried only as the new or due card that the options bury, and it
\* stays one while it is buried: days only go on.
DueBuried(r, t) ==
    r.queue = QueueSiblingBuried =>
        \/ r.type = TypeNew /\ BuryNew
        \/ r.type = TypeRev /\ BuryRev /\ r.due <= t

BuriedInv ==
    /\ \A c \in Cards : DueBuried(rows[c], today)
    /\ \A i \in DOMAIN undos : \A c \in DOMAIN undos[i].rows :
          DueBuried(undos[i].rows[c], today)

LEMMA DueBuriedLater ==
    ASSUME NEW r \in Rows, NEW t \in Int, NEW later \in Int, t <= later, DueBuried(r, t)
    PROVE  DueBuried(r, later)
BY DEF DueBuried, Rows, Dues

LEMMA DueBuriedWritten ==
    ASSUME Plain, FilteredDecks = {}, NEW r, Sound(r), NEW t \in FirstDay..MaxDay,
           DueBuried(r, t), NEW s, Writes(r, s, t)
    PROVE  DueBuried(s, t)
<1>1. RowOK(r) /\ r \in Rows /\ Housed(r) /\ ~Previewing(r) /\ ~InDynamicDeck(r)
  BY SoundHoused DEF Sound, Plain, Previewing
<1>2. RemFromDynRow(r) = r
  BY <1>1 DEF RemFromDynRow
<1>3. ASSUME NEW ease \in Ease, s \in AnswerRows(r, ease, t) PROVE DueBuried(s, t)
  BY <1>1, <1>3, AnsweredUnburied DEF DueBuried
<1>4. CASE SiblingToBury(r, t) /\ s = HoldRow(r, QueueSiblingBuried)
  <2>1. s.type = r.type /\ s.due = r.due
    BY <1>1, <1>4 DEF HoldRow, Rows
  <2>2. r.queue \in {QueueNew, QueueRev} /\ r.queue = RestoreQueue(r)
    BY <1>1, <1>4 DEF SiblingToBury, RowOK, RowQueued
  <2>3. r.type = r.queue
    BY <2>2 DEF RestoreQueue
  <2> QED BY <1>4, <2>1, <2>3 DEF DueBuried, SiblingToBury
<1>5. ASSUME NEW q, q # QueueSiblingBuried, s = [r EXCEPT !.queue = q] PROVE DueBuried(s, t)
  BY <1>1, <1>5 DEF DueBuried, Rows
<1>6. RestoreQueue(r) # QueueSiblingBuried /\ r.type # QueueSiblingBuried
  BY <1>1 DEF RestoreQueue, Rows
<1>7. ASSUME NEW pos \in 1..MaxPos, s = ForgetRow(r, pos) PROVE DueBuried(s, t)
  BY <1>1, <1>2, <1>7 DEF ForgetRow, DueBuried, Rows
<1>8. ASSUME NEW pos \in 1..MaxPos, s = PlaceRow(r, pos) PROVE DueBuried(s, t)
  BY <1>1, <1>8 DEF PlaceRow, DueBuried, Rows
<1>9. ASSUME NEW d, r.queue = QueueNew, s = [r EXCEPT !.due = d] PROVE DueBuried(s, t)
  BY <1>1, <1>9 DEF DueBuried, Rows
<1>10. ASSUME NEW days, s = ReschedRow(r, days, t) PROVE DueBuried(s, t)
  BY <1>1, <1>2, <1>10 DEF ReschedRow, DueBuried, Rows
<1>11. ASSUME NEW d, s = [r EXCEPT !.did = d] PROVE DueBuried(s, t)
  BY <1>1, <1>11 DEF DueBuried, Rows
<1>12. /\ \A q : HoldRow(r, q) = [r EXCEPT !.queue = q]
       /\ RestoreRow(r) = [r EXCEPT !.queue = RestoreQueue(r)]
       /\ RestoreRowByType(r) = [r EXCEPT !.queue = r.type]
  BY DEF HoldRow, RestoreRow, RestoreRowByType
<1> QED BY <1>1, <1>2, <1>3, <1>4, <1>5, <1>6, <1>7, <1>8, <1>9, <1>10, <1>11, <1>12 DEF Writes

LEMMA StepBuriedInv ==
    ASSUME Plain, FilteredDecks = {}, UndoIInv, SoundInv, BuriedInv, [UndoNext]_undoVars
    PROVE  BuriedInv'
<1>1. RowsFollow /\ UndosFollow
  BY StepFollows
<1>2. today \in FirstDay..MaxDay /\ today' \in Int /\ today <= today'
  <2>1. ASSUME RolloverCounts PROVE today' \in Int /\ today <= today'
    BY <2>1, BoundsAssumption, CardsAssumption
       DEF RolloverCounts, Rollover, NewDay, UndoIInv
  <2>2. today \in FirstDay..MaxDay /\ today \in Int
    BY BoundsAssumption, CardsAssumption DEF UndoIInv
  <2>3. ~RolloverCounts => today' = today
    BY DEF UndoNext, undoVars, AnswerCard, Answer, Dismiss, DismissFails,
       SuspendCardMulti, SuspendCards, UnsuspendCards, EditCards, ChangeDeckMulti,
       ChangeDeck, Undo, ClearUndo, WithoutUndo, Filter, RebuildDyn, EmptyDyn,
       BurySiblings, UnburyCardsForDeck, SortDeck
  <2> QED BY <2>1, <2>2, <2>3
<1>3. ASSUME NEW c \in Cards PROVE DueBuried(rows'[c], today')
  <2>1. PICK m, x :
          /\ \/ m = rows[c]
             \/ \E i \in DOMAIN undos : c \in DOMAIN undos[i].rows /\ m = undos[i].rows[c]
          /\ Writes(m, x, today)
          /\ Writes(x, rows'[c], today)
    BY <1>1 DEF RowsFollow, RowFollows
  <2>2. Sound(m) /\ DueBuried(m, today)
    BY <2>1 DEF SoundInv, BuriedInv
  <2>3. Sound(x) /\ DueBuried(x, today)
    BY <1>2, <2>1, <2>2, SoundWritten, DueBuriedWritten
  <2>4. Sound(rows'[c]) /\ DueBuried(rows'[c], today)
    BY <1>2, <2>1, <2>3, SoundWritten, DueBuriedWritten
  <2> QED BY <1>2, <2>4, DueBuriedLater, SoundHoused DEF Sound
<1>4. ASSUME NEW r, Sound(r), DueBuried(r, today) PROVE DueBuried(r, today')
  BY <1>2, <1>4, DueBuriedLater, SoundHoused DEF Sound
<1>5. ASSUME NEW e, FreshEntry(e), NEW c \in DOMAIN e.rows PROVE DueBuried(e.rows[c], today')
  <2>1. c \in Cards /\ Sound(rows[c]) /\ DueBuried(rows[c], today)
    BY <1>5 DEF FreshEntry, SoundInv, BuriedInv
  <2>2. RemFromDynRow(rows[c]) = rows[c]
    BY <2>1, SoundHoused DEF RemFromDynRow, Sound
  <2> QED BY <1>4, <1>5, <2>1, <2>2 DEF FreshEntry
<1>6. ASSUME NEW i \in DOMAIN undos', NEW c \in DOMAIN undos'[i].rows
      PROVE  DueBuried(undos'[i].rows[c], today')
  <2>1. CASE FreshEntry(undos'[i])
    BY <1>5, <2>1
  <2>2. CASE \E j \in DOMAIN undos : undos'[i] = undos[j]
    BY <1>4, <2>2 DEF SoundInv, BuriedInv
  <2> QED BY <1>1, <2>1, <2>2 DEF UndosFollow
<1> QED BY <1>3, <1>6 DEF BuriedInv

\* The entry of a review is the one its undo pops, whatever the list held.
LEMMA MarkedLast ==
    ASSUME Listed(undos), NEW e, MarkUndo(e)
    PROVE  Last(undos') = e /\ undos' # <<>>
<1> DEFINE marked == Append(undos, e)
           n == Len(undos)
<1>1. /\ Listed(marked) /\ n \in Nat
      /\ Len(marked) = n + 1 /\ DOMAIN marked = 1..(n + 1)
      /\ marked[n + 1] = e
  BY AppendListed
<1>2. undos' = IF Len(marked) > UndoSizeMax THEN Tail(marked) ELSE marked
  BY DEF MarkUndo
<1> HIDE DEF marked, n
<1>3. marked # <<>>
  BY <1>1
<1>4. CASE undos' = marked
  BY <1>1, <1>3, <1>4 DEF Last
<1>5. CASE undos' = Tail(marked) /\ Len(marked) > UndoSizeMax
  <2>1. n > 0
    BY <1>1, <1>5, UndoAssumption
  <2>2. /\ Len(Tail(marked)) = n
        /\ \A i \in 1..n : Tail(marked)[i] = marked[i + 1]
    BY <1>1, <1>3, TailListed
  <2>3. Tail(marked)[n] = e
    BY <1>1, <2>1, <2>2
  <2>4. Len(undos') = n /\ undos'[n] = e
    BY <1>5, <2>2, <2>3
  <2>5. undos' # <<>>
    BY <2>1, <2>4
  <2> QED BY <2>4, <2>5 DEF Last
<1> QED BY <1>2, <1>4, <1>5

LEMMA ReviewRestored ==
    ASSUME Plain, UndoIInv, SoundInv, BuriedInv,
           NEW c \in Cards, NEW ease \in Ease, AnswerCard(c, ease)
    PROVE  ReviewUndone(rows', Last(undos')) = SiblingsBuried(rows, c)
<1> DEFINE e == ReviewEntry(c)
           b == SiblingsBuried(rows, c)
           restored ==
               [k \in Cards |->
                   IF k \in Siblings(c) /\ rows'[k].queue = QueueSiblingBuried
                   THEN RestoreRowByType(rows'[k])
                   ELSE rows'[k]]
           table == [restored EXCEPT ![c] = rows[c]]
<1>1. e.card = c /\ e.rows[c] = rows[c]
  <2>1. e.card = c /\ e.rows = [k \in {c} |-> rows[k]]
    BY ReviewEntryFields
  <2> QED BY <2>1
<1>2. Last(undos') = e
  BY MarkedLast DEF AnswerCard, UndoIInv
<1>3. ReviewUndone(rows', e) = SiblingsBuried(table, c)
  BY <1>1 DEF ReviewUndone
<1>4. PICK answered : rows' = [b EXCEPT ![c] = answered]
  BY DEF AnswerCard, Answer
<1>5. c \notin Siblings(c)
  BY DEF Siblings
<1> HIDE DEF e
<1>6. ASSUME NEW k \in Cards PROVE SiblingsBuried(table, c)[k] = b[k]
  <2>1. CASE k = c
    BY <1>5, <2>1 DEF SiblingsBuried
  <2>2. CASE k # c /\ k \notin Siblings(c)
    BY <1>4, <2>2 DEF SiblingsBuried
  <2>3. CASE k \in Siblings(c)
    <3>1. k # c /\ rows'[k] = b[k]
      BY <1>4, <1>5, <2>3 DEF SiblingsBuried
    <3> DEFINE r == rows[k]
               x == table[k]
    <3>2. x = IF b[k].queue = QueueSiblingBuried THEN RestoreRowByType(b[k]) ELSE b[k]
      BY <2>3, <3>1
    <3>3. b[k] = IF SiblingToBury(r, today) THEN HoldRow(r, QueueSiblingBuried) ELSE r
      BY <2>3 DEF SiblingsBuried
    <3>4. SiblingsBuried(table, c)[k] =
             IF SiblingToBury(x, today) THEN HoldRow(x, QueueSiblingBuried) ELSE x
      BY <2>3 DEF SiblingsBuried
    <3>5. r \in Rows /\ Sound(r) /\ DueBuried(r, today)
      BY DEF UndoIInv, SoundInv, BuriedInv
    <3> HIDE DEF r, x, b, table
    <3>6. CASE ~SiblingToBury(r, today) /\ r.queue # QueueSiblingBuried
      BY <3>2, <3>3, <3>4, <3>6
    <3>7. CASE SiblingToBury(r, today) \/ r.queue = QueueSiblingBuried
      <4>1. b[k] = [r EXCEPT !.queue = QueueSiblingBuried]
        BY <3>3, <3>5, <3>7 DEF HoldRow, SiblingToBury, Rows
      <4>2. x = [r EXCEPT !.queue = r.type]
        BY <3>2, <3>5, <4>1 DEF RestoreRowByType, Rows
      <4>3. \/ r.type = TypeNew /\ BuryNew
            \/ r.type = TypeRev /\ BuryRev /\ r.due <= today
        <5>1. CASE r.queue = QueueSiblingBuried
          BY <3>5, <5>1 DEF DueBuried
        <5>2. CASE SiblingToBury(r, today)
          <6>1. r.queue = RestoreQueue(r) /\ r.queue \in {QueueNew, QueueRev}
            BY <3>5, <5>2 DEF Sound, RowOK, RowQueued, SiblingToBury, Plain, Previewing
          <6>2. r.type = r.queue
            BY <6>1 DEF RestoreQueue
          <6> QED BY <5>2, <6>2 DEF SiblingToBury
        <5> QED BY <3>7, <5>1, <5>2
      <4>4. SiblingToBury(x, today)
        BY <3>5, <4>2, <4>3 DEF SiblingToBury, Rows
      <4>5. HoldRow(x, QueueSiblingBuried) = b[k]
        BY <3>5, <4>1, <4>2 DEF HoldRow, Rows
      <4> QED BY <3>4, <4>4, <4>5
    <3> QED BY <3>6, <3>7
  <2> QED BY <2>1, <2>2, <2>3
<1>7. SiblingsBuried(table, c) = [k \in Cards |-> SiblingsBuried(table, c)[k]]
      /\ b = [k \in Cards |-> b[k]]
  BY DEF SiblingsBuried
<1> HIDE DEF b, table
<1>8. SiblingsBuried(table, c) = b
  BY <1>6, <1>7
<1> QED BY <1>2, <1>3, <1>8 DEF b

LEMMA AlwaysBuriedInv ==
    ASSUME Plain, FilteredDecks = {}
    PROVE  UndoSpec => [](UndoIInv /\ SoundInv /\ BuriedInv)
<1>1. UndoInit => UndoIInv /\ SoundInv /\ BuriedInv
  <2> SUFFICES ASSUME UndoInit PROVE UndoIInv /\ SoundInv /\ BuriedInv
    OBVIOUS
  <2>1. UndoIInv /\ SoundInv
    BY InitUndoIInv, InitSoundInv
  <2>2. \A c \in Cards : DueBuried(rows[c], today)
    BY DEF UndoInit, Init, NewRow, DueBuried
  <2>3. undos = <<>>
    BY DEF UndoInit
  <2> QED BY <2>1, <2>2, <2>3 DEF BuriedInv
<1>2. UndoIInv /\ SoundInv /\ BuriedInv /\ [UndoNext]_undoVars
         => (UndoIInv /\ SoundInv /\ BuriedInv)'
  BY StepUndoIInv, StepSoundInv, StepBuriedInv
<1> QED BY <1>1, <1>2, PTL DEF UndoSpec

\* A review undone at once leaves no trace in the table, whatever was undone
\* before it: undoReview gives every buried sibling the queue of its type,
\* whoever buried it, and showing the card again buries exactly the same ones.
\* Where there are filtered decks this is false: emptying one may leave a
\* buried sibling with a day that has not come.
THEOREM UndoRestoresTableHolds ==
    Plain /\ FilteredDecks = {} => (UndoSpec => UndoRestoresTable)
<1> SUFFICES ASSUME Plain, FilteredDecks = {} PROVE UndoSpec => UndoRestoresTable
  OBVIOUS
<1> DEFINE Restored ==
        \A c \in Cards : \A ease \in Ease :
            AnswerCard(c, ease) => ReviewUndone(rows', Last(undos')) = SiblingsBuried(rows, c)
<1>1. UndoIInv /\ SoundInv /\ BuriedInv => Restored
  BY ReviewRestored
<1>2. UndoRestoresTable <=> [][Restored]_undoVars
  BY PTL DEF UndoRestoresTable
<1> HIDE DEF Restored
<1>3. UndoIInv /\ SoundInv /\ BuriedInv /\ [UndoNext]_undoVars => [Restored]_undoVars
  BY <1>1
<1> QED BY <1>2, <1>3, AlwaysBuriedInv, PTL DEF UndoSpec

-----------------------------------------------------------------------------
(* The daily counts, along the reviews of the list.                        *)

StatsOf(n, did, type, k) ==
    IF did \in StdDecks THEN [n EXCEPT ![did][type] = @ + k] ELSE n

\* The counts once the review of entry e was made.
After(e) ==
    LET r == e.rows[e.card]
    IN  CASE r.queue = QueueNew -> StatsOf(e.counts, r.did, "new", 1)
          [] r.queue = QueueRev -> StatsOf(e.counts, r.did, "rev", 1)
          [] OTHER -> e.counts

\* Each review of day t in the list s was made on the counts the one before it
\* left, and `now` is what the last one left.  Reviews of earlier days, which
\* the rollover has taken off the counts, all come first.
Chain(s, t, now) ==
    /\ \A i \in DOMAIN s : s[i].type = "review" =>
          /\ s[i].day \in Int /\ s[i].day <= t
          /\ s[i].counts \in [StdDecks -> [new: Int, rev: Int]]
    /\ \A i, j \in DOMAIN s :
          i < j /\ s[i].type = "review" /\ s[j].type = "review" => s[i].day <= s[j].day
    /\ \A i, j \in DOMAIN s :
          /\ i < j /\ s[i].type = "review" /\ s[j].type = "review" /\ s[i].day = t
          /\ \A k \in DOMAIN s : i < k /\ k < j => s[k].type # "review"
          => s[j].counts = After(s[i])
    /\ \A i \in DOMAIN s :
          /\ s[i].type = "review" /\ s[i].day = t
          /\ \A k \in DOMAIN s : i < k => s[k].type # "review"
          => now = After(s[i])

ChainInv == Chain(undos, today, counts)

LEMMA StatsUndone ==
    ASSUME NEW n \in [StdDecks -> [new: Int, rev: Int]], NEW did
    PROVE  /\ StatsOf(StatsOf(n, did, "new", 1), did, "new", -1) = n
           /\ StatsOf(StatsOf(n, did, "rev", 1), did, "rev", -1) = n
<1>1. CASE did \notin StdDecks
  BY <1>1 DEF StatsOf
<1>2. CASE did \in StdDecks
  <2> DEFINE r == n[did]
             rn == [r EXCEPT !.new = r.new + 1]
             rr == [r EXCEPT !.rev = r.rev + 1]
  <2>1. r \in [new: Int, rev: Int]
    BY <1>2
  <2>2. /\ StatsOf(n, did, "new", 1) = [n EXCEPT ![did] = rn]
        /\ StatsOf(n, did, "rev", 1) = [n EXCEPT ![did] = rr]
    BY <1>2 DEF StatsOf
  <2>3. n = [n EXCEPT ![did] = r]
    BY <1>2
  <2> HIDE DEF r
  <2>4. /\ rn \in [new: Int, rev: Int] /\ rr \in [new: Int, rev: Int]
        /\ [rn EXCEPT !.new = rn.new + (-1)] = r
        /\ [rr EXCEPT !.rev = rr.rev + (-1)] = r
    <3>1. rn = [new |-> r.new + 1, rev |-> r.rev] /\ rr = [new |-> r.new, rev |-> r.rev + 1]
      BY <2>1
    <3>2. rn \in [new: Int, rev: Int] /\ rr \in [new: Int, rev: Int]
      BY <2>1
    <3>3. /\ rn.new + (-1) = r.new /\ rn.rev = r.rev
          /\ rr.rev + (-1) = r.rev /\ rr.new = r.new
      BY <2>1
    <3>4. r = [new |-> r.new, rev |-> r.rev]
      BY <2>1
    <3> HIDE DEF rn, rr
    <3>5. /\ [rn EXCEPT !.new = rn.new + (-1)] = [new |-> rn.new + (-1), rev |-> rn.rev]
          /\ [rr EXCEPT !.rev = rr.rev + (-1)] = [new |-> rr.new, rev |-> rr.rev + (-1)]
      BY <3>2
    <3> QED BY <3>2, <3>3, <3>4, <3>5
  <2> HIDE DEF rn, rr
  <2>5. ASSUME NEW x \in [new: Int, rev: Int]
        PROVE  LET m == [n EXCEPT ![did] = x]
               IN  /\ StatsOf(m, did, "new", -1)
                         = [n EXCEPT ![did] = [x EXCEPT !.new = x.new + (-1)]]
                   /\ StatsOf(m, did, "rev", -1)
                         = [n EXCEPT ![did] = [x EXCEPT !.rev = x.rev + (-1)]]
    BY <1>2, <2>5 DEF StatsOf
  <2> QED BY <2>2, <2>3, <2>4, <2>5
<1> QED BY <1>1, <1>2

LEMMA UpdateStatsOf ==
    ASSUME NEW did, NEW type, NEW k
    PROVE  UpdateStats(did, type, k) = StatsOf(counts, did, type, k)
BY DEF UpdateStats, StatsOf

\* Undoing a review takes it off the counts it left.
LEMMA AfterUndone ==
    ASSUME NEW e, e.counts \in [StdDecks -> [new: Int, rev: Int]], counts = After(e)
    PROVE  CountsUndone(e.rows[e.card]) = e.counts
BY StatsUndone, UpdateStatsOf DEF After, CountsUndone

\* Answering counts where the card was, for no answer moves a card that is in
\* no filtered deck.
LEMMA CountedAfter ==
    ASSUME NEW before, NEW after, ~Previewing(before), after.did = before.did,
           NEW e, e.rows[e.card] = before, e.counts = counts
    PROVE  CountedAnswer(before, after) = After(e)
BY UpdateStatsOf DEF CountedAnswer, After

LEMMA ChainAppended ==
    ASSUME NEW s, NEW n \in Nat, DOMAIN s = 1..n, NEW t \in Int, NEW now, Chain(s, t, now),
           NEW w, DOMAIN w = 1..(n + 1), \A i \in 1..n : w[i] = s[i],
           w[n + 1].type = "review" =>
              /\ w[n + 1].day = t /\ w[n + 1].counts = now
              /\ now \in [StdDecks -> [new: Int, rev: Int]]
    PROVE  Chain(w, t, IF w[n + 1].type = "review" THEN After(w[n + 1]) ELSE now)
<1>1. \A i \in 1..(n + 1) : i = n + 1 \/ i \in 1..n
  OBVIOUS
<1>2. \A i \in DOMAIN w : w[i].type = "review" =>
          /\ w[i].day \in Int /\ w[i].day <= t
          /\ w[i].counts \in [StdDecks -> [new: Int, rev: Int]]
  BY <1>1 DEF Chain
<1>3. \A i, j \in DOMAIN w :
          i < j /\ w[i].type = "review" /\ w[j].type = "review" => w[i].day <= w[j].day
  <2> TAKE i, j \in DOMAIN w
  <2> HAVE i < j /\ w[i].type = "review" /\ w[j].type = "review"
  <2>1. i \in 1..n /\ (j = n + 1 \/ j \in 1..n)
    OBVIOUS
  <2>2. CASE j = n + 1
    BY <1>2, <2>2
  <2>3. CASE j \in 1..n
    BY <2>1, <2>3 DEF Chain
  <2> QED BY <2>1, <2>2, <2>3
<1>4. \A i, j \in DOMAIN w :
          /\ i < j /\ w[i].type = "review" /\ w[j].type = "review" /\ w[i].day = t
          /\ \A k \in DOMAIN w : i < k /\ k < j => w[k].type # "review"
          => w[j].counts = After(w[i])
  <2> TAKE i, j \in DOMAIN w
  <2> HAVE /\ i < j /\ w[i].type = "review" /\ w[j].type = "review" /\ w[i].day = t
           /\ \A k \in DOMAIN w : i < k /\ k < j => w[k].type # "review"
  <2>1. i \in 1..n /\ (j = n + 1 \/ j \in 1..n) /\ w[i] = s[i]
    OBVIOUS
  <2>2. CASE j = n + 1
    <3>1. \A k \in DOMAIN s : i < k => s[k].type # "review"
      BY <2>2
    <3> QED BY <2>1, <2>2, <3>1 DEF Chain
  <2>3. CASE j \in 1..n
    <3>1. \A k \in DOMAIN s : i < k /\ k < j => s[k].type # "review"
      OBVIOUS
    <3> QED BY <2>1, <2>3, <3>1 DEF Chain
  <2> QED BY <2>1, <2>2, <2>3
<1>5. ASSUME NEW i \in DOMAIN w, w[i].type = "review", w[i].day = t,
             \A k \in DOMAIN w : i < k => w[k].type # "review"
      PROVE  (IF w[n + 1].type = "review" THEN After(w[n + 1]) ELSE now) = After(w[i])
  <2>1. CASE i = n + 1
    BY <1>5, <2>1
  <2>2. CASE i \in 1..n
    <3>1. w[n + 1].type # "review"
      BY <1>5, <2>2
    <3>2. w[i] = s[i] /\ \A k \in DOMAIN s : i < k => s[k].type # "review"
      BY <1>5, <2>2
    <3> QED BY <1>5, <2>2, <3>1, <3>2 DEF Chain
  <2> QED BY <1>1, <2>1, <2>2
<1> DEFINE next == IF w[n + 1].type = "review" THEN After(w[n + 1]) ELSE now
<1>6. Chain(w, t, next)
  <2> HIDE DEF next
  <2>1. \A i \in DOMAIN w :
          /\ w[i].type = "review" /\ w[i].day = t
          /\ \A k \in DOMAIN w : i < k => w[k].type # "review"
          => next = After(w[i])
    BY <1>5 DEF next
  <2> QED BY <1>2, <1>3, <1>4, <2>1 DEF Chain
<1> QED BY <1>6

LEMMA ChainDropped ==
    ASSUME NEW s, NEW n \in Nat, DOMAIN s = 1..(n + 1), NEW t, NEW now, Chain(s, t, now),
           NEW w, DOMAIN w = 1..n, \A i \in 1..n : w[i] = s[i + 1]
    PROVE  Chain(w, t, now)
<1>1. ASSUME NEW i \in 1..n PROVE i + 1 \in DOMAIN s /\ w[i] = s[i + 1]
  OBVIOUS
<1>2. ASSUME NEW k \in DOMAIN s, NEW i \in 1..n, i + 1 < k
      PROVE  k - 1 \in DOMAIN w /\ i < k - 1 /\ s[k] = w[k - 1]
  <2>1. k - 1 \in 1..n /\ k = (k - 1) + 1
    BY <1>2
  <2> QED BY <1>2, <2>1
<1>3. /\ \A i \in DOMAIN w : w[i].type = "review" =>
          /\ w[i].day \in Int /\ w[i].day <= t
          /\ w[i].counts \in [StdDecks -> [new: Int, rev: Int]]
      /\ \A i, j \in DOMAIN w :
          i < j /\ w[i].type = "review" /\ w[j].type = "review" => w[i].day <= w[j].day
  <2>1. \A i, j \in 1..n : i < j => i + 1 < j + 1
    OBVIOUS
  <2> QED BY <1>1, <2>1 DEF Chain
<1>4. ASSUME NEW i \in DOMAIN w, NEW j \in DOMAIN w, i < j,
             w[i].type = "review", w[j].type = "review", w[i].day = t,
             \A k \in DOMAIN w : i < k /\ k < j => w[k].type # "review"
      PROVE  w[j].counts = After(w[i])
  <2>1. \A k \in DOMAIN s : i + 1 < k /\ k < j + 1 => s[k].type # "review"
    BY <1>2, <1>4
  <2>2. i + 1 < j + 1
    BY <1>4
  <2> QED BY <1>1, <1>4, <2>1, <2>2 DEF Chain
<1>5. ASSUME NEW i \in DOMAIN w, w[i].type = "review", w[i].day = t,
             \A k \in DOMAIN w : i < k => w[k].type # "review"
      PROVE  now = After(w[i])
  <2>1. \A k \in DOMAIN s : i + 1 < k => s[k].type # "review"
    BY <1>2, <1>5
  <2> QED BY <1>1, <1>5, <2>1 DEF Chain
<1> QED BY <1>3, <1>4, <1>5 DEF Chain

\* The last entry is popped; if it is a review of day t, the counts go back to
\* what they were before it.
LEMMA ChainPopped ==
    ASSUME NEW s, NEW n \in Nat \ {0}, DOMAIN s = 1..n, NEW t \in Int, NEW now, Chain(s, t, now),
           NEW w, DOMAIN w = 1..(n - 1), \A i \in 1..(n - 1) : w[i] = s[i],
           NEW next,
           s[n].type # "review" => next = now,
           s[n].type = "review" /\ s[n].day = t => next = s[n].counts
    PROVE  Chain(w, t, next)
<1>1. ASSUME NEW i \in 1..(n - 1) PROVE i \in DOMAIN s /\ w[i] = s[i] /\ i < n
  OBVIOUS
<1>2. /\ \A i \in DOMAIN w : w[i].type = "review" =>
          /\ w[i].day \in Int /\ w[i].day <= t
          /\ w[i].counts \in [StdDecks -> [new: Int, rev: Int]]
      /\ \A i, j \in DOMAIN w :
          i < j /\ w[i].type = "review" /\ w[j].type = "review" => w[i].day <= w[j].day
  BY <1>1 DEF Chain
<1>3. ASSUME NEW i \in DOMAIN w, NEW j \in DOMAIN w, i < j,
             w[i].type = "review", w[j].type = "review", w[i].day = t,
             \A k \in DOMAIN w : i < k /\ k < j => w[k].type # "review"
      PROVE  w[j].counts = After(w[i])
  <2>1. \A k \in DOMAIN s : i < k /\ k < j => s[k].type # "review"
    BY <1>3
  <2> QED BY <1>1, <1>3, <2>1 DEF Chain
<1>4. ASSUME NEW i \in DOMAIN w, w[i].type = "review", w[i].day = t,
             \A k \in DOMAIN w : i < k => w[k].type # "review"
      PROVE  next = After(w[i])
  <2>1. \A k \in DOMAIN s : i < k /\ k < n => s[k].type # "review"
    BY <1>4
  <2>2. CASE s[n].type # "review"
    <3>1. \A k \in DOMAIN s : i < k => s[k].type # "review"
      BY <2>1, <2>2
    <3> QED BY <1>1, <1>4, <2>2, <3>1 DEF Chain
  <2>3. CASE s[n].type = "review"
    <3>1. n \in DOMAIN s /\ s[i].day <= s[n].day /\ s[n].day <= t /\ s[n].day \in Int
      BY <1>1, <1>4, <2>3 DEF Chain
    <3>2. s[n].day = t
      BY <1>1, <1>4, <3>1
    <3>3. s[n].counts = After(s[i])
      BY <1>1, <1>4, <2>1, <2>3, <3>1 DEF Chain
    <3> QED BY <1>1, <2>3, <3>2, <3>3
  <2> QED BY <2>2, <2>3
<1> QED BY <1>2, <1>3, <1>4 DEF Chain

LEMMA ChainLater ==
    ASSUME NEW s, NEW t \in Int, NEW now, Chain(s, t, now), NEW later \in Int, t < later, NEW next
    PROVE  Chain(s, later, next)
BY DEF Chain

\* An entry joins the list; the oldest may have to leave it.
LEMMA MarkedChain ==
    ASSUME UndoIInv, ChainInv, UNCHANGED today, NEW e, MarkUndo(e),
           IF e.type = "review"
           THEN e.day = today /\ e.counts = counts /\ counts' = After(e)
           ELSE counts' = counts
    PROVE  ChainInv'
<1> DEFINE marked == Append(undos, e)
           n == Len(undos)
<1>1. /\ Listed(marked) /\ n \in Nat /\ DOMAIN undos = 1..n
      /\ Len(marked) = n + 1 /\ DOMAIN marked = 1..(n + 1)
      /\ \A i \in 1..n : marked[i] = undos[i]
      /\ marked[n + 1] = e
  BY AppendListed DEF UndoIInv
<1>2. undos' = IF Len(marked) > UndoSizeMax THEN Tail(marked) ELSE marked
  BY DEF MarkUndo
<1>3. today \in Int
  BY CardsAssumption, BoundsAssumption DEF UndoIInv
<1> HIDE DEF marked, n
<1>4. Chain(marked, today, counts')
  <2> DEFINE next == IF marked[n + 1].type = "review" THEN After(marked[n + 1]) ELSE counts
  <2>1. Chain(marked, today, next)
    <3> HIDE DEF next
    <3>1. marked[n + 1].type = "review" =>
             /\ marked[n + 1].day = today /\ marked[n + 1].counts = counts
             /\ counts \in [StdDecks -> [new: Int, rev: Int]]
      BY <1>1 DEF UndoIInv
    <3>2. Chain(undos, today, counts)
      BY DEF ChainInv
    <3> QED BY <1>1, <1>3, <3>1, <3>2, ChainAppended DEF next
  <2>2. counts' = next
    BY <1>1
  <2> QED BY <2>1, <2>2
<1>5. CASE undos' = marked
  BY <1>4, <1>5 DEF ChainInv
<1>6. CASE undos' = Tail(marked)
  <2>1. marked # <<>>
    BY <1>1
  <2>2. /\ DOMAIN Tail(marked) = 1..n
        /\ \A i \in 1..n : Tail(marked)[i] = marked[i + 1]
    BY <1>1, <2>1, TailListed
  <2>3. Chain(Tail(marked), today, counts')
    BY <1>1, <1>4, <2>2, ChainDropped
  <2> QED BY <1>6, <2>3 DEF ChainInv
<1> QED BY <1>2, <1>5, <1>6

\* What the last entry, if it is a review of today, was made on.
LEMMA ReviewTakenOff ==
    ASSUME UndoIInv, ChainInv, undos # <<>>, Last(undos).type = "review",
           Last(undos).day = today, UndoReview(Last(undos))
    PROVE  counts' = Last(undos).counts
<1> DEFINE n == Len(undos)
           e == Last(undos)
<1>1. n \in Nat /\ n > 0 /\ DOMAIN undos = 1..n /\ Last(undos) = undos[n]
  BY FrontListed DEF UndoIInv
<1>2. n \in DOMAIN undos /\ \A k \in DOMAIN undos : ~(n < k)
  BY <1>1
<1>3. counts = After(e) /\ e.counts \in [StdDecks -> [new: Int, rev: Int]]
  BY <1>1, <1>2 DEF ChainInv, Chain
<1>4. counts' = CountsUndone(e.rows[e.card])
  BY DEF UndoReview
<1> QED BY <1>3, <1>4, AfterUndone

LEMMA UndoChain ==
    ASSUME UndoIInv, ChainInv, Undo
    PROVE  ChainInv'
<1> DEFINE n == Len(undos)
<1>1. undos # <<>> /\ undos' = Front(undos) /\ today' = today
  BY DEF Undo
<1>2. /\ n \in Nat /\ n > 0 /\ DOMAIN undos = 1..n
      /\ DOMAIN undos' = 1..(n - 1)
      /\ \A i \in 1..(n - 1) : undos'[i] = undos[i]
      /\ Last(undos) = undos[n]
  BY <1>1, FrontListed DEF UndoIInv
<1>3. /\ undos[n].type # "review" => counts' = counts
      /\ undos[n].type = "review" => UndoReview(Last(undos))
  BY <1>2 DEF Undo, UndoDismiss, UndoSuspendCardMulti, UndoEditCards, UndoChangeDeckMulti
<1>4. undos[n].type = "review" /\ undos[n].day = today => counts' = undos[n].counts
  BY <1>1, <1>2, <1>3, ReviewTakenOff
<1>5. today \in Int
  BY CardsAssumption, BoundsAssumption DEF UndoIInv
<1> HIDE DEF n
<1>6. Chain(undos', today, counts')
  BY <1>2, <1>3, <1>4, <1>5, ChainPopped DEF ChainInv
<1> QED BY <1>1, <1>6 DEF ChainInv

LEMMA AnswerCardChain ==
    ASSUME FilteredDecks = {}, UndoIInv, ChainInv,
           NEW c \in Cards, NEW ease \in Ease, AnswerCard(c, ease)
    PROVE  ChainInv'
<1> DEFINE e == ReviewEntry(c)
<1>1. e.type = "review" /\ e.rows[e.card] = rows[c] /\ e.counts = counts /\ e.day = today
  BY DEF ReviewEntry, ReviewOn
<1> HIDE DEF e
<1>2. Housed(rows[c]) /\ ~InDynamicDeck(rows[c]) /\ ~Previewing(rows[c])
      /\ today \in FirstDay..MaxDay
  BY DecksAssumption DEF UndoIInv, Housed, Previewing
<1>3. PICK answered \in AnswerRows(rows[c], ease, today) :
         rows' = [SiblingsBuried(rows, c) EXCEPT ![c] = answered]
  BY DEF AnswerCard, Answer
<1>4. rows'[c] = answered
  BY <1>3 DEF SiblingsBuried
<1>5. rows'[c].did = rows[c].did
  BY <1>2, <1>4, AnsweredUnburied DEF SameHome
<1>6. CountedAnswer(rows[c], rows'[c]) = After(e)
  BY <1>1, <1>2, <1>5, CountedAfter
<1>7. today' = today /\ MarkUndo(e) /\ counts' = After(e)
  BY <1>6 DEF AnswerCard, Answer, e
<1> QED BY <1>1, <1>7, MarkedChain

LEMMA StepChainInv ==
    ASSUME FilteredDecks = {}, UndoIInv, ChainInv, [UndoNext]_undoVars
    PROVE  ChainInv'
<1>1. ASSUME UNCHANGED <<undos, today, counts>> PROVE ChainInv'
  BY <1>1 DEF ChainInv
<1>2. ASSUME UNCHANGED <<today, counts>>, NEW type, type # "review", NEW card, NEW S, NEW table,
             MarkUndo(Entry(type, card, S, table))
      PROVE  ChainInv'
  <2> DEFINE e == Entry(type, card, S, table)
  <2>1. e.type # "review"
    BY <1>2 DEF Entry
  <2>2. MarkUndo(e)
    BY <1>2
  <2> HIDE DEF e
  <2> QED BY <1>2, <2>1, <2>2, MarkedChain
<1>3. ASSUME NEW c, Dismiss(c) \/ DismissFails(c) PROVE ChainInv'
  BY <1>2, <1>3 DEF Dismiss, DismissFails
<1>4. ASSUME NEW S, SuspendCardMulti(S) PROVE ChainInv'
  <2>1. UNCHANGED <<today, counts>>
    BY <1>4 DEF SuspendCardMulti, SuspendCards, UnsuspendCards
  <2> QED BY <1>2, <1>4, <2>1 DEF SuspendCardMulti
<1>5. ASSUME NEW S, EditCards(S) PROVE ChainInv'
  BY <1>1, <1>2, <1>5 DEF EditCards
<1>6. ASSUME NEW S, NEW d, ChangeDeckMulti(S, d) PROVE ChainInv'
  <2>1. UNCHANGED <<today, counts>>
    BY <1>6 DEF ChangeDeckMulti, ChangeDeck
  <2> QED BY <1>2, <1>6, <2>1 DEF ChangeDeckMulti
<1>7. CASE ClearUndo
  BY <1>7 DEF ClearUndo, ChainInv, Chain
<1>8. CASE WithoutUndo
  BY <1>1, <1>8
     DEF WithoutUndo, Filter, RebuildDyn, EmptyDyn, BurySiblings, UnburyCardsForDeck, SortDeck
<1>9. CASE RolloverCounts
  <2>1. undos' = undos /\ today \in Int /\ today' \in Int /\ today < today'
    BY <1>9, CardsAssumption, BoundsAssumption DEF RolloverCounts, Rollover, NewDay, UndoIInv
  <2> QED BY <2>1, ChainLater DEF ChainInv
<1> QED BY <1>1, <1>3, <1>4, <1>5, <1>6, <1>7, <1>8, <1>9, AnswerCardChain, UndoChain
        DEF UndoNext, undoVars

\* A review undone on its day leaves the daily counts of the ordinary decks as
\* they were before it, through whatever was answered, undone and cleared in
\* between: undoReview names the deck and the kind of count by the old row,
\* _answerCard a review's by the new one.  The two differ for a review in a
\* filtered deck, which an answer sends home.
THEOREM UndoneReviewIsNotCountedHolds ==
    FilteredDecks = {} => (UndoSpec => UndoneReviewIsNotCounted)
<1> SUFFICES ASSUME FilteredDecks = {} PROVE UndoSpec => UndoneReviewIsNotCounted
  OBVIOUS
<1> DEFINE TakenOff ==
        LET e == Last(undos)
        IN  Undo /\ e.type = "review" /\ UndoReview(e) /\ e.day = today
                => counts' = e.counts
<1>1. UndoInit => UndoIInv /\ ChainInv
  BY InitUndoIInv DEF UndoInit, ChainInv, Chain
<1>2. UndoIInv /\ ChainInv /\ [UndoNext]_undoVars => (UndoIInv /\ ChainInv)'
  BY StepUndoIInv, StepChainInv
<1>3. UndoIInv /\ ChainInv => TakenOff
  BY ReviewTakenOff DEF Undo
<1>4. UndoneReviewIsNotCounted <=> [][TakenOff]_undoVars
  BY PTL DEF UndoneReviewIsNotCounted
<1> HIDE DEF TakenOff
<1>5. UndoIInv /\ ChainInv /\ [UndoNext]_undoVars => [TakenOff]_undoVars
  BY <1>3
<1> QED BY <1>1, <1>2, <1>4, <1>5, PTL DEF UndoSpec

=============================================================================

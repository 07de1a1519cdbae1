--------------------------- MODULE CollectionUndo ---------------------------
(***************************************************************************)
(* The undo list of a collection, beside the table of cards.               *)
(*                                                                         *)
(* An operation that can be undone leaves an entry with copies of the rows *)
(* it was given; undo pops the last entry and writes back.  Rebuilding and *)
(* emptying filtered decks, unburying and the rollover leave no entry, so  *)
(* they run between an operation and its undo.  Undoing a review also      *)
(* deletes its log entry, restores siblings and takes the review off the   *)
(* daily count.                                                            *)
(***************************************************************************)
EXTENDS SchedV2Cards, SequencesExt

CONSTANTS
    NoCard,         \* no card to bring back: a bulk operation
    UndoSizeMax,    \* UNDO_SIZE_MAX
    UndoableMoves,  \* whether the browser's "Change Deck" is used
    MaxLog,         \* bound of the model on the reviews of a card
    MaxCount        \* bound of the model on the daily counts

ASSUME UndoAssumption ==
    /\ NoCard \notin Cards
    /\ UndoSizeMax \in Nat \ {0}
    /\ UndoableMoves \in BOOLEAN
    /\ MaxLog \in Nat /\ MaxCount \in Nat

VARIABLES
    undos,   \* mUndo, oldest first
    log,     \* the number of revlog entries of each card
    counts   \* newToday and revToday of each ordinary deck: nothing ever
             \* reads those of a filtered deck

undoVars == <<rows, today, undos, log, counts>>

-----------------------------------------------------------------------------
(* Marking.                                                                *)

\* `card` is the card an undo brings back to the reviewer.
Entry(type, card, S, table) ==
    [type |-> type, card |-> card, rows |-> [c \in S |-> table[c]]]

\* The entry of a review.  `counts` and `day` are not in the code: they record,
\* for a property, what the undo ought to bring back.
ReviewOn(c, table) ==
    [type |-> "review", card |-> c, rows |-> [k \in {c} |-> table[k]],
     counts |-> counts, day |-> today]

\* Slip: the card is copied after it has been answered.
ReviewEntryMarkedLate(c) == ReviewOn(c, rows')

\* markReview: a copy of the card from before the answer.
ReviewEntry(c) == ReviewOn(c, rows)

\* Slip: the size is compared before the entry is added.
MarkUndoTooLate(entry) ==
    undos' = Append(IF Len(undos) > UndoSizeMax THEN Tail(undos) ELSE undos, entry)

\* markUndo
MarkUndo(entry) ==
    LET marked == Append(undos, entry)
    IN  undos' = IF Len(marked) > UndoSizeMax THEN Tail(marked) ELSE marked

NoCounts == [d \in StdDecks |-> [new |-> 0, rev |-> 0]]

\* _updateStats
UpdateStats(did, type, n) ==
    IF did \in StdDecks THEN [counts EXCEPT ![did][type] = @ + n] ELSE counts

\* What answering adds to the daily counts: a new card counts where it is
\* studied, a review where the card is once answered.
CountedAnswer(before, after) ==
    CASE Previewing(before) -> counts
      [] before.queue = QueueNew -> UpdateStats(before.did, "new", 1)
      [] before.queue = QueueRev -> UpdateStats(after.did, "rev", 1)
      [] OTHER -> counts

-----------------------------------------------------------------------------
UndoInit ==
    /\ Init
    /\ undos = <<>>
    /\ log = [c \in Cards |-> 0]
    /\ counts = NoCounts

AnswerCard(c, ease) ==
    /\ Answer(c, ease)
    /\ MarkUndo(ReviewEntry(c))
    /\ log' = IF Previewing(rows[c]) THEN log ELSE [log EXCEPT ![c] = @ + 1]
    /\ log'[c] <= MaxLog
    /\ counts' = CountedAnswer(rows[c], rows'[c])
    /\ \A d \in StdDecks : counts'[d].new <= MaxCount /\ counts'[d].rev <= MaxCount

\* The next card, if the selected deck has one, is fetched and shown in the
\* same transaction (getCard), which buries its siblings.
NextShown(table) ==
    {table} \cup {SiblingsBuried(table, c) : c \in {k \in Cards : Fetchable(table[k], today)}}

\* DismissNote, on the card the reviewer shows.
Dismiss(c) ==
    LET note == Siblings(c) \cup {c}
        Held(S, q) == [k \in Cards |-> IF k \in S THEN HoldRow(rows[k], q) ELSE rows[k]]
    IN  /\ Fetchable(rows[c], today)
        /\ \/ /\ MarkUndo(Entry("dismiss", c, {c}, rows))
              /\ rows' \in NextShown(Held({c}, QueueSuspended))
           \/ /\ MarkUndo(Entry("dismiss", c, note, rows))
              /\ \/ rows' \in NextShown(Held(note, QueueSuspended))
                 \/ rows' \in NextShown(Held({c}, QueueManuallyBuried))
                 \/ rows' \in NextShown(Held({k \in note : rows[k].queue >= 0},
                                             QueueManuallyBuried))
        /\ UNCHANGED <<today, log, counts>>

\* The transaction is rolled back, by a database error; the entry stays.
DismissFails(c) ==
    /\ Fetchable(rows[c], today)
    /\ MarkUndo(Entry("dismiss", c, {c}, rows))
    /\ UNCHANGED <<rows, today, log, counts>>

\* SuspendCardMulti: all of them, or if all were suspended, none.
SuspendCardMulti(S) ==
    /\ IF \A c \in S : Suspended(rows[c]) THEN UnsuspendCards(S) ELSE SuspendCards(S)
    /\ MarkUndo(Entry("suspend", NoCard, S, rows))
    /\ UNCHANGED <<log, counts>>

\* RescheduleCards, RepositionCards, ResetCards.  Copying the cards may be
\* cancelled; the edit goes on, and leaves no entry.
EditCards(S) ==
    /\ \/ \E start \in 1..MaxPos : \E table \in Forgotten(S, start) :
              rows' \in NextShown(table)
       \/ /\ \A c \in S : rows[c].queue = QueueNew
          /\ \E start \in 1..MaxPos : \E place \in Placings(S, start) :
                LET next == start + Cardinality(Notes(S))
                IN  \E low \in Least(TakenFrom(S, start), next) :
                       rows' \in NextShown(Repositioned(S, next, place, low))
          /\ \A c \in Cards \ S : rows'[c].due <= MaxOf(MaxPos, rows[c].due)
       \/ \E days \in ReschedDays : rows' \in NextShown(Rescheduled(S, days))
    /\ \/ MarkUndo(Entry("edit", NoCard, S, rows))
       \/ UNCHANGED undos
    /\ UNCHANGED <<today, log, counts>>

\* ChangeDeckMulti: the decks to go back to are read once the cards are out of
\* their filtered decks.
ChangeDeckMulti(S, d) ==
    /\ UndoableMoves
    /\ ChangeDeck(S, d)
    /\ MarkUndo(Entry("move", NoCard, S, [c \in Cards |-> RemFromDynRow(rows[c])]))
    /\ UNCHANGED <<log, counts>>

-----------------------------------------------------------------------------
(* Undoing the last entry `e`.  The card brought back is shown at once,    *)
(* which buries its siblings (nonTaskUndo: deferReset, setCurrentCard).    *)

\* Slip: only the deck is put back, as UndoChangeDeckMulti does.
WriteBackDeck(saved) ==
    [c \in Cards |-> IF c \in DOMAIN saved
                     THEN [rows[c] EXCEPT !.did = saved[c].did]
                     ELSE rows[c]]

WriteBack(saved) ==
    [c \in Cards |-> IF c \in DOMAIN saved THEN saved[c] ELSE rows[c]]

\* undoReview, the cards: the old row is written, then the buried siblings of
\* the card, whoever buried them, are given back the queue of their type.
ReviewUndone(table, e) ==
    LET c == e.card
        restored ==
            [k \in Cards |->
                IF k \in Siblings(c) /\ table[k].queue = QueueSiblingBuried
                THEN RestoreRowByType(table[k])
                ELSE table[k]]
    IN  SiblingsBuried([restored EXCEPT ![c] = e.rows[c]], c)

\* Slip: an entry is deleted for a preview too, which never wrote one.
LogAlwaysDeleted(c, saved) == [log EXCEPT ![c] = MaxOf(0, @ - 1)]

\* undoReview, the log: the last entry of the card is deleted.
LogDeleted(c, saved) ==
    IF Previewing(saved) THEN log ELSE [log EXCEPT ![c] = MaxOf(0, @ - 1)]

\* Slip: the daily count is left as it is.
CountsKept(saved) == counts

\* undoReview, the daily count: taken off the deck and the kind of count that
\* the old row names.
CountsUndone(saved) ==
    CASE saved.queue = QueueNew -> UpdateStats(saved.did, "new", -1)
      [] saved.queue = QueueRev -> UpdateStats(saved.did, "rev", -1)
      [] OTHER -> counts

UndoReview(e) ==
    /\ rows' = ReviewUndone(rows, e)
    /\ log' = LogDeleted(e.card, e.rows[e.card])
    /\ counts' = CountsUndone(e.rows[e.card])

\* UndoSuspendCard, revertToProvidedState.
UndoDismiss(e) ==
    /\ rows' = SiblingsBuried(WriteBack(e.rows), e.card)
    /\ UNCHANGED <<log, counts>>

UndoSuspendCardMulti(e) ==
    /\ rows' = [c \in Cards |->
          CASE c \notin DOMAIN e.rows -> rows[c]
            [] Suspended(e.rows[c]) -> HoldRow(rows[c], QueueSuspended)
            [] Suspended(rows[c]) -> RestoreRow(rows[c])
            [] OTHER -> rows[c]]
    /\ UNCHANGED <<log, counts>>

UndoEditCards(e) ==
    /\ rows' \in NextShown(WriteBack(e.rows))
    /\ UNCHANGED <<log, counts>>

UndoChangeDeckMulti(e) ==
    /\ rows' = [c \in Cards |->
          IF c \in DOMAIN e.rows THEN [rows[c] EXCEPT !.did = e.rows[c].did]
                                 ELSE rows[c]]
    /\ UNCHANGED <<log, counts>>

Undo ==
    /\ undos # <<>>
    /\ undos' = Front(undos)
    /\ LET e == Last(undos)
       IN  \/ e.type = "review" /\ UndoReview(e)
           \/ e.type = "dismiss" /\ UndoDismiss(e)
           \/ e.type = "suspend" /\ UndoSuspendCardMulti(e)
           \/ e.type = "edit" /\ UndoEditCards(e)
           \/ e.type = "move" /\ UndoChangeDeckMulti(e)
    /\ UNCHANGED today

\* Another deck is selected, a deck is deleted, the collection is reopened.
ClearUndo ==
    /\ undos # <<>>
    /\ undos' = <<>>
    /\ UNCHANGED <<rows, today, log, counts>>

-----------------------------------------------------------------------------
(* What leaves no entry.                                                   *)

WithoutUndo ==
    /\ \/ Filter
       \/ \E c \in Cards : BurySiblings(c)
       \/ \E d \in Decks : UnburyCardsForDeck({d}, BuriedQueues)
       \/ \E d \in StdDecks : SortDeck(d)
    /\ UNCHANGED <<undos, log, counts>>

RolloverCounts ==
    /\ Rollover
    /\ counts' = NoCounts
    /\ UNCHANGED <<undos, log>>

UndoNext ==
    \/ \E c \in Cards : \/ Dismiss(c) \/ DismissFails(c)
                       \/ \E ease \in Ease : AnswerCard(c, ease)
    \/ \E S \in SUBSET Cards \ {{}} :
          \/ SuspendCardMulti(S) \/ EditCards(S)
          \/ \E d \in StdDecks : ChangeDeckMulti(S, d)
    \/ Undo \/ ClearUndo
    \/ WithoutUndo \/ RolloverCounts

UndoSpec == UndoInit /\ [][UndoNext]_undoVars

-----------------------------------------------------------------------------
(* Properties.                                                             *)

UndoTypeOK ==
    /\ TypeOK
    /\ \A i \in DOMAIN undos : \A c \in DOMAIN undos[i].rows : undos[i].rows[c] \in Rows
    /\ Len(undos) <= UndoSizeMax
    /\ log \in [Cards -> 0..MaxLog]
    /\ counts \in [StdDecks -> [new: Int, rev: Int]]

ReviewsToUndo(c) ==
    {i \in DOMAIN undos : /\ undos[i].type = "review" /\ undos[i].card = c
                          /\ ~Previewing(undos[i].rows[c])}

\* A review that can still be undone has its log entry, so the undo deletes
\* that one and never the entry of a review that stands (undoReview deletes the
\* last entry of the card, whichever review wrote it).
UndoableReviewHasLog == \A c \in Cards : log[c] >= Cardinality(ReviewsToUndo(c))

\* "restore any siblings": undoing a review at once brings back every row of
\* the table, the answered card's and its siblings', as they were while the
\* card was shown.
UndoRestoresTable ==
    [][\A c \in Cards : \A ease \in Ease :
          AnswerCard(c, ease)
              => ReviewUndone(rows', Last(undos')) = SiblingsBuried(rows, c)]_undoVars

\* "and finally, update daily count": when a review is undone on the day it was
\* made, the counts of the ordinary decks are what they were before it.
UndoneReviewIsNotCounted ==
    [][LET e == Last(undos)
       IN  Undo /\ e.type = "review" /\ UndoReview(e) /\ e.day = today
               => counts' = e.counts]_undoVars

=============================================================================

---------------------------- MODULE SchedV2Cards ----------------------------
(***************************************************************************)
(* The life of the rows of the `cards` table under the V2 scheduler.       *)
(*                                                                         *)
(* Every operation that writes scheduling columns is an action: answering  *)
(* a card, building and emptying filtered decks, suspending, burying,      *)
(* forgetting, rescheduling, repositioning, moving to another deck and the *)
(* rollover of the day.  Each is one SQL statement or runs in a database   *)
(* transaction, hence one action; answering does not, and may stop half    *)
(* way (BurySiblings).  The copies of rows kept in memory and the queues   *)
(* of card ids are not part of this module.                                *)
(***************************************************************************)
EXTENDS CardRows

CONSTANTS
    Cards,
    NoteOf,      \* the note of each card; cards of one note are siblings
    FirstDay,    \* the day number the collection is opened on
    ReschedDays  \* what a user may enter in the reschedule dialog

ASSUME CardsAssumption ==
    /\ IsFiniteSet(Cards)
    /\ FirstDay \in 0..MaxDay
    /\ ReschedDays \subseteq 0..IvlCeiling

VARIABLES
    rows,   \* the table: a row for each card
    today   \* mToday

vars == <<rows, today>>

Decks == StdDecks \cup FilteredDecks

Siblings(c) == {k \in Cards \ {c} : NoteOf[k] = NoteOf[c]}

\* UPDATE cards SET ... WHERE id IN S: the rows of S become those of F.
UpdateRows(S, F(_)) ==
    rows' = [c \in Cards |-> IF c \in S THEN F(rows[c]) ELSE rows[c]]

-----------------------------------------------------------------------------
Init ==
    /\ rows \in [Cards -> {NewRow(d) : d \in StdDecks}]
    /\ today = FirstDay

\* _burySiblings: the due and new siblings of the card are buried.
SiblingsBuried(table, c) ==
    [k \in Cards |-> IF k \in Siblings(c) /\ SiblingToBury(table[k], today)
                     THEN HoldRow(table[k], QueueSiblingBuried)
                     ELSE table[k]]

(***************************************************************************)
(* answerCard: siblings are buried first, then the card is rescheduled and *)
(* its row flushed.                                                        *)
(***************************************************************************)
Answer(c, ease) ==
    /\ Fetchable(rows[c], today)
    /\ ease \in Buttons(rows[c])
    /\ \E answered \in AnswerRows(rows[c], ease, today) :
          /\ answered.lapses <= MaxLapses
          /\ rows' = [SiblingsBuried(rows, c) EXCEPT ![c] = answered]
    /\ UNCHANGED today

\* getCard hands out a card: setCurrentCard buries its siblings.  It is also all
\* that is left of an answer when the process dies before the row is flushed,
\* for answerCard runs outside a transaction.
BurySiblings(c) ==
    /\ Fetchable(rows[c], today)
    /\ rows' = SiblingsBuried(rows, c)
    /\ UNCHANGED today

\* rebuildDyn: empty the deck, then gather the cards its search finds.
RebuildDyn(f, found) ==
    LET Emptied(c) ==
            IF rows[c].did = f THEN EmptyDynRow(rows[c]) ELSE rows[c]
    IN  /\ \A c \in found : Gatherable(Emptied(c))
        /\ rows' = [c \in Cards |->
              IF c \in found THEN MoveToDynRow(Emptied(c), f) ELSE Emptied(c)]
        /\ UNCHANGED today

EmptyDyn(f) ==
    /\ UpdateRows({c \in Cards : rows[c].did = f}, EmptyDynRow)
    /\ UNCHANGED today

SuspendCards(S) ==
    /\ UpdateRows(S, LAMBDA r : HoldRow(r, QueueSuspended))
    /\ UNCHANGED today

UnsuspendCards(S) ==
    /\ UpdateRows({c \in S : Suspended(rows[c])}, RestoreRow)
    /\ UNCHANGED today

BuryCards(S) ==
    /\ UpdateRows(S, LAMBDA r : HoldRow(r, QueueManuallyBuried))
    /\ UNCHANGED today

\* "queue >= 0": the suspended cards of the note stay suspended.
BuryNote(n) == BuryCards({c \in Cards : NoteOf[c] = n /\ rows[c].queue >= 0})

\* unburyCardsForDeck with ALL, MANUAL or SIBLINGS, on the active decks.
UnburyCardsForDeck(dids, queues) ==
    /\ UpdateRows({c \in Cards : rows[c].did \in dids /\ rows[c].queue \in queues},
                  RestoreRow)
    /\ UNCHANGED today

Notes(S) == {NoteOf[c] : c \in S}

\* Where sortCards may put the notes of S: one after the other from `start`,
\* shuffled or in an order the caller chose.
Placings(S, start) ==
    {place \in [Notes(S) -> start..MaxPos] :
        \A m, n \in Notes(S) : /\ place[m] < start + Cardinality(Notes(S))
                               /\ place[m] = place[n] => m = n}

\* forgetCards: to the end of the new queue; the model takes any `start`.
Forgotten(S, start) ==
    {[c \in Cards |-> IF c \in S THEN ForgetRow(rows[c], place[NoteOf[c]])
                                 ELSE rows[c]] : place \in Placings(S, start)}

ForgetCards(S, start) ==
    /\ rows' \in Forgotten(S, start)
    /\ UNCHANGED today

Rescheduled(S, days) ==
    [c \in Cards |-> IF c \in S THEN ReschedRow(rows[c], days, today) ELSE rows[c]]

ReschedCards(S, days) ==
    /\ rows' = Rescheduled(S, days)
    /\ UNCHANGED today

\* randomizeCards, orderCards: the new cards of an ordinary deck are sorted from
\* position 1, those held back too.
SortDeck(d) ==
    LET S == {c \in Cards : rows[c].did = d}
    IN  /\ \E place \in Placings(S, 1) :
              rows' = [c \in Cards |-> IF c \in S
                                      THEN PlaceRow(rows[c], place[NoteOf[c]])
                                      ELSE rows[c]]
        /\ UNCHANGED today

\* sortCards with `shift`, which the browser offers for cards of the new queue:
\* the other new cards from `start` on are moved so that the first of them
\* comes right behind the cards of S.
TakenFrom(S, start) ==
    {rows[c].due : c \in {k \in Cards \ S : rows[k].type = TypeNew /\ rows[k].due >= start}}

Repositioned(S, next, place, low) ==
    [c \in Cards |-> IF c \in S THEN PlaceRow(rows[c], place[NoteOf[c]])
                                ELSE ShiftRow(rows[c], low, next - low)]

RepositionCards(S, start) ==
    LET next == start + Cardinality(Notes(S))
    IN  /\ \A c \in S : rows[c].queue = QueueNew
        /\ \E place \in Placings(S, start), low \in Least(TakenFrom(S, start), next) :
              rows' = Repositioned(S, next, place, low)
        /\ \A c \in Cards \ S : rows'[c].due <= MaxOf(MaxPos, rows[c].due)
        /\ UNCHANGED today

\* Slip: the card is not taken out of its filtered deck.
ChangeDeckInPlace(S, d) ==
    /\ UpdateRows(S, LAMBDA r : [r EXCEPT !.did = d])
    /\ UNCHANGED today

\* ChangeDeckMulti: out of the filtered deck first, then to an ordinary deck.
ChangeDeck(S, d) ==
    /\ UpdateRows(S, LAMBDA r : [RemFromDynRow(r) EXCEPT !.did = d])
    /\ UNCHANGED today

\* _updateCutoff on a later day: everything buried is unburied.
NewDay(day) ==
    /\ today' = day
    /\ UpdateRows({c \in Cards : Buried(rows[c])}, RestoreRow)

-----------------------------------------------------------------------------
Study == \E c \in Cards : \/ \E ease \in Ease : Answer(c, ease)
                         \/ BurySiblings(c)

Filter ==
    \E f \in FilteredDecks :
        \/ \E found \in SUBSET Cards : RebuildDyn(f, found)
        \/ EmptyDyn(f)

Hold ==
    \/ \E c \in Cards : \/ SuspendCards({c})
                        \/ UnsuspendCards({c})
                        \/ BuryCards({c})
                        \/ BuryNote(NoteOf[c])
    \/ \E d \in Decks, queues \in {BuriedQueues, {QueueSiblingBuried},
                                   {QueueManuallyBuried}} :
          UnburyCardsForDeck({d}, queues)

Edit ==
    \E c \in Cards :
        \/ \E start \in 1..MaxPos :
              ForgetCards({c}, start) \/ RepositionCards({c}, start)
        \/ \E days \in ReschedDays : ReschedCards({c}, days)
        \/ \E d \in StdDecks : ChangeDeck({c}, d) \/ SortDeck(d)

Rollover == \E day \in (today + 1)..MaxDay : NewDay(day)

Next == Study \/ Filter \/ Hold \/ Edit \/ Rollover

Spec == Init /\ [][Next]_vars

-----------------------------------------------------------------------------
(* Properties.                                                             *)

\* The columns keep their ranges.
TypeOK ==
    /\ rows \in [Cards -> Rows]
    /\ today \in 0..MaxDay

\* A card is in a filtered deck exactly when it remembers the deck it came
\* from, and outside one it remembers no original due date: what FixIntegrity
\* (Collection.removeDynamicPropertyFromNonDynamicDecks and
\* removeOriginalDuePropertyWhereInvalid) would otherwise have to repair.
FilteredLink ==
    \A c \in Cards :
        /\ InDynamicDeck(rows[c]) <=> rows[c].did \in FilteredDecks
        /\ ~InDynamicDeck(rows[c]) => rows[c].odue = 0

\* Outside preview decks the queue of a card that is not held back is the one
\* the restore snippets compute from its type and due date.  So suspending and
\* unsuspending, burying and unburying, give a card back to the queue it had,
\* and a card in the review queue is a review card.
QueueIsRestorable ==
    \A c \in Cards :
        rows[c].queue >= 0 /\ ~Previewing(rows[c])
            => rows[c].queue = RestoreQueue(rows[c])

\* The due date a card has, or will have again outside filtered decks.
HomeDue(r) == IF InDynamicDeck(r) /\ r.odue # 0 THEN r.odue ELSE r.due

\* What emptying a preview deck gives back does not depend on the answers that
\* were given in it: "emptying the filtered deck should restore card"
\* (SchedV2Test.test_preview).
EmptyingRestoresCard ==
    [][\A c \in Cards :
          /\ Previewing(rows[c]) /\ rows[c].queue >= 0
          /\ Previewing(rows'[c]) /\ rows'[c].queue >= 0
          => EmptyDynRow(rows'[c]) = EmptyDynRow(rows[c])]_vars

\* No card is lost: outside preview decks, one that is not held back and whose
\* day has come can be handed out by a queue.  A day number in the seconds
\* queue, or seconds in a day queue, would hide it for ever.
DueCardIsFetchable ==
    \A c \in Cards :
        LET r == rows[c]
            come == IF HomeDue(r) > SecBase THEN HomeDue(r) <= Seconds(today)
                                            ELSE HomeDue(r) <= today
        IN  r.queue >= 0 /\ ~Previewing(r) /\ (r.type = TypeNew \/ come)
                => Fetchable(r, today)

\* The reviewer never gets a RuntimeException for a card a queue hands out.
AnswerNeverThrows ==
    \A c \in Cards : \A ease \in Buttons(rows[c]) :
        Fetchable(rows[c], today) => ~AnswerThrows(rows[c], ease, today)

(***************************************************************************)
(* The abstract view: CardSchedule is implemented by this module.          *)
(***************************************************************************)
ScheduleOf(r) == [type |-> r.type, due |-> HomeDue(r), ivl |-> r.ivl,
                  lapses |-> r.lapses]

HoldOf(r) == CASE Suspended(r) -> "suspended"
               [] Buried(r) -> "buried"
               [] OTHER -> "active"

Schedule == INSTANCE CardSchedule WITH
    Schedules <- [type: TypeNew..TypeRelearn, due: Dues, ivl: 0..IvlCeiling,
                  lapses: 0..MaxLapses],
    home <- [c \in Cards |-> RemoveFromFiltered(rows[c]).did],
    sched <- [c \in Cards |-> ScheduleOf(rows[c])],
    hold <- [c \in Cards |-> HoldOf(rows[c])]

\* Filtered decks are only a view: no rebuilding, emptying or previewing, no
\* burying or suspending ever changes the deck, stage, due date, interval or
\* lapses of a card; an answer changes those of one card, which was active.
ImplementsSchedule == Schedule!Spec

=============================================================================

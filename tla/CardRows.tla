------------------------------ MODULE CardRows ------------------------------
(***************************************************************************)
(* A row of the `cards` table, and what the V2 scheduler does to one row.  *)
(*                                                                         *)
(* The operators are pure: each takes the row before and yields the row    *)
(* after, or the set of the rows the code may write where a wall clock or  *)
(* a random fuzz decides.  SchedV2Cards makes steps of them, CollectionUndo*)
(* puts an undo list beside them.                                          *)
(*                                                                         *)
(* The column `due` holds three kinds of number, told apart by size only:  *)
(* a position in the new queue or a day number (both small), a time in     *)
(* seconds (above SecBase, the code's 1000000000), and a negative place in *)
(* the order of a filtered deck.                                           *)
(***************************************************************************)
EXTENDS Integers, FiniteSets

CONSTANTS
    StdDecks,       \* ordinary decks (dyn = 0)
    FilteredDecks,  \* filtered decks (dyn = 1)
    PreviewDecks,   \* the filtered decks whose "resched" option is off
    NoDeck,         \* odid = 0
    LearnSteps,     \* number of learning steps of the options group
    RelearnSteps,   \* number of relearning steps
    LeechFails,     \* lapses that make a leech, 0 for never
    LeechSuspends,  \* leechAction = LEECH_SUSPEND
    GradIvls,       \* intervals a new card may graduate with, fuzz included
    MinLapseIvl,    \* lapse.minInt
    LapseMult,      \* lapse.mult, in percent
    HardGrows,      \* rev.hardFactor > 1
    MaxIvl,         \* rev.maxIvl
    BuryNew,        \* new.bury
    BuryRev,        \* rev.bury
    IvlCeiling,     \* bound of the model on every interval
    MaxAhead,       \* bound of the model: days a learning step may reach ahead
    MaxPos,         \* bound of the model on new-queue positions
    MaxLapses,      \* bound of the model on the lapses of a card
    MaxDay,         \* bound of the model on the day number
    SecBase         \* what the code tests to tell seconds from days

MaxOf(a, b) == IF a >= b THEN a ELSE b
MinOf(a, b) == IF a <= b THEN a ELSE b

\* The least number of S, or `default`, as a singleton.
Least(S, default) == IF S = {} THEN {default} ELSE {m \in S : \A n \in S : m <= n}

ASSUME DecksAssumption ==
    /\ StdDecks # {}
    /\ StdDecks \cap FilteredDecks = {}
    /\ PreviewDecks \subseteq FilteredDecks
    /\ NoDeck \notin StdDecks \cup FilteredDecks

ASSUME OptionsAssumption ==
    /\ LearnSteps \in Nat /\ RelearnSteps \in Nat /\ LeechFails \in Nat
    /\ {LeechSuspends, HardGrows, BuryNew, BuryRev} \subseteq BOOLEAN
    /\ MaxIvl \in 1..IvlCeiling
    /\ GradIvls # {} /\ GradIvls \subseteq 1..IvlCeiling
    /\ MinLapseIvl \in 0..IvlCeiling
    /\ LapseMult \in 0..100

ASSUME BoundsAssumption ==
    /\ IvlCeiling \in Nat /\ MaxDay \in Nat /\ MaxLapses \in Nat
    /\ MaxAhead \in 1..IvlCeiling
    /\ MaxPos \in Nat \ {0}
    /\ SecBase \in Nat
    /\ MaxDay + IvlCeiling <= SecBase
    /\ MaxPos <= SecBase

-----------------------------------------------------------------------------
(* Card types and queues.  A type is copied into `queue` as a number.      *)

TypeNew == 0
TypeLrn == 1
TypeRev == 2
TypeRelearn == 3

QueueNew == 0
QueueLrn == 1
QueueRev == 2
QueueDayLearn == 3
QueuePreview == 4
QueueSuspended == -1
QueueSiblingBuried == -2
QueueManuallyBuried == -3

LearningTypes == {TypeLrn, TypeRelearn}
BuriedQueues == {QueueSiblingBuried, QueueManuallyBuried}

Ease == 1..4

\* The places a filtered deck gives its cards: -100000 and up, never past 0.
FilteredDue == -100000

\* A time of day `d`, in seconds.
Seconds(d) == SecBase + 1 + d

Dues == -100000 .. SecBase + 1 + MaxDay

Rows ==
    [did: StdDecks \cup FilteredDecks,
     odid: StdDecks \cup {NoDeck},
     type: TypeNew..TypeRelearn,
     queue: QueueManuallyBuried..QueuePreview,
     due: Dues,
     odue: Dues,
     ivl: 0..IvlCeiling,
     left: Nat,
     lapses: Nat]

\* A card just added to deck d.
NewRow(d) ==
    [did |-> d, odid |-> NoDeck, type |-> TypeNew, queue |-> QueueNew,
     due |-> 1, odue |-> 0, ivl |-> 0, left |-> 0, lapses |-> 0]

InDynamicDeck(r) == r.odid # NoDeck
Previewing(r) == r.did \in PreviewDecks
Suspended(r) == r.queue = QueueSuspended
Buried(r) == r.queue \in BuriedQueues

-----------------------------------------------------------------------------
(* Queue restoration: the two CASE snippets the SQL statements share.      *)

RestoreQueue(r) ==
    IF r.type \in LearningTypes
    THEN IF (IF r.odue # 0 THEN r.odue ELSE r.due) > SecBase
         THEN QueueLrn
         ELSE QueueDayLearn
    ELSE r.type

\* Slip: the queue is left as the filtered deck set it.
QueueKeptWhenEmptying(r) == r.queue

RestoreQueueWhenEmptying(r) == IF r.queue < 0 THEN r.queue ELSE RestoreQueue(r)

-----------------------------------------------------------------------------
(* Filtered decks.                                                         *)

RemoveFromFiltered(r) ==
    IF InDynamicDeck(r)
    THEN [r EXCEPT !.did = r.odid, !.odue = 0, !.odid = NoDeck]
    ELSE r

\* Slip: the original due date is not put back.
EmptyDynRowKeepingDue(r) ==
    [r EXCEPT !.did = r.odid, !.queue = RestoreQueueWhenEmptying(r),
              !.odue = 0, !.odid = NoDeck]

\* The UPDATE of emptyDyn: the right-hand sides read the row as it was.
EmptyDynRow(r) ==
    [r EXCEPT !.did = r.odid,
              !.queue = RestoreQueueWhenEmptying(r),
              !.due = IF r.odue > 0 THEN r.odue ELSE r.due,
              !.odue = 0,
              !.odid = NoDeck]

RemFromDynRow(r) == IF InDynamicDeck(r) THEN EmptyDynRow(r) ELSE r

\* Slip: every gathered card goes to the review queue, not only for a preview.
MoveToReviewQueue(r, f) ==
    [r EXCEPT !.odid = r.did, !.odue = r.due, !.did = f,
              !.due = IF r.due <= 0 THEN r.due ELSE FilteredDue,
              !.queue = QueueRev]

MoveToDynRow(r, f) ==
    [r EXCEPT !.odid = r.did,
              !.odue = r.due,
              !.did = f,
              !.due = IF r.due <= 0 THEN r.due ELSE FilteredDue,
              !.queue = IF f \in PreviewDecks THEN QueueRev ELSE r.queue]

\* Slip: the search does not exclude the cards of other filtered decks.
GatherableAnywhere(r) == r.queue >= 0

\* What _fillDyn's search leaves: "-is:suspended -is:buried -deck:filtered".
Gatherable(r) == r.queue >= 0 /\ ~InDynamicDeck(r)

RestorePreviewRow(r) ==
    [r EXCEPT !.due = r.odue,
              !.queue = IF r.type \in LearningTypes
                        THEN IF r.odue > SecBase THEN QueueLrn ELSE QueueDayLearn
                        ELSE r.type]

-----------------------------------------------------------------------------
(* Suspending, burying, resetting.                                         *)

\* Holding a card back: suspended, or buried one way or the other.
HoldRow(r, q) == [r EXCEPT !.queue = q]

\* Slip: `queue = type`, as undoReview restores the siblings it unburies.
RestoreRowByType(r) == [r EXCEPT !.queue = r.type]
RestoreRow(r) == [r EXCEPT !.queue = RestoreQueue(r)]

\* Slip: the queue of the sibling is not looked at.
DueSiblingToBury(r, today) == r.type = TypeNew \/ r.due <= today

SiblingToBury(r, today) ==
    \/ r.queue = QueueNew /\ BuryNew
    \/ r.queue = QueueRev /\ r.due <= today /\ BuryRev

ForgetRow(r, pos) ==
    [RemFromDynRow(r) EXCEPT !.type = TypeNew, !.queue = QueueNew,
                             !.ivl = 0, !.due = pos, !.odue = 0]

\* A new card at another position.
PlaceRow(r, pos) == IF r.type = TypeNew THEN [r EXCEPT !.due = pos] ELSE r

\* Making room in the new queue: from position `low` on, `by` further.
ShiftRow(r, low, by) ==
    IF r.queue = QueueNew /\ r.due >= low THEN [r EXCEPT !.due = @ + by] ELSE r

ReschedRow(r, days, today) ==
    [RemFromDynRow(r) EXCEPT !.type = TypeRev, !.queue = QueueRev,
                             !.ivl = MaxOf(1, days), !.due = today + days,
                             !.odue = 0]

-----------------------------------------------------------------------------
(* Answering: learning and relearning.                                     *)

\* A step either ends before the cutoff, and is timed in seconds, or is put
\* off by whole days.  Clock and fuzz decide.
RescheduleLrn(r, today) ==
    {[r EXCEPT !.due = Seconds(today), !.queue = QueueLrn]}
        \cup {[r EXCEPT !.due = today + ahead, !.queue = QueueDayLearn] :
                  ahead \in 1..MaxAhead}

LapseIvl(r) == MaxOf(1, MaxOf(MinLapseIvl, (r.ivl * LapseMult) \div 100))

MoveToFirstStep(r, today) ==
    RescheduleLrn(IF r.type = TypeRelearn
                  THEN [r EXCEPT !.left = RelearnSteps, !.ivl = LapseIvl(r)]
                  ELSE [r EXCEPT !.left = LearnSteps], today)

\* A review card with interval `ivl`.
AsReview(r, ivl, today) ==
    [r EXCEPT !.ivl = ivl, !.due = today + ivl,
              !.queue = QueueRev, !.type = TypeRev]

\* The interval to graduate with: after a lapse the one the lapse left, with a
\* day of bonus for an early graduation.
GraduatingIvls(r, bonus) ==
    IF r.type \in {TypeRev, TypeRelearn}
    THEN {r.ivl + bonus} \cap 0..IvlCeiling
    ELSE GradIvls

RescheduleAsRev(r, bonus, today) ==
    {RemoveFromFiltered(AsReview(r, ivl, today)) : ivl \in GraduatingIvls(r, bonus)}

AnswerLrn(r, ease, today) ==
    CASE ease = 4 -> RescheduleAsRev(r, 1, today)
      [] ease = 3 -> IF r.left - 1 <= 0
                     THEN RescheduleAsRev(r, 0, today)
                     ELSE RescheduleLrn([r EXCEPT !.left = @ - 1], today)
      [] ease = 2 -> RescheduleLrn(r, today)
      [] ease = 1 -> MoveToFirstStep(r, today)

-----------------------------------------------------------------------------
(* Answering: reviews.                                                     *)

IsLeech(lapses) ==
    /\ LeechFails # 0
    /\ lapses >= LeechFails
    /\ (lapses - LeechFails) % MaxOf(LeechFails \div 2, 1) = 0

RescheduleLapse(r, today) ==
    LET lapsed == [r EXCEPT !.lapses = @ + 1]
        suspended == IsLeech(lapsed.lapses) /\ LeechSuspends
    IN  IF RelearnSteps # 0 /\ ~suspended
        THEN MoveToFirstStep([lapsed EXCEPT !.type = TypeRelearn], today)
        ELSE {IF suspended THEN HoldRow(g, QueueSuspended) ELSE g :
                g \in RescheduleAsRev([lapsed EXCEPT !.ivl = LapseIvl(r)],
                                      0, today)}

\* Reviewed from a filtered deck before the day it was due.
IsEarly(r, today) == InDynamicDeck(r) /\ r.odue > today

\* "Unexpected card parameters" of _earlyReviewIvl.
EarlyThrows(r, today) == IsEarly(r, today) /\ r.type # TypeRev

\* What _constrainedIvl leaves of a computed interval: more than `prev`, unless
\* maxIvl is reached first.
ConstrainedIvls(prev) == MinOf(prev + 1, MaxIvl)..MaxIvl

RescheduleRev(r, today) ==
    LET prev == IF IsEarly(r, today) \/ ~HardGrows THEN 0 ELSE r.ivl
    IN  IF EarlyThrows(r, today)
        THEN {}
        ELSE {RemoveFromFiltered([r EXCEPT !.ivl = i, !.due = today + i]) :
                 i \in ConstrainedIvls(prev)}

AnswerRev(r, ease, today) ==
    IF ease = 1 THEN RescheduleLapse(r, today) ELSE RescheduleRev(r, today)

-----------------------------------------------------------------------------
(* Answering a card.                                                       *)

AnswerPreview(r, ease, today) ==
    CASE ease = 1 -> {[r EXCEPT !.queue = QueuePreview, !.due = Seconds(today)]}
      [] ease = 2 -> {RemoveFromFiltered(RestorePreviewRow(r))}
      [] OTHER -> {}    \* "Invalid ease": the reviewer shows two buttons

StartLearning(r) ==
    [r EXCEPT !.queue = QueueLrn, !.type = TypeLrn, !.left = LearnSteps]

AnswerQueue(r, ease, today) ==
    LET q == IF r.queue = QueueNew THEN StartLearning(r) ELSE r
    IN  CASE q.queue \in {QueueLrn, QueueDayLearn} -> AnswerLrn(q, ease, today)
          [] q.queue = QueueRev -> AnswerRev(q, ease, today)
          [] OTHER -> {}    \* "Invalid queue"

\* Once a card has been answered, the original due date no longer applies.
DropOriginalDue(r) == IF r.odue > 0 THEN [r EXCEPT !.odue = 0] ELSE r

\* Slip: a preview drops the original due date like any other answer.
AnswerRowsDroppingDue(r, ease, today) ==
    {DropOriginalDue(a) : a \in IF Previewing(r) THEN AnswerPreview(r, ease, today)
                                                ELSE AnswerQueue(r, ease, today)}

AnswerRows(r, ease, today) ==
    IF Previewing(r)
    THEN AnswerPreview(r, ease, today)
    ELSE {DropOriginalDue(a) : a \in AnswerQueue(r, ease, today)}

\* The buttons the reviewer offers: answerButtons.
Buttons(r) == IF Previewing(r) THEN 1..2 ELSE 1..4

\* An answer the code refuses with a RuntimeException, after the siblings of
\* the card have been buried.
AnswerThrows(r, ease, today) ==
    /\ ~Previewing(r)
    /\ \/ r.queue \notin {QueueNew, QueueLrn, QueueDayLearn, QueueRev}
       \/ r.queue = QueueRev /\ ease > 1 /\ EarlyThrows(r, today)

\* A card one of the queues of the scheduler may hand out on day `today`.
Fetchable(r, today) ==
    \/ r.queue = QueueNew
    \/ r.queue \in {QueueLrn, QueuePreview} /\ r.due <= Seconds(today)
    \/ r.queue \in {QueueDayLearn, QueueRev} /\ r.due <= today

=============================================================================

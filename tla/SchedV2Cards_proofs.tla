------------------------- MODULE SchedV2Cards_proofs -------------------------
(***************************************************************************)
(* Theorems about SchedV2Cards, for all decks, cards, options and bounds.  *)
(*                                                                         *)
(* The inductive invariant speaks of one row at a time (RowOK), so every   *)
(* row operator of CardRows has a lemma saying that it keeps RowOK, and a  *)
(* step keeps the invariant because each row it writes comes from one.     *)
(***************************************************************************)
EXTENDS SchedV2Cards, FiniteSetTheorems, TLAPS

\* No reschedule by 0 days on day 0: every day number outside filtered decks
\* is then positive, which the filtered-deck code takes for granted.
PositiveDues == \A days \in ReschedDays : FirstDay + days > 0

-----------------------------------------------------------------------------
(* The inductive invariant.                                                *)

\* The deck a row is in and the deck it came from agree.
RowLinked(r) ==
    /\ InDynamicDeck(r) <=> r.did \in FilteredDecks
    /\ ~InDynamicDeck(r) => r.odue = 0

\* Where the due date of the home deck is, and its unit.
RowDues(r) ==
    /\ r.odue >= 0
    /\ ~InDynamicDeck(r) => r.due > 0
    /\ InDynamicDeck(r) /\ r.odue = 0 =>
          r.type \in LearningTypes /\ r.due > 0 /\ ~Previewing(r)
    /\ r.type \notin LearningTypes => HomeDue(r) <= SecBase
    /\ InDynamicDeck(r) /\ r.odue > 0 /\ ~Previewing(r) /\ r.type # TypeNew =>
          r.due <= 0
    /\ r.type \in {TypeRev, TypeRelearn} => r.ivl >= 1

RowQueued(r) == r.queue >= 0 /\ ~Previewing(r) => r.queue = RestoreQueue(r)

RowOK(r) == r \in Rows /\ RowLinked(r) /\ RowDues(r) /\ RowQueued(r)

IInv ==
    /\ today \in FirstDay..MaxDay
    /\ rows \in [Cards -> Rows]
    /\ \A c \in Cards : RowOK(rows[c])

-----------------------------------------------------------------------------
(* What the operators on rows preserve.                                    *)

USE DEF TypeNew, TypeLrn, TypeRev, TypeRelearn, QueueNew, QueueLrn, QueueRev,
        QueueDayLearn, QueuePreview, QueueSuspended, QueueSiblingBuried,
        QueueManuallyBuried, LearningTypes, BuriedQueues

\* Adding a card.
LEMMA NewRowOK ==
    ASSUME NEW d \in StdDecks
    PROVE  RowOK(NewRow(d))
BY DecksAssumption, BoundsAssumption
   DEF NewRow, RowOK, Rows, RowLinked, RowDues, RowQueued, InDynamicDeck,
       HomeDue, RestoreQueue, Previewing, Dues

\* Emptying a filtered deck.
LEMMA EmptyDynRowOK ==
    ASSUME NEW r, RowOK(r), InDynamicDeck(r)
    PROVE  RowOK(EmptyDynRow(r)) /\ ~InDynamicDeck(EmptyDynRow(r))
<1> DEFINE e == EmptyDynRow(r)
<1>1. /\ e.did = r.odid /\ e.odid = NoDeck
      /\ e.queue = RestoreQueueWhenEmptying(r)
      /\ e.due = IF r.odue > 0 THEN r.odue ELSE r.due
      /\ e.odue = 0 /\ e.type = r.type /\ e.ivl = r.ivl
  BY DEF EmptyDynRow, RowOK, Rows
<1>2. e \in Rows
  <2>1. RestoreQueueWhenEmptying(r) \in QueueManuallyBuried..QueuePreview
    BY DEF RestoreQueueWhenEmptying, RestoreQueue, RowOK, Rows
  <2>2. (IF r.odue > 0 THEN r.odue ELSE r.due) \in Dues
    BY DEF RowOK, Rows
  <2>3. r.odid \in StdDecks /\ 0 \in Dues
    BY BoundsAssumption DEF RowOK, Rows, InDynamicDeck, Dues
  <2> QED BY <2>1, <2>2, <2>3 DEF EmptyDynRow, RowOK, Rows
<1> HIDE DEF e
<1>3. RowLinked(e) /\ RowDues(e)
  BY <1>1, DecksAssumption
     DEF RowOK, Rows, Dues, RowLinked, RowDues, InDynamicDeck, Previewing, HomeDue
<1>4. RowQueued(e)
  BY <1>1 DEF RowQueued, RestoreQueueWhenEmptying, RestoreQueue, RowOK, RowDues, Rows, Dues
<1>5. RowOK(e) /\ ~InDynamicDeck(e)
  BY <1>1, <1>2, <1>3, <1>4 DEF RowOK, InDynamicDeck
<1> QED BY <1>5 DEF e

\* Taking a card out of the filtered deck it is in, if any.
LEMMA RemFromDynRowOK ==
    ASSUME NEW r, RowOK(r)
    PROVE  RowOK(RemFromDynRow(r)) /\ ~InDynamicDeck(RemFromDynRow(r))
BY EmptyDynRowOK DEF RemFromDynRow

\* Gathering a card into a filtered deck.
LEMMA MoveToDynRowOK ==
    ASSUME NEW r, RowOK(r), Gatherable(r), NEW f \in FilteredDecks
    PROVE  RowOK(MoveToDynRow(r, f))
<1> DEFINE e == MoveToDynRow(r, f)
<1>1. /\ e.did = f /\ e.odid = r.did /\ e.odue = r.due
      /\ e.due = IF r.due <= 0 THEN r.due ELSE FilteredDue
      /\ e.queue = IF f \in PreviewDecks THEN QueueRev ELSE r.queue
      /\ e.type = r.type /\ e.ivl = r.ivl
  BY DEF MoveToDynRow, RowOK, Rows
<1>2. r.did \in StdDecks /\ r.due > 0 /\ r.odue = 0
  BY DEF Gatherable, RowOK, RowLinked, RowDues, Rows, InDynamicDeck
<1>3. e \in Rows
  <2>1. e.due \in Dues
    BY <1>1, BoundsAssumption DEF RowOK, Rows, Dues, FilteredDue
  <2>2. e.queue \in QueueManuallyBuried..QueuePreview
    BY <1>1 DEF RowOK, Rows
  <2> QED BY <1>1, <1>2, <2>1, <2>2 DEF MoveToDynRow, RowOK, Rows
<1> HIDE DEF e
<1>4. RowLinked(e) /\ RowDues(e)
  BY <1>1, <1>2, DecksAssumption
     DEF RowOK, Rows, Dues, RowLinked, RowDues, InDynamicDeck, Previewing, HomeDue,
         FilteredDue, Gatherable
<1>5. RowQueued(e)
  BY <1>1, <1>2, DecksAssumption
     DEF RowQueued, RestoreQueue, RowOK, RowDues, Rows, Previewing
<1>6. RowOK(e)
  BY <1>3, <1>4, <1>5 DEF RowOK
<1> QED BY <1>6 DEF e

\* Suspending and burying.
LEMMA HeldRowOK ==
    ASSUME NEW r, RowOK(r), NEW q \in {QueueSuspended} \cup BuriedQueues
    PROVE  RowOK(HoldRow(r, q))
BY DEF HoldRow, RowOK, Rows, RowLinked, RowDues, RowQueued, InDynamicDeck, Previewing,
       HomeDue, RestoreQueue

\* Unsuspending and unburying.
LEMMA RestoreRowOK ==
    ASSUME NEW r, RowOK(r)
    PROVE  RowOK(RestoreRow(r))
<1>1. RestoreQueue(r) \in QueueManuallyBuried..QueuePreview
  BY DEF RestoreQueue, RowOK, Rows
<1> QED
  BY <1>1 DEF RestoreRow, RowOK, Rows, RowLinked, RowDues, RowQueued,
              InDynamicDeck, Previewing, HomeDue, RestoreQueue

\* A row outside filtered decks, given a day of review or a place among the
\* new cards.
LEMMA DayRowOK ==
    ASSUME NEW r \in Rows, ~InDynamicDeck(r), r.did \in StdDecks, r.odue = 0,
           r.due > 0, r.due <= SecBase,
           r.type \in {TypeNew, TypeRev}, r.type = TypeRev => r.ivl >= 1,
           r.queue < 0 \/ r.queue = r.type
    PROVE  RowOK(r)
BY DecksAssumption
   DEF RowOK, RowLinked, RowDues, RowQueued, Rows, HomeDue, RestoreQueue, InDynamicDeck

\* Writing the scheduling columns of a row keeps them in range.
LEMMA PlannedRow ==
    ASSUME NEW m \in Rows, NEW y \in TypeNew..TypeRelearn,
           NEW q \in QueueManuallyBuried..QueuePreview,
           NEW i \in 0..IvlCeiling, NEW d \in Dues, NEW o \in Dues
    PROVE  [m EXCEPT !.type = y, !.queue = q, !.ivl = i, !.due = d, !.odue = o]
              \in Rows
BY DEF Rows

\* Forgetting.
LEMMA ForgetRowOK ==
    ASSUME NEW r, RowOK(r), NEW pos \in 1..MaxPos
    PROVE  RowOK(ForgetRow(r, pos))
<1> DEFINE m == RemFromDynRow(r)
<1>1. m \in Rows /\ ~InDynamicDeck(m) /\ m.did \in StdDecks
  BY RemFromDynRowOK DEF RowOK, RowLinked, Rows
<1>2. pos \in Dues /\ pos <= SecBase /\ 0 \in Dues /\ 0 \in 0..IvlCeiling
  BY BoundsAssumption DEF Dues
<1> HIDE DEF m
<1>3. ForgetRow(r, pos) = [m EXCEPT !.type = TypeNew, !.queue = QueueNew,
                                    !.ivl = 0, !.due = pos, !.odue = 0]
  BY DEF ForgetRow, m
<1>4. /\ ForgetRow(r, pos).odid = NoDeck
      /\ ForgetRow(r, pos).did = m.did /\ ForgetRow(r, pos).odue = 0
      /\ ForgetRow(r, pos).due = pos /\ ForgetRow(r, pos).type = TypeNew
      /\ ForgetRow(r, pos).queue = TypeNew /\ ForgetRow(r, pos).ivl = 0
  BY <1>1, <1>3 DEF Rows, InDynamicDeck
<1>5. ForgetRow(r, pos) \in Rows
  <2>1. /\ TypeNew \in TypeNew..TypeRelearn
        /\ QueueNew \in QueueManuallyBuried..QueuePreview
        /\ 0 \in 0..IvlCeiling
    BY <1>2, BoundsAssumption
  <2>2. [m EXCEPT !.type = TypeNew, !.queue = QueueNew, !.ivl = 0,
                  !.due = pos, !.odue = 0] \in Rows
    BY <1>1, <1>2, <2>1, PlannedRow, Zenon
  <2> QED BY <1>3, <2>2
<1> QED BY <1>1, <1>2, <1>4, <1>5, DayRowOK DEF InDynamicDeck

\* Rescheduling by hand.
LEMMA ReschedRowOK ==
    ASSUME NEW r, RowOK(r), NEW days \in ReschedDays, NEW t \in FirstDay..MaxDay,
           PositiveDues
    PROVE  RowOK(ReschedRow(r, days, t))
<1> DEFINE m == RemFromDynRow(r)
<1>1. m \in Rows /\ ~InDynamicDeck(m) /\ m.did \in StdDecks
  BY RemFromDynRowOK DEF RowOK, RowLinked, Rows
<1>2. /\ t + days \in Dues /\ t + days <= SecBase /\ t + days > 0
      /\ MaxOf(1, days) \in 1..IvlCeiling
      /\ 0 \in Dues
  BY BoundsAssumption, CardsAssumption DEF Dues, MaxOf, PositiveDues
<1> HIDE DEF m
<1>3. ReschedRow(r, days, t) =
        [m EXCEPT !.type = TypeRev, !.queue = QueueRev,
                  !.ivl = MaxOf(1, days), !.due = t + days, !.odue = 0]
  BY DEF ReschedRow, m
<1>4. /\ ReschedRow(r, days, t).odid = NoDeck
      /\ ReschedRow(r, days, t).did = m.did /\ ReschedRow(r, days, t).odue = 0
      /\ ReschedRow(r, days, t).due = t + days /\ ReschedRow(r, days, t).type = TypeRev
      /\ ReschedRow(r, days, t).queue = TypeRev /\ ReschedRow(r, days, t).ivl = MaxOf(1, days)
  BY <1>1, <1>3 DEF Rows, InDynamicDeck
<1>5. ReschedRow(r, days, t) \in Rows
  <2>1. /\ TypeRev \in TypeNew..TypeRelearn
        /\ QueueRev \in QueueManuallyBuried..QueuePreview
        /\ MaxOf(1, days) \in 0..IvlCeiling
    BY <1>2, BoundsAssumption
  <2>2. [m EXCEPT !.type = TypeRev, !.queue = QueueRev, !.ivl = MaxOf(1, days),
                  !.due = t + days, !.odue = 0] \in Rows
    BY <1>1, <1>2, <2>1, PlannedRow, Zenon
  <2> QED BY <1>3, <2>2
<1> QED BY <1>1, <1>2, <1>4, <1>5, DayRowOK DEF InDynamicDeck

\* Giving a new card another position.
LEMMA PlaceRowOK ==
    ASSUME NEW r, RowOK(r), NEW pos \in 1..MaxPos
    PROVE  RowOK(PlaceRow(r, pos))
<1>1. pos \in Dues /\ pos <= SecBase
  BY BoundsAssumption DEF Dues
<1> QED
  BY <1>1 DEF PlaceRow, RowOK, Rows, RowLinked, RowDues, RowQueued, InDynamicDeck,
              Previewing, HomeDue, RestoreQueue

\* Shifting a card of the new queue to make room for others.
LEMMA ShiftedRowOK ==
    ASSUME NEW r, RowOK(r), r.queue = QueueNew, NEW d \in 1..MaxOf(MaxPos, r.due)
    PROVE  RowOK([r EXCEPT !.due = d])
<1>1. r \in Rows /\ r.due \in Dues
  BY DEF RowOK, Rows
<1>2. d \in Dues /\ (d <= SecBase \/ d <= r.due)
  BY <1>1, BoundsAssumption DEF Dues, MaxOf
<1>3. ~Previewing(r) => r.type = TypeNew
  BY DEF RowOK, RowQueued, RestoreQueue
<1> QED
  BY <1>1, <1>2, <1>3, BoundsAssumption
     DEF RowOK, Rows, RowLinked, RowDues, RowQueued, InDynamicDeck,
         Previewing, HomeDue, RestoreQueue, Dues

\* Changing the deck of a card that is in no filtered deck.
LEMMA ChangeDeckRowOK ==
    ASSUME NEW r, RowOK(r), NEW d \in StdDecks
    PROVE  RowOK([RemFromDynRow(r) EXCEPT !.did = d])
<1> DEFINE m == RemFromDynRow(r)
<1>1. RowOK(m) /\ ~InDynamicDeck(m)
  BY RemFromDynRowOK
<1> HIDE DEF m
<1>2. RowOK([m EXCEPT !.did = d])
  BY <1>1, DecksAssumption
     DEF RowOK, Rows, RowLinked, RowDues, RowQueued, InDynamicDeck,
         Previewing, HomeDue, RestoreQueue
<1> QED BY <1>2 DEF m

-----------------------------------------------------------------------------
(* Answering.                                                              *)

\* What is left of RowOK while an answer is being worked out: the queue and
\* the due date are about to be written.
InAnswer(r) ==
    /\ r \in Rows
    /\ RowLinked(r)
    /\ ~Previewing(r)
    /\ r.odue >= 0
    /\ r.type \in {TypeRev, TypeRelearn} => r.ivl >= 1

\* Dropping the original due date makes sound a learning row whose due date
\* and queue agree.
LEMMA LearningRowOK ==
    ASSUME NEW a, InAnswer(a), a.type \in LearningTypes, a.due > 0,
           a.queue = IF a.due > SecBase THEN QueueLrn ELSE QueueDayLearn
    PROVE  RowOK(DropOriginalDue(a))
<1> DEFINE e == DropOriginalDue(a)
<1>1. /\ e.odue = 0 /\ e.did = a.did /\ e.odid = a.odid /\ e.type = a.type
      /\ e.due = a.due /\ e.queue = a.queue /\ e.ivl = a.ivl
  BY DEF DropOriginalDue, InAnswer, Rows, Dues
<1>2. e \in Rows
  <2>1. 0 \in Dues
    BY BoundsAssumption DEF Dues
  <2> QED BY <2>1 DEF DropOriginalDue, InAnswer, Rows
<1> HIDE DEF e
<1>3. RowOK(e)
  BY <1>1, <1>2, DecksAssumption
     DEF RowOK, InAnswer, RowLinked, RowDues, RowQueued, InDynamicDeck,
         Previewing, HomeDue, RestoreQueue
<1> QED BY <1>3 DEF e

\* Another learning step.
LEMMA RescheduleLrnOK ==
    ASSUME NEW r, InAnswer(r), r.type \in LearningTypes,
           NEW t \in FirstDay..MaxDay, NEW a \in RescheduleLrn(r, t)
    PROVE  RowOK(DropOriginalDue(a)) /\ a.lapses = r.lapses
<1>1. PICK d \in Dues, q \in {QueueLrn, QueueDayLearn} :
         /\ a = [r EXCEPT !.due = d, !.queue = q]
         /\ d > 0
         /\ q = IF d > SecBase THEN QueueLrn ELSE QueueDayLearn
  <2>1. CASE a = [r EXCEPT !.due = Seconds(t), !.queue = QueueLrn]
    <3>1. Seconds(t) \in Dues /\ Seconds(t) > SecBase /\ Seconds(t) > 0
      BY BoundsAssumption, CardsAssumption DEF Seconds, Dues
    <3> QED BY <2>1, <3>1
  <2>2. CASE \E ahead \in 1..MaxAhead :
               a = [r EXCEPT !.due = t + ahead, !.queue = QueueDayLearn]
    <3>1. PICK ahead \in 1..MaxAhead :
             a = [r EXCEPT !.due = t + ahead, !.queue = QueueDayLearn]
      BY <2>2
    <3>2. t + ahead \in Dues /\ t + ahead > 0 /\ ~(t + ahead > SecBase)
      BY BoundsAssumption, CardsAssumption DEF Dues
    <3> QED BY <3>1, <3>2
  <2> QED BY <2>1, <2>2 DEF RescheduleLrn
<1>2. /\ a.due = d /\ a.queue = q /\ a.did = r.did /\ a.odid = r.odid
      /\ a.odue = r.odue /\ a.type = r.type /\ a.ivl = r.ivl
      /\ a.lapses = r.lapses
  BY <1>1 DEF InAnswer, Rows
<1>3. a \in Rows
  <2>1. r \in Rows /\ q \in QueueManuallyBuried..QueuePreview
    BY DEF InAnswer
  <2> QED BY <1>1, <2>1 DEF Rows
<1>4. InAnswer(a)
  BY <1>2, <1>3 DEF InAnswer, RowLinked, InDynamicDeck, Previewing
<1> QED BY <1>1, <1>2, <1>4, LearningRowOK

\* Leaving a filtered deck as a review card.
LEMMA ReviewRowOK ==
    ASSUME NEW r, InAnswer(r), NEW i \in 1..IvlCeiling, NEW t \in FirstDay..MaxDay
    PROVE  /\ RowOK(RemoveFromFiltered(AsReview(r, i, t)))
           /\ RemoveFromFiltered(AsReview(r, i, t)).odue = 0
           /\ RemoveFromFiltered(AsReview(r, i, t)).lapses = r.lapses
<1> DEFINE a == AsReview(r, i, t)
<1> DEFINE e == RemoveFromFiltered(a)
<1>1. t + i \in Dues /\ t + i > 0 /\ t + i <= SecBase /\ 0 \in Dues
  BY BoundsAssumption, CardsAssumption DEF Dues
<1>2. a \in Rows
  <2>1. /\ r \in Rows /\ i \in 0..IvlCeiling
        /\ QueueRev \in QueueManuallyBuried..QueuePreview
        /\ TypeRev \in TypeNew..TypeRelearn
    BY BoundsAssumption DEF InAnswer
  <2> QED BY <1>1, <2>1 DEF Rows, AsReview
<1>3. /\ a.ivl = i /\ a.due = t + i /\ a.queue = QueueRev /\ a.type = TypeRev
      /\ a.did = r.did /\ a.odid = r.odid /\ a.odue = r.odue
      /\ a.lapses = r.lapses
  BY DEF InAnswer, Rows, AsReview
<1> HIDE DEF a
<1>4. RowLinked(a)
  BY <1>3 DEF InAnswer, RowLinked, InDynamicDeck
<1>5. e \in Rows /\ e.odid = NoDeck /\ e.did \in StdDecks /\ e.odue = 0
      /\ e.ivl = i /\ e.due = t + i /\ e.queue = QueueRev /\ e.type = TypeRev
      /\ e.lapses = r.lapses
  <2>1. CASE InDynamicDeck(a)
    <3>1. a.odid \in StdDecks
      BY <2>1, <1>2 DEF InDynamicDeck, Rows
    <3>2. e = [a EXCEPT !.did = a.odid, !.odue = 0, !.odid = NoDeck]
      BY <2>1 DEF RemoveFromFiltered
    <3> HIDE DEF e
    <3>3. e \in Rows
      BY <3>1, <3>2, <1>1, <1>2 DEF Rows
    <3> QED BY <3>1, <3>2, <3>3, <1>2, <1>3 DEF Rows
  <2>2. CASE ~InDynamicDeck(a)
    BY <2>2, <1>2, <1>3, <1>4 DEF RemoveFromFiltered, RowLinked, InDynamicDeck, Rows
  <2> QED BY <2>1, <2>2
<1> HIDE DEF e
<1>6. RowOK(e)
  BY <1>1, <1>5, DayRowOK DEF InDynamicDeck
<1> QED BY <1>5, <1>6 DEF e, a

\* Graduating, from learning or from a lapse.
LEMMA RescheduleAsRevOK ==
    ASSUME NEW r, InAnswer(r), NEW bonus \in 0..1, NEW t \in FirstDay..MaxDay,
           NEW a \in RescheduleAsRev(r, bonus, t)
    PROVE  RowOK(a) /\ a.odue = 0 /\ a.lapses = r.lapses
<1>1. GraduatingIvls(r, bonus) \subseteq 1..IvlCeiling
  BY OptionsAssumption, BoundsAssumption DEF GraduatingIvls, InAnswer, Rows
<1> QED BY <1>1, ReviewRowOK DEF RescheduleAsRev

\* The interval after a lapse is at least a day and never above the old one,
\* unless minInt is.
LEMMA LapseIvlBounds ==
    ASSUME NEW r \in Rows
    PROVE  LapseIvl(r) \in 1..IvlCeiling
<1>1. r.ivl \in Int /\ r.ivl >= 0 /\ r.ivl <= IvlCeiling
  BY BoundsAssumption DEF Rows
<1>2. /\ LapseMult \in Int /\ LapseMult >= 0 /\ LapseMult <= 100
      /\ MinLapseIvl \in Int /\ MinLapseIvl <= IvlCeiling
      /\ IvlCeiling \in Int /\ IvlCeiling >= 1
  BY OptionsAssumption, BoundsAssumption
<1> DEFINE p == r.ivl * LapseMult
<1>3. p \in Int /\ p <= 100 * r.ivl
  BY <1>1, <1>2
<1> HIDE DEF p
<1>4. p \div 100 \in Int /\ p \div 100 <= r.ivl
  BY <1>1, <1>3
<1> QED BY <1>1, <1>2, <1>4 DEF LapseIvl, MaxOf, p

\* Back to the first step.
LEMMA MoveToFirstStepOK ==
    ASSUME NEW r, InAnswer(r), r.type \in LearningTypes,
           NEW t \in FirstDay..MaxDay, NEW a \in MoveToFirstStep(r, t)
    PROVE  RowOK(DropOriginalDue(a)) /\ a.lapses = r.lapses
<1> DEFINE e == IF r.type = TypeRelearn
                THEN [r EXCEPT !.left = RelearnSteps, !.ivl = LapseIvl(r)]
                ELSE [r EXCEPT !.left = LearnSteps]
<1>1. r \in Rows /\ LapseIvl(r) \in 1..IvlCeiling /\ LapseIvl(r) \in 0..IvlCeiling
  BY LapseIvlBounds DEF InAnswer
<1>2. e \in Rows
  BY <1>1, OptionsAssumption DEF Rows
<1>3. /\ e.did = r.did /\ e.odid = r.odid /\ e.odue = r.odue /\ e.type = r.type
      /\ e.lapses = r.lapses
      /\ e.ivl = IF r.type = TypeRelearn THEN LapseIvl(r) ELSE r.ivl
  BY <1>1 DEF Rows
<1>4. a \in RescheduleLrn(e, t)
  BY DEF MoveToFirstStep
<1> HIDE DEF e
<1>5. InAnswer(e)
  BY <1>1, <1>2, <1>3 DEF InAnswer, RowLinked, InDynamicDeck, Previewing
<1> QED BY <1>3, <1>4, <1>5, RescheduleLrnOK

\* An answer of a card in learning.
LEMMA AnswerLrnOK ==
    ASSUME NEW r, InAnswer(r), r.type \in LearningTypes, NEW ease \in Ease,
           NEW t \in FirstDay..MaxDay, NEW a \in AnswerLrn(r, ease, t)
    PROVE  RowOK(DropOriginalDue(a)) /\ a.lapses = r.lapses
<1>1. ASSUME NEW bonus \in 0..1, a \in RescheduleAsRev(r, bonus, t)
      PROVE  RowOK(DropOriginalDue(a)) /\ a.lapses = r.lapses
  BY <1>1, RescheduleAsRevOK DEF DropOriginalDue
<1>2. CASE a \in RescheduleLrn(r, t)
  BY <1>2, RescheduleLrnOK
<1>3. CASE a \in RescheduleLrn([r EXCEPT !.left = @ - 1], t) /\ ~(r.left - 1 <= 0)
  <2> DEFINE e == [r EXCEPT !.left = @ - 1]
  <2>1. r.left - 1 \in Nat
    BY <1>3 DEF InAnswer, Rows
  <2>2. e \in Rows
    BY <2>1 DEF InAnswer, Rows
  <2>3. /\ e.did = r.did /\ e.odid = r.odid /\ e.odue = r.odue /\ e.type = r.type
        /\ e.lapses = r.lapses /\ e.ivl = r.ivl
    BY DEF InAnswer, Rows
  <2>4. a \in RescheduleLrn(e, t)
    BY <1>3
  <2> HIDE DEF e
  <2>5. InAnswer(e)
    BY <2>2, <2>3 DEF InAnswer, RowLinked, InDynamicDeck, Previewing
  <2> QED BY <2>3, <2>4, <2>5, RescheduleLrnOK
<1>4. CASE a \in MoveToFirstStep(r, t)
  BY <1>4, MoveToFirstStepOK
<1>5. CASE ease = 4
  <2>1. a \in RescheduleAsRev(r, 1, t)
    BY <1>5 DEF AnswerLrn
  <2> QED BY <1>1, <2>1
<1>6. CASE ease = 3
  <2>1. CASE r.left - 1 <= 0
    <3>1. a \in RescheduleAsRev(r, 0, t)
      BY <1>6, <2>1 DEF AnswerLrn
    <3> QED BY <1>1, <3>1
  <2>2. CASE ~(r.left - 1 <= 0)
    BY <1>3, <1>6, <2>2 DEF AnswerLrn
  <2> QED BY <2>1, <2>2
<1>7. CASE ease = 2
  BY <1>2, <1>7 DEF AnswerLrn
<1>8. CASE ease = 1
  BY <1>4, <1>8 DEF AnswerLrn
<1> QED BY <1>5, <1>6, <1>7, <1>8 DEF Ease

\* A review card that was forgotten.
LEMMA RescheduleLapseOK ==
    ASSUME NEW r, InAnswer(r), r.type = TypeRev, NEW t \in FirstDay..MaxDay,
           NEW a \in RescheduleLapse(r, t)
    PROVE  RowOK(DropOriginalDue(a)) /\ a.lapses = r.lapses + 1
<1> DEFINE lapsed == [r EXCEPT !.lapses = @ + 1]
           relearn == [lapsed EXCEPT !.type = TypeRelearn]
           lapse == [lapsed EXCEPT !.ivl = LapseIvl(r)]
<1>1. r \in Rows /\ LapseIvl(r) \in 1..IvlCeiling /\ LapseIvl(r) \in 0..IvlCeiling
  BY LapseIvlBounds DEF InAnswer
<1>2. lapsed \in Rows
  BY <1>1 DEF Rows
<1>3. /\ lapsed.did = r.did /\ lapsed.odid = r.odid /\ lapsed.odue = r.odue
      /\ lapsed.type = r.type /\ lapsed.ivl = r.ivl
      /\ lapsed.lapses = r.lapses + 1
  BY <1>1 DEF Rows
<1> HIDE DEF lapsed
<1>4. relearn \in Rows
  BY <1>2 DEF Rows
<1>5. /\ relearn.did = r.did /\ relearn.odid = r.odid /\ relearn.odue = r.odue
      /\ relearn.type = TypeRelearn /\ relearn.ivl = r.ivl
      /\ relearn.lapses = r.lapses + 1
  BY <1>2, <1>3 DEF Rows
<1>6. lapse \in Rows
  BY <1>1, <1>2 DEF Rows
<1>7. /\ lapse.did = r.did /\ lapse.odid = r.odid /\ lapse.odue = r.odue
      /\ lapse.type = r.type /\ lapse.ivl = LapseIvl(r)
      /\ lapse.lapses = r.lapses + 1
  BY <1>1, <1>2, <1>3 DEF Rows
<1>8. \/ a \in MoveToFirstStep(relearn, t)
      \/ \E g \in RescheduleAsRev(lapse, 0, t) : a = g \/ a = HoldRow(g, QueueSuspended)
  BY DEF RescheduleLapse, lapsed
<1> HIDE DEF relearn, lapse
<1>9. CASE a \in MoveToFirstStep(relearn, t)
  <2>1. InAnswer(relearn)
    BY <1>4, <1>5 DEF InAnswer, RowLinked, InDynamicDeck, Previewing
  <2> QED BY <1>5, <1>9, <2>1, MoveToFirstStepOK
<1>10. ASSUME NEW g \in RescheduleAsRev(lapse, 0, t), a = g \/ a = HoldRow(g, QueueSuspended)
       PROVE  RowOK(DropOriginalDue(a)) /\ a.lapses = r.lapses + 1
  <2>1. InAnswer(lapse)
    BY <1>1, <1>6, <1>7 DEF InAnswer, RowLinked, InDynamicDeck, Previewing
  <2>2. RowOK(g) /\ g.odue = 0 /\ g.lapses = r.lapses + 1
    BY <1>7, <2>1, RescheduleAsRevOK
  <2>3. RowOK(a)
    BY <1>10, <2>2, HeldRowOK
  <2>4. a.odue = 0 /\ a.lapses = r.lapses + 1
    BY <1>10, <2>2 DEF HoldRow, RowOK, Rows
  <2> QED BY <2>3, <2>4 DEF DropOriginalDue
<1> QED BY <1>8, <1>9, <1>10

\* A review card that was remembered.
LEMMA RescheduleRevOK ==
    ASSUME NEW r, InAnswer(r), r.type = TypeRev, r.queue = QueueRev,
           NEW t \in FirstDay..MaxDay, NEW a \in RescheduleRev(r, t)
    PROVE  RowOK(DropOriginalDue(a)) /\ a.lapses = r.lapses
<1>1. r \in Rows /\ r.ivl \in Nat
  BY BoundsAssumption DEF InAnswer, Rows
<1>2. PICK ivl \in 1..IvlCeiling :
         a = RemoveFromFiltered([r EXCEPT !.ivl = ivl, !.due = t + ivl])
  <2>1. ASSUME NEW prev \in Nat
        PROVE  ConstrainedIvls(prev) \subseteq 1..IvlCeiling
    BY OptionsAssumption, BoundsAssumption DEF ConstrainedIvls, MinOf
  <2>2. PICK prev \in {0, r.ivl} : \E ivl \in ConstrainedIvls(prev) :
           a = RemoveFromFiltered([r EXCEPT !.ivl = ivl, !.due = t + ivl])
    BY DEF RescheduleRev
  <2> QED BY <1>1, <2>1, <2>2
<1>3. [r EXCEPT !.ivl = ivl, !.due = t + ivl] = AsReview(r, ivl, t)
  BY <1>1 DEF AsReview, Rows
<1>4. RowOK(a) /\ a.odue = 0 /\ a.lapses = r.lapses
  BY <1>2, <1>3, ReviewRowOK
<1> QED BY <1>4 DEF DropOriginalDue

\* An answer in a preview deck.
LEMMA AnswerPreviewOK ==
    ASSUME NEW r, RowOK(r), Previewing(r), NEW t \in FirstDay..MaxDay,
           NEW ease, NEW a \in AnswerPreview(r, ease, t)
    PROVE  RowOK(a) /\ a.lapses = r.lapses
<1>1. /\ r \in Rows /\ InDynamicDeck(r) /\ r.odue > 0 /\ r.odid \in StdDecks
      /\ r.type \notin LearningTypes => r.odue <= SecBase
      /\ r.type \in {TypeRev, TypeRelearn} => r.ivl >= 1
      /\ r.did \in FilteredDecks
  BY DecksAssumption
     DEF RowOK, Rows, Dues, RowLinked, RowDues, Previewing, InDynamicDeck, HomeDue
<1>2. CASE a = [r EXCEPT !.queue = QueuePreview, !.due = Seconds(t)]
  <2>1. Seconds(t) \in Dues /\ Seconds(t) > SecBase
    BY BoundsAssumption, CardsAssumption DEF Seconds, Dues
  <2>2. a \in Rows
    <3>1. r \in Rows /\ QueuePreview \in QueueManuallyBuried..QueuePreview
      BY <1>1
    <3> QED BY <1>2, <2>1, <3>1 DEF Rows
  <2>3. /\ a.did = r.did /\ a.odid = r.odid /\ a.odue = r.odue
        /\ a.type = r.type /\ a.ivl = r.ivl /\ a.lapses = r.lapses
    BY <1>1, <1>2 DEF Rows
  <2>4. RowLinked(a) /\ RowDues(a) /\ RowQueued(a)
    BY <1>1, <2>3
       DEF RowLinked, RowDues, RowQueued, InDynamicDeck, Previewing, HomeDue, Rows, Dues
  <2> QED BY <2>2, <2>3, <2>4 DEF RowOK
<1>3. CASE a = RemoveFromFiltered(RestorePreviewRow(r))
  <2> DEFINE e == RestorePreviewRow(r)
             q == IF r.type \in LearningTypes
                  THEN IF r.odue > SecBase THEN QueueLrn ELSE QueueDayLearn
                  ELSE r.type
  <2>1. q \in QueueManuallyBuried..QueuePreview
    BY <1>1 DEF Rows
  <2>2. e = [r EXCEPT !.due = r.odue, !.queue = q]
    BY DEF RestorePreviewRow
  <2>3. r.odue \in Dues /\ 0 \in Dues
    BY <1>1, BoundsAssumption DEF Rows, Dues
  <2> HIDE DEF e
  <2>4. /\ e.due = r.odue /\ e.queue = q /\ e.odid = r.odid /\ e.type = r.type
        /\ e.ivl = r.ivl /\ e.lapses = r.lapses /\ e \in Rows
    <3> HIDE DEF q
    <3> QED BY <1>1, <2>1, <2>2, <2>3 DEF Rows
  <2>5. a = [e EXCEPT !.did = e.odid, !.odue = 0, !.odid = NoDeck]
    BY <1>1, <1>3, <2>4 DEF RemoveFromFiltered, InDynamicDeck, e
  <2>6. a \in Rows
    BY <1>1, <2>3, <2>4, <2>5 DEF Rows
  <2>7. /\ a.did = r.odid /\ a.odue = 0 /\ a.odid = NoDeck /\ a.due = r.odue
        /\ a.queue = q /\ a.type = r.type /\ a.ivl = r.ivl /\ a.lapses = r.lapses
    BY <2>4, <2>5 DEF Rows
  <2>8. RowLinked(a) /\ RowDues(a) /\ RowQueued(a)
    BY <1>1, <2>7, DecksAssumption
       DEF RowLinked, RowDues, RowQueued, InDynamicDeck, Previewing, HomeDue,
           RestoreQueue, Rows, Dues
  <2> QED BY <2>6, <2>7, <2>8 DEF RowOK
<1> QED BY <1>2, <1>3 DEF AnswerPreview

\* Whatever the queue a card came from and the button pressed, the row an
\* answer writes is sound.
LEMMA AnswerRowsOK ==
    ASSUME NEW r, RowOK(r), NEW ease \in Ease, NEW t \in FirstDay..MaxDay,
           NEW a \in AnswerRows(r, ease, t)
    PROVE  RowOK(a)
<1>1. CASE Previewing(r)
  BY <1>1, AnswerPreviewOK DEF AnswerRows
<1>2. CASE ~Previewing(r)
  <2>1. InAnswer(r)
    BY <1>2 DEF RowOK, RowDues, InAnswer
  <2>2. PICK b \in AnswerQueue(r, ease, t) : a = DropOriginalDue(b)
    BY <1>2 DEF AnswerRows
  <2>3. CASE r.queue = QueueNew
    <3> DEFINE q == StartLearning(r)
    <3>1. r \in Rows /\ QueueLrn \in QueueManuallyBuried..QueuePreview
                    /\ TypeLrn \in TypeNew..TypeRelearn
      BY DEF RowOK
    <3>2. q \in Rows
      BY <3>1, OptionsAssumption DEF StartLearning, Rows
    <3>3. /\ q.did = r.did /\ q.odid = r.odid /\ q.odue = r.odue
          /\ q.queue = QueueLrn /\ q.type = TypeLrn
      BY <3>1 DEF StartLearning, Rows
    <3>4. b \in AnswerLrn(q, ease, t)
      BY <2>2, <2>3, <3>3 DEF AnswerQueue
    <3> HIDE DEF q
    <3>5. InAnswer(q)
      BY <2>1, <3>2, <3>3 DEF InAnswer, RowLinked, InDynamicDeck, Previewing
    <3> QED BY <2>2, <3>3, <3>4, <3>5, AnswerLrnOK
  <2>4. CASE r.queue \in {QueueLrn, QueueDayLearn}
    <3>1. r.type \in LearningTypes
      BY <1>2, <2>4 DEF RowOK, RowQueued, RestoreQueue, Rows
    <3>2. b \in AnswerLrn(r, ease, t)
      BY <2>2, <2>4 DEF AnswerQueue
    <3> QED BY <2>1, <2>2, <3>1, <3>2, AnswerLrnOK
  <2>5. CASE r.queue = QueueRev
    <3>1. r.type = TypeRev
      BY <1>2, <2>5 DEF RowOK, RowQueued, RestoreQueue, Rows
    <3>2. b \in AnswerRev(r, ease, t)
      BY <2>2, <2>5 DEF AnswerQueue
    <3>3. b \in RescheduleLapse(r, t) \/ b \in RescheduleRev(r, t)
      BY <3>2 DEF AnswerRev
    <3> QED BY <2>1, <2>2, <2>5, <3>1, <3>3, RescheduleLapseOK, RescheduleRevOK
  <2> QED BY <2>2, <2>3, <2>4, <2>5 DEF AnswerQueue
<1> QED BY <1>1, <1>2

-----------------------------------------------------------------------------
(* What an answer makes of deck, stage, lapses and queue.                  *)

\* Row a is where row r was, or where r remembers it came from.
SameHome(r, a) ==
    \/ a.did = r.did /\ a.odid = r.odid
    \/ InDynamicDeck(r) /\ a.did = r.odid /\ a.odid = NoDeck

LEMMA StepOutcome ==
    ASSUME NEW r \in Rows, NEW t, NEW a \in RescheduleLrn(r, t)
    PROVE  /\ a.queue \in {QueueLrn, QueueDayLearn} /\ a.type = r.type
           /\ a.lapses = r.lapses /\ SameHome(r, a)
<1>1. \/ a = [r EXCEPT !.due = Seconds(t), !.queue = QueueLrn]
      \/ \E ahead \in 1..MaxAhead :
            a = [r EXCEPT !.due = t + ahead, !.queue = QueueDayLearn]
  BY DEF RescheduleLrn
<1> QED BY <1>1 DEF Rows, SameHome

LEMMA FirstStepOutcome ==
    ASSUME NEW r \in Rows, NEW t, NEW a \in MoveToFirstStep(r, t)
    PROVE  /\ a.queue \in {QueueLrn, QueueDayLearn} /\ a.type = r.type
           /\ a.lapses = r.lapses /\ SameHome(r, a)
<1> DEFINE e == IF r.type = TypeRelearn
                THEN [r EXCEPT !.left = RelearnSteps, !.ivl = LapseIvl(r)]
                ELSE [r EXCEPT !.left = LearnSteps]
<1>1. LapseIvl(r) \in 0..IvlCeiling
  BY LapseIvlBounds, BoundsAssumption
<1>2. /\ e \in Rows /\ e.did = r.did /\ e.odid = r.odid
      /\ e.type = r.type /\ e.lapses = r.lapses
  BY <1>1, OptionsAssumption DEF Rows
<1>3. a \in RescheduleLrn(e, t)
  BY DEF MoveToFirstStep
<1> HIDE DEF e
<1> QED BY <1>2, <1>3, StepOutcome DEF SameHome, InDynamicDeck

LEMMA TakenOutOutcome ==
    ASSUME NEW r \in Rows, NEW a, a = RemoveFromFiltered(r)
    PROVE  /\ a \in Rows /\ a.queue = r.queue /\ a.type = r.type
           /\ a.lapses = r.lapses /\ SameHome(r, a)
<1>1. 0 \in Dues
  BY BoundsAssumption DEF Dues
<1> QED BY <1>1 DEF RemoveFromFiltered, Rows, SameHome, InDynamicDeck

LEMMA OriginalDueOutcome ==
    ASSUME NEW r \in Rows, NEW a, a = DropOriginalDue(r)
    PROVE  /\ a.queue = r.queue /\ a.type = r.type /\ a.lapses = r.lapses
           /\ a.did = r.did /\ a.odid = r.odid
BY DEF DropOriginalDue, Rows

LEMMA GraduatedOutcome ==
    ASSUME NEW r \in Rows, NEW bonus, NEW t \in FirstDay..MaxDay,
           NEW a \in RescheduleAsRev(r, bonus, t)
    PROVE  /\ a \in Rows /\ a.queue = QueueRev /\ a.type = TypeRev
           /\ a.lapses = r.lapses /\ SameHome(r, a)
<1>1. GraduatingIvls(r, bonus) \subseteq 0..IvlCeiling
  <2>1. GradIvls \subseteq 0..IvlCeiling
    BY OptionsAssumption, BoundsAssumption
  <2> QED BY <2>1 DEF GraduatingIvls
<1>2. PICK ivl \in GraduatingIvls(r, bonus) : a = RemoveFromFiltered(AsReview(r, ivl, t))
  BY DEF RescheduleAsRev
<1> DEFINE s == AsReview(r, ivl, t)
<1>3. t + ivl \in Dues /\ ivl \in 0..IvlCeiling
  BY <1>1, BoundsAssumption, CardsAssumption DEF Dues
<1>4. /\ s \in Rows /\ s.queue = QueueRev /\ s.type = TypeRev
      /\ s.lapses = r.lapses /\ s.did = r.did /\ s.odid = r.odid
  <2>1. /\ QueueRev \in QueueManuallyBuried..QueuePreview
        /\ TypeRev \in TypeNew..TypeRelearn
    OBVIOUS
  <2> QED BY <1>3, <2>1 DEF AsReview, Rows
<1> HIDE DEF s
<1> QED BY <1>2, <1>4, TakenOutOutcome DEF s, SameHome, InDynamicDeck

LEMMA LrnOutcome ==
    ASSUME NEW r \in Rows, NEW ease \in Ease, NEW t \in FirstDay..MaxDay,
           NEW a \in AnswerLrn(r, ease, t)
    PROVE  /\ a.queue >= 0 /\ a.type \in {r.type, TypeRev}
           /\ a.lapses = r.lapses /\ SameHome(r, a)
<1>1. \/ \E bonus \in 0..1 : a \in RescheduleAsRev(r, bonus, t)
      \/ a \in RescheduleLrn(r, t)
      \/ ~(r.left - 1 <= 0) /\ a \in RescheduleLrn([r EXCEPT !.left = @ - 1], t)
      \/ a \in MoveToFirstStep(r, t)
  BY DEF AnswerLrn, Ease
<1>2. CASE ~(r.left - 1 <= 0) /\ a \in RescheduleLrn([r EXCEPT !.left = @ - 1], t)
  <2> DEFINE e == [r EXCEPT !.left = @ - 1]
  <2>1. r.left - 1 \in Nat
    BY <1>2 DEF Rows
  <2>2. /\ e \in Rows /\ e.did = r.did /\ e.odid = r.odid
        /\ e.type = r.type /\ e.lapses = r.lapses
    BY <2>1 DEF Rows
  <2>3. a \in RescheduleLrn(e, t)
    BY <1>2
  <2> HIDE DEF e
  <2> QED BY <2>2, <2>3, StepOutcome DEF SameHome, InDynamicDeck
<1> QED BY <1>1, <1>2, GraduatedOutcome, StepOutcome, FirstStepOutcome

LEMMA LapseOutcome ==
    ASSUME NEW r \in Rows, NEW t \in FirstDay..MaxDay, NEW a \in RescheduleLapse(r, t)
    PROVE  /\ a.queue >= 0 \/ a.queue = QueueSuspended
           /\ a.type \in {TypeRev, TypeRelearn}
           /\ a.lapses = r.lapses + 1 /\ SameHome(r, a)
<1> DEFINE lapsed == [r EXCEPT !.lapses = @ + 1]
           relearn == [lapsed EXCEPT !.type = TypeRelearn]
           lapse == [lapsed EXCEPT !.ivl = LapseIvl(r)]
<1>1. /\ lapsed \in Rows /\ LapseIvl(r) \in 0..IvlCeiling
      /\ lapsed.did = r.did /\ lapsed.odid = r.odid /\ lapsed.lapses = r.lapses + 1
  BY LapseIvlBounds, BoundsAssumption DEF Rows
<1>2. \/ a \in MoveToFirstStep(relearn, t)
      \/ \E g \in RescheduleAsRev(lapse, 0, t) : a = g \/ a = HoldRow(g, QueueSuspended)
  BY DEF RescheduleLapse
<1> HIDE DEF lapsed
<1>3. /\ relearn \in Rows /\ relearn.did = r.did /\ relearn.odid = r.odid
      /\ relearn.type = TypeRelearn /\ relearn.lapses = r.lapses + 1
      /\ lapse \in Rows /\ lapse.did = r.did /\ lapse.odid = r.odid
      /\ lapse.lapses = r.lapses + 1
  BY <1>1 DEF Rows
<1> HIDE DEF relearn, lapse
<1>4. CASE a \in MoveToFirstStep(relearn, t)
  BY <1>3, <1>4, FirstStepOutcome DEF SameHome, InDynamicDeck
<1>5. ASSUME NEW g \in RescheduleAsRev(lapse, 0, t), a = g \/ a = HoldRow(g, QueueSuspended)
      PROVE  /\ a.queue >= 0 \/ a.queue = QueueSuspended
             /\ a.type \in {TypeRev, TypeRelearn}
             /\ a.lapses = r.lapses + 1 /\ SameHome(r, a)
  <2>1. /\ g \in Rows /\ g.queue = QueueRev /\ g.type = TypeRev
        /\ g.lapses = r.lapses + 1 /\ SameHome(lapse, g)
    BY <1>3, GraduatedOutcome
  <2>2. /\ a.queue = QueueRev \/ a.queue = QueueSuspended
        /\ a.type = TypeRev /\ a.lapses = g.lapses /\ a.did = g.did /\ a.odid = g.odid
    BY <1>5, <2>1 DEF HoldRow, Rows
  <2> QED BY <1>3, <2>1, <2>2 DEF SameHome, InDynamicDeck
<1> QED BY <1>2, <1>4, <1>5

LEMMA RevOutcome ==
    ASSUME NEW r \in Rows, r.queue = QueueRev, NEW t \in FirstDay..MaxDay,
           NEW a \in RescheduleRev(r, t)
    PROVE  a.queue = QueueRev /\ a.type = r.type /\ a.lapses = r.lapses /\ SameHome(r, a)
<1>1. r.ivl \in Nat
  BY BoundsAssumption DEF Rows
<1>2. ASSUME NEW prev \in Nat
      PROVE  ConstrainedIvls(prev) \subseteq 0..IvlCeiling
  BY OptionsAssumption, BoundsAssumption DEF ConstrainedIvls, MinOf
<1>3. PICK prev \in {0, r.ivl} : \E ivl \in ConstrainedIvls(prev) :
         a = RemoveFromFiltered([r EXCEPT !.ivl = ivl, !.due = t + ivl])
  BY DEF RescheduleRev
<1>4. PICK ivl \in 0..IvlCeiling :
         a = RemoveFromFiltered([r EXCEPT !.ivl = ivl, !.due = t + ivl])
  BY <1>1, <1>2, <1>3
<1> DEFINE u == [r EXCEPT !.ivl = ivl, !.due = t + ivl]
<1>5. t + ivl \in Dues
  BY BoundsAssumption, CardsAssumption DEF Dues
<1>6. /\ u \in Rows /\ u.queue = QueueRev /\ u.type = r.type
      /\ u.lapses = r.lapses /\ u.did = r.did /\ u.odid = r.odid
  BY <1>5 DEF Rows
<1> HIDE DEF u
<1> QED BY <1>4, <1>6, TakenOutOutcome DEF u, SameHome, InDynamicDeck

\* An answer outside preview decks: the card stays active, unless a lapse, which
\* only a review card has, suspends it.
LEMMA AnswerOutcome ==
    ASSUME NEW r, RowOK(r), ~Previewing(r), r.queue >= 0, NEW ease \in Ease,
           NEW t \in FirstDay..MaxDay, NEW a \in AnswerRows(r, ease, t)
    PROVE  /\ SameHome(r, a)
           /\ IF a.lapses = r.lapses
              THEN /\ a.queue >= 0
                   /\ a.type \in CASE r.type = TypeRev -> {TypeRev}
                                   [] r.type = TypeNew -> {TypeLrn, TypeRev}
                                   [] OTHER -> {r.type, TypeRev}
              ELSE /\ a.queue >= 0 \/ a.queue = QueueSuspended
                   /\ r.type = TypeRev /\ a.type \in {TypeRev, TypeRelearn}
                   /\ a.lapses = r.lapses + 1
<1> DEFINE q == IF r.queue = QueueNew THEN StartLearning(r) ELSE r
<1>1. PICK b \in AnswerQueue(r, ease, t) : a = DropOriginalDue(b)
  BY DEF AnswerRows
<1>2. r \in Rows /\ r.queue = RestoreQueue(r)
  BY DEF RowOK, RowQueued
<1>3. /\ q \in Rows /\ q.did = r.did /\ q.odid = r.odid /\ q.lapses = r.lapses
      /\ q.type = (IF r.type = TypeNew THEN TypeLrn ELSE r.type)
      /\ q.queue = QueueRev <=> r.type = TypeRev
  <2>1. QueueLrn \in QueueManuallyBuried..QueuePreview /\ TypeLrn \in TypeNew..TypeRelearn
    OBVIOUS
  <2>2. /\ r.queue = QueueNew <=> r.type = TypeNew
        /\ r.queue = QueueRev <=> r.type = TypeRev
    BY <1>2 DEF RestoreQueue, Rows
  <2> DEFINE l == StartLearning(r)
  <2>3. /\ l \in Rows /\ l.did = r.did /\ l.odid = r.odid /\ l.lapses = r.lapses
        /\ l.type = TypeLrn /\ l.queue = QueueLrn
    BY <1>2, <2>1, OptionsAssumption DEF StartLearning, Rows
  <2> HIDE DEF l
  <2> QED BY <1>2, <2>2, <2>3 DEF l
<1>4. \/ q.queue \in {QueueLrn, QueueDayLearn} /\ b \in AnswerLrn(q, ease, t)
      \/ q.queue = QueueRev /\ b \in RescheduleLapse(q, t)
      \/ q.queue = QueueRev /\ b \in RescheduleRev(q, t)
  BY DEF AnswerQueue, AnswerRev
<1> HIDE DEF q
<1>5. RowOK(a)
  BY AnswerRowsOK
<1>6. /\ a.queue = b.queue /\ a.type = b.type /\ a.lapses = b.lapses
      /\ a.did = b.did /\ a.odid = b.odid
  BY <1>1, <1>5 DEF DropOriginalDue, RowOK, Rows
<1>7. SameHome(q, b) /\ SameHome(r, a)
  BY <1>3, <1>4, <1>6, LrnOutcome, LapseOutcome, RevOutcome DEF SameHome, InDynamicDeck
<1>8. CASE q.queue \in {QueueLrn, QueueDayLearn} /\ b \in AnswerLrn(q, ease, t)
  <2>1. b.queue >= 0 /\ b.type \in {q.type, TypeRev} /\ b.lapses = q.lapses
    BY <1>3, <1>8, LrnOutcome
  <2> QED BY <1>3, <1>6, <1>7, <1>8, <2>1
<1>9. CASE q.queue = QueueRev /\ b \in RescheduleLapse(q, t)
  <2>1. /\ b.queue >= 0 \/ b.queue = QueueSuspended
        /\ b.type \in {TypeRev, TypeRelearn} /\ b.lapses = q.lapses + 1
    BY <1>3, <1>9, LapseOutcome
  <2>2. r.lapses \in Nat
    BY <1>2 DEF Rows
  <2> QED BY <1>3, <1>6, <1>7, <1>9, <2>1, <2>2
<1>10. CASE q.queue = QueueRev /\ b \in RescheduleRev(q, t)
  <2>1. b.queue = QueueRev /\ b.type = q.type /\ b.lapses = q.lapses
    BY <1>3, <1>10, RevOutcome
  <2> QED BY <1>3, <1>6, <1>7, <1>10, <2>1
<1> QED BY <1>4, <1>8, <1>9, <1>10

-----------------------------------------------------------------------------
(* The invariant.                                                          *)

LEMMA InitIInv == Init => IInv
<1> SUFFICES ASSUME Init PROVE IInv
  OBVIOUS
<1>1. ASSUME NEW c \in Cards PROVE RowOK(rows[c])
  <2>1. PICK d \in StdDecks : rows[c] = NewRow(d)
    BY DEF Init
  <2> QED BY <2>1, NewRowOK
<1>2. rows \in [Cards -> Rows]
  BY <1>1 DEF Init, RowOK
<1>3. today \in FirstDay..MaxDay
  BY CardsAssumption, BoundsAssumption DEF Init
<1> QED BY <1>1, <1>2, <1>3 DEF IInv

\* A step keeps the invariant when every row it leaves is sound.
LEMMA RowsStep ==
    ASSUME today' \in FirstDay..MaxDay,
           rows' = [c \in Cards |-> rows'[c]],
           \A c \in Cards : RowOK(rows'[c])
    PROVE  IInv'
BY DEF IInv, RowOK

\* Burying siblings keeps every row consistent.
LEMMA SiblingsBuriedOK ==
    ASSUME IInv, NEW c \in Cards, NEW k \in Cards
    PROVE  RowOK(SiblingsBuried(rows, c)[k])
<1>1. RowOK(rows[k]) /\ RowOK(HoldRow(rows[k], QueueSiblingBuried))
  BY HeldRowOK DEF IInv
<1> QED BY <1>1 DEF SiblingsBuried

\* sortCards gives each note of S a position of the new queue.
LEMMA PlacingsOK ==
    ASSUME NEW S \in SUBSET Cards, NEW start \in Nat \ {0},
           NEW place \in Placings(S, start), NEW c \in S
    PROVE  place[NoteOf[c]] \in 1..MaxPos
<1>1. NoteOf[c] \in Notes(S)
  BY DEF Notes
<1> QED BY <1>1, BoundsAssumption DEF Placings

\* No step of the specification leaves an unsound row.
LEMMA StepIInv ==
    ASSUME PositiveDues, IInv, [Next]_vars
    PROVE  IInv'
<1> USE DEF IInv
<1>1. ASSUME NEW c \in Cards, NEW ease \in Ease, Answer(c, ease)
      PROVE  IInv'
  <2>1. PICK answered \in AnswerRows(rows[c], ease, today) :
           rows' = [SiblingsBuried(rows, c) EXCEPT ![c] = answered]
    BY <1>1 DEF Answer
  <2>2. RowOK(answered)
    BY <2>1, AnswerRowsOK
  <2>3. ASSUME NEW k \in Cards PROVE RowOK(rows'[k])
    BY <2>1, <2>2, SiblingsBuriedOK DEF SiblingsBuried
  <2>4. rows' \in [Cards -> Rows] /\ today' = today
    BY <1>1, <2>1, <2>3 DEF RowOK, Answer, SiblingsBuried
  <2> QED BY <2>3, <2>4
<1>2. ASSUME NEW f \in FilteredDecks, NEW found \in SUBSET Cards, RebuildDyn(f, found)
      PROVE  IInv'
  <2> DEFINE Emptied(c) ==
                IF rows[c].did = f THEN EmptyDynRow(rows[c]) ELSE rows[c]
  <2>1. ASSUME NEW c \in Cards PROVE RowOK(Emptied(c))
    <3>1. rows[c].did = f => InDynamicDeck(rows[c])
      BY DEF RowOK, RowLinked
    <3> QED BY <3>1, EmptyDynRowOK
  <2>2. /\ \A c \in found : Gatherable(Emptied(c))
        /\ rows' = [c \in Cards |->
                IF c \in found THEN MoveToDynRow(Emptied(c), f) ELSE Emptied(c)]
        /\ today' = today
    BY <1>2 DEF RebuildDyn
  <2> HIDE DEF Emptied
  <2>3. ASSUME NEW c \in Cards PROVE RowOK(rows'[c])
    <3>1. c \in found => RowOK(MoveToDynRow(Emptied(c), f))
      BY <2>1, <2>2, MoveToDynRowOK
    <3> QED BY <2>1, <2>2, <3>1
  <2>4. rows' \in [Cards -> Rows]
    BY <2>2, <2>3 DEF RowOK
  <2> QED BY <2>2, <2>3, <2>4
<1>3. ASSUME NEW f \in FilteredDecks, EmptyDyn(f)
      PROVE  IInv'
  <2>1. ASSUME NEW c \in Cards PROVE RowOK(rows'[c])
    <3>1. rows[c].did = f => InDynamicDeck(rows[c])
      BY DEF RowOK, RowLinked
    <3> QED BY <1>3, <3>1, EmptyDynRowOK DEF EmptyDyn, UpdateRows
  <2> QED BY <1>3, <2>1, RowsStep DEF EmptyDyn, UpdateRows
<1>4. ASSUME NEW S \in SUBSET Cards, SuspendCards(S)
      PROVE  IInv'
  <2>1. ASSUME NEW c \in Cards PROVE RowOK(rows'[c])
    <3>1. RowOK(HoldRow(rows[c], QueueSuspended))
      BY HeldRowOK
    <3> QED BY <1>4, <3>1 DEF SuspendCards, UpdateRows
  <2> QED BY <1>4, <2>1, RowsStep DEF SuspendCards, UpdateRows
<1>5. ASSUME NEW S \in SUBSET Cards, UnsuspendCards(S)
      PROVE  IInv'
  <2>1. ASSUME NEW c \in Cards PROVE RowOK(rows'[c])
    BY <1>5, RestoreRowOK DEF UnsuspendCards, UpdateRows
  <2> QED BY <1>5, <2>1, RowsStep DEF UnsuspendCards, UpdateRows
<1>6. ASSUME NEW S \in SUBSET Cards, BuryCards(S)
      PROVE  IInv'
  <2>1. ASSUME NEW c \in Cards PROVE RowOK(rows'[c])
    <3>1. RowOK(HoldRow(rows[c], QueueManuallyBuried))
      BY HeldRowOK
    <3> QED BY <1>6, <3>1 DEF BuryCards, UpdateRows
  <2> QED BY <1>6, <2>1, RowsStep DEF BuryCards, UpdateRows
<1>7. ASSUME NEW dids, NEW queues, UnburyCardsForDeck(dids, queues)
      PROVE  IInv'
  <2>1. ASSUME NEW c \in Cards PROVE RowOK(rows'[c])
    BY <1>7, RestoreRowOK DEF UnburyCardsForDeck, UpdateRows
  <2> QED BY <1>7, <2>1, RowsStep DEF UnburyCardsForDeck, UpdateRows
<1>8. ASSUME NEW S \in SUBSET Cards, NEW start \in 1..MaxPos, ForgetCards(S, start)
      PROVE  IInv'
  <2>1. PICK place \in Placings(S, start) :
           rows' = [c \in Cards |-> IF c \in S
                                   THEN ForgetRow(rows[c], place[NoteOf[c]])
                                   ELSE rows[c]]
    BY <1>8 DEF ForgetCards, Forgotten
  <2>2. ASSUME NEW c \in Cards PROVE RowOK(rows'[c])
    BY <2>1, PlacingsOK, ForgetRowOK
  <2> QED BY <1>8, <2>1, <2>2, RowsStep DEF ForgetCards, Forgotten
<1>9. ASSUME NEW S \in SUBSET Cards, NEW days \in ReschedDays, ReschedCards(S, days)
      PROVE  IInv'
  <2>1. ASSUME NEW c \in Cards PROVE RowOK(rows'[c])
    BY <1>9, ReschedRowOK DEF ReschedCards, Rescheduled
  <2> QED BY <1>9, <2>1, RowsStep DEF ReschedCards, Rescheduled
<1>10. ASSUME NEW p \in Cards, NEW start \in 1..MaxPos, RepositionCards({p}, start)
      PROVE  IInv'
  <2> DEFINE next == start + Cardinality(Notes({p}))
  <2>1. PICK place \in Placings({p}, start), low \in Least(TakenFrom({p}, start), next) :
           rows' = Repositioned({p}, next, place, low)
    BY <1>10 DEF RepositionCards
  <2>2. next \in Nat \ {0} /\ low \in Int
    <3>1. Notes({p}) = {NoteOf[p]}
      BY DEF Notes
    <3>2. next = start + 1
      BY <3>1, FS_Singleton
    <3>3. \A d \in TakenFrom({p}, start) : d \in Int
      BY DEF TakenFrom, RowOK, Rows, Dues
    <3> HIDE DEF next
    <3>4. low = next \/ low \in TakenFrom({p}, start)
      BY <2>1 DEF Least
    <3> QED BY <3>2, <3>3, <3>4
  <2>3. \A c \in Cards \ {p} : rows'[c].due <= MaxOf(MaxPos, rows[c].due)
    BY <1>10 DEF RepositionCards
  <2> HIDE DEF next
  <2>4. ASSUME NEW c \in Cards PROVE RowOK(rows'[c])
    <3>1. CASE c = p
      <4>1. {p} \in SUBSET Cards /\ start \in Nat \ {0} /\ c \in {p}
        BY <3>1
      <4>2. place[NoteOf[c]] \in 1..MaxPos
        BY <2>1, <4>1, PlacingsOK
      <4> QED BY <2>1, <3>1, <4>2, PlaceRowOK DEF Repositioned
    <3>2. CASE c # p /\ rows[c].queue = QueueNew /\ rows[c].due >= low
      <4>1. rows[c] \in Rows /\ rows[c].due \in Int
        BY DEF RowOK, Rows, Dues
      <4>2. rows'[c] = [rows[c] EXCEPT !.due = rows[c].due + (next - low)]
        BY <2>1, <3>2 DEF Repositioned, ShiftRow
      <4>3. rows'[c].due = rows[c].due + (next - low)
        BY <4>1, <4>2 DEF Rows
      <4>4. rows[c].due + (next - low) \in 1..MaxOf(MaxPos, rows[c].due)
        BY <2>2, <2>3, <3>2, <4>1, <4>3, BoundsAssumption DEF MaxOf
      <4> QED BY <3>2, <4>2, <4>4, ShiftedRowOK
    <3>3. CASE c # p /\ ~(rows[c].queue = QueueNew /\ rows[c].due >= low)
      BY <2>1, <3>3 DEF Repositioned, ShiftRow
    <3> QED BY <3>1, <3>2, <3>3
  <2> QED BY <1>10, <2>1, <2>4, RowsStep DEF RepositionCards, Repositioned
<1>20. ASSUME NEW d \in StdDecks, SortDeck(d)
      PROVE  IInv'
  <2> DEFINE S == {c \in Cards : rows[c].did = d}
  <2>1. PICK place \in Placings(S, 1) :
           rows' = [c \in Cards |-> IF c \in S
                                   THEN PlaceRow(rows[c], place[NoteOf[c]])
                                   ELSE rows[c]]
    BY <1>20 DEF SortDeck
  <2>2. ASSUME NEW c \in Cards PROVE RowOK(rows'[c])
    <3>1. ASSUME c \in S PROVE place[NoteOf[c]] \in 1..MaxPos
      <4>1. S \in SUBSET Cards /\ 1 \in Nat \ {0}
        OBVIOUS
      <4> QED BY <2>1, <3>1, <4>1, PlacingsOK
    <3> QED BY <2>1, <3>1, PlaceRowOK
  <2> QED BY <1>20, <2>1, <2>2, RowsStep DEF SortDeck
<1>11. ASSUME NEW S \in SUBSET Cards, NEW d \in StdDecks, ChangeDeck(S, d)
      PROVE  IInv'
  <2>1. ASSUME NEW c \in Cards PROVE RowOK(rows'[c])
    <3>1. RowOK([RemFromDynRow(rows[c]) EXCEPT !.did = d])
      BY ChangeDeckRowOK
    <3> QED BY <1>11, <3>1 DEF ChangeDeck, UpdateRows
  <2> QED BY <1>11, <2>1, RowsStep DEF ChangeDeck, UpdateRows
<1>12. ASSUME NEW day \in (today + 1)..MaxDay, NewDay(day)
      PROVE  IInv'
  <2>1. ASSUME NEW c \in Cards PROVE RowOK(rows'[c])
    BY <1>12, RestoreRowOK DEF NewDay, UpdateRows
  <2>2. today' \in FirstDay..MaxDay
    BY <1>12, BoundsAssumption, CardsAssumption DEF NewDay
  <2> QED BY <1>12, <2>1, <2>2, RowsStep DEF NewDay, UpdateRows
<1>13. CASE UNCHANGED vars
  BY <1>13 DEF vars, RowOK
<1>19. ASSUME NEW c \in Cards, BurySiblings(c)
       PROVE  IInv'
  <2>1. ASSUME NEW k \in Cards PROVE RowOK(rows'[k])
    BY <1>19, SiblingsBuriedOK DEF BurySiblings
  <2> QED BY <1>19, <2>1, RowsStep DEF BurySiblings, SiblingsBuried
<1>14. CASE Study
  BY <1>1, <1>14, <1>19 DEF Study
<1>15. CASE Filter
  BY <1>2, <1>3, <1>15 DEF Filter
<1>16. CASE Hold
  <2>1. ASSUME NEW c \in Cards PROVE {c} \in SUBSET Cards
    OBVIOUS
  <2>2. ASSUME NEW c \in Cards, BuryNote(NoteOf[c]) PROVE IInv'
    BY <1>6, <2>2 DEF BuryNote
  <2> QED BY <1>4, <1>5, <1>6, <1>7, <1>16, <2>1, <2>2 DEF Hold
<1>17. CASE Edit
  <2>1. ASSUME NEW c \in Cards PROVE {c} \in SUBSET Cards
    OBVIOUS
  <2> QED BY <1>8, <1>9, <1>10, <1>11, <1>17, <1>20, <2>1 DEF Edit
<1>18. CASE Rollover
  BY <1>12, <1>18 DEF Rollover
<1> QED BY <1>13, <1>14, <1>15, <1>16, <1>17, <1>18 DEF Next

\* The invariant holds in every state of every behaviour.
LEMMA Invariance == PositiveDues => (Spec => []IInv)
<1> SUFFICES ASSUME PositiveDues PROVE Spec => []IInv
  OBVIOUS
<1>1. Init => IInv
  BY InitIInv
<1>2. IInv /\ [Next]_vars => IInv'
  BY StepIInv
<1> QED BY <1>1, <1>2, PTL DEF Spec

-----------------------------------------------------------------------------
(* The theorems.                                                           *)

\* The columns keep their ranges: no day number ever reaches the range of the
\* seconds, and no interval leaves its bounds.
THEOREM TypeCorrect == PositiveDues => (Spec => []TypeOK)
<1> SUFFICES ASSUME PositiveDues PROVE Spec => []TypeOK
  OBVIOUS
<1>1. IInv => TypeOK
  BY CardsAssumption, BoundsAssumption DEF IInv, TypeOK
<1> QED BY <1>1, Invariance, PTL

\* A row is in a filtered deck exactly when it remembers its home deck, and
\* remembers an original due date only there (SchedV2._moveToDyn, emptyDyn and
\* _removeFromFiltered never come apart).
THEOREM FilteredLinkHolds == PositiveDues => (Spec => []FilteredLink)
<1> SUFFICES ASSUME PositiveDues PROVE Spec => []FilteredLink
  OBVIOUS
<1>1. IInv => FilteredLink
  BY DEF IInv, FilteredLink, RowOK, RowLinked
<1> QED BY <1>1, Invariance, PTL

\* Outside preview decks the queue column is what SchedV2._restoreQueueSnippet
\* would compute, so holding a card back and giving it back is the identity.
THEOREM QueueIsRestorableHolds == PositiveDues => (Spec => []QueueIsRestorable)
<1> SUFFICES ASSUME PositiveDues PROVE Spec => []QueueIsRestorable
  OBVIOUS
<1>1. IInv => QueueIsRestorable
  BY DEF IInv, QueueIsRestorable, RowOK, RowQueued
<1> QED BY <1>1, Invariance, PTL

\* No card of an ordinary deck or of a filtered deck that reschedules is lost:
\* when its day has come a queue of SchedV2 can hand it out.
THEOREM DueCardIsFetchableHolds == PositiveDues => (Spec => []DueCardIsFetchable)
<1> SUFFICES ASSUME PositiveDues PROVE Spec => []DueCardIsFetchable
  OBVIOUS
<1>1. IInv => DueCardIsFetchable
  <2> SUFFICES ASSUME IInv, NEW c \in Cards,
                      rows[c].queue >= 0, ~Previewing(rows[c]),
                      \/ rows[c].type = TypeNew
                      \/ IF HomeDue(rows[c]) > SecBase
                         THEN HomeDue(rows[c]) <= Seconds(today)
                         ELSE HomeDue(rows[c]) <= today
               PROVE  Fetchable(rows[c], today)
    BY DEF DueCardIsFetchable
  <2> DEFINE r == rows[c]
  <2>1. RowOK(r) /\ today \in Nat /\ today <= SecBase
    BY BoundsAssumption, CardsAssumption DEF IInv
  <2> HIDE DEF r
  <2>2. r.queue = RestoreQueue(r)
    BY <2>1 DEF RowOK, RowQueued, r
  <2>3. CASE r.type = TypeNew
    BY <2>2, <2>3 DEF RestoreQueue, Fetchable, r
  <2>4. CASE r.type = TypeRev
    BY <2>1, <2>2, <2>4, BoundsAssumption
       DEF RestoreQueue, Fetchable, RowOK, RowLinked, RowDues, HomeDue, Rows, Dues, r
  <2>5. CASE r.type \in LearningTypes
    BY <2>1, <2>2, <2>5, BoundsAssumption
       DEF RestoreQueue, Fetchable, RowOK, RowLinked, RowDues, HomeDue, Rows, Dues,
           Seconds, InDynamicDeck, r
  <2> QED BY <2>1, <2>3, <2>4, <2>5 DEF RowOK, Rows
<1> QED BY <1>1, Invariance, PTL

\* SchedV2._answerCard never throws "Invalid queue", nor _earlyReviewIvl
\* "Unexpected card parameters", for a card a queue handed out.
THEOREM AnswerNeverThrowsHolds == PositiveDues => (Spec => []AnswerNeverThrows)
<1> SUFFICES ASSUME PositiveDues PROVE Spec => []AnswerNeverThrows
  OBVIOUS
<1>1. IInv => AnswerNeverThrows
  <2> SUFFICES ASSUME IInv, NEW c \in Cards, NEW ease \in Buttons(rows[c]),
                      Fetchable(rows[c], today), AnswerThrows(rows[c], ease, today)
               PROVE  FALSE
    BY DEF AnswerNeverThrows
  <2>1. RowOK(rows[c]) /\ ~Previewing(rows[c])
    BY DEF IInv, AnswerThrows
  <2> QED BY <2>1
          DEF RowOK, RowQueued, RestoreQueue, AnswerThrows, Fetchable, EarlyThrows, Rows
<1> QED BY <1>1, Invariance, PTL

-----------------------------------------------------------------------------
(* The abstract view of a row: what CardSchedule sees of it.               *)

HomeOf(r) == RemoveFromFiltered(r).did

\* The same card in the abstract view, held back or not.
SameCard(r, s) == HomeOf(s) = HomeOf(r) /\ ScheduleOf(s) = ScheduleOf(r)

LEMMA HomeOfRow ==
    ASSUME NEW r \in Rows
    PROVE  HomeOf(r) = IF InDynamicDeck(r) THEN r.odid ELSE r.did
BY DEF HomeOf, RemoveFromFiltered, Rows

LEMMA HoldOfRow ==
    ASSUME NEW r \in Rows
    PROVE  /\ HoldOf(r) = "active" <=> r.queue >= 0
           /\ HoldOf(r) = "suspended" <=> r.queue = QueueSuspended
           /\ HoldOf(r) = "buried" <=> r.queue \in BuriedQueues
BY DEF HoldOf, Suspended, Buried, Rows

LEMMA SameHold ==
    ASSUME NEW r \in Rows, NEW s \in Rows, s.queue = r.queue \/ (s.queue >= 0 /\ r.queue >= 0)
    PROVE  HoldOf(s) = HoldOf(r)
BY DEF HoldOf, Suspended, Buried

LEMMA HomeKept ==
    ASSUME NEW r \in Rows, NEW s \in Rows, SameHome(r, s)
    PROVE  HomeOf(s) = HomeOf(r)
BY HomeOfRow DEF SameHome, InDynamicDeck

LEMMA ScheduleFields ==
    ASSUME NEW r
    PROVE  /\ ScheduleOf(r).type = r.type /\ ScheduleOf(r).due = HomeDue(r)
           /\ ScheduleOf(r).ivl = r.ivl /\ ScheduleOf(r).lapses = r.lapses
BY DEF ScheduleOf

LEMMA SameCardOf ==
    ASSUME NEW r \in Rows, NEW s \in Rows, SameHome(r, s), HomeDue(s) = HomeDue(r),
           s.type = r.type, s.ivl = r.ivl, s.lapses = r.lapses
    PROVE  SameCard(r, s)
BY HomeKept DEF SameCard, ScheduleOf

\* Emptying, gathering and previewing show in nothing the abstract view has.
LEMMA EmptiedCard ==
    ASSUME NEW r, RowOK(r)
    PROVE  LET s == RemFromDynRow(r)
           IN  SameCard(r, s) /\ HoldOf(s) = HoldOf(r)
<1> DEFINE s == RemFromDynRow(r)
<1>1. r \in Rows /\ s \in Rows /\ r.odue >= 0
  BY RemFromDynRowOK DEF RowOK, RowDues
<1>2. CASE InDynamicDeck(r)
  <2>1. /\ s.did = r.odid /\ s.odid = NoDeck
        /\ s.queue = (IF r.queue < 0 THEN r.queue ELSE RestoreQueue(r))
        /\ s.due = (IF r.odue > 0 THEN r.odue ELSE r.due)
        /\ s.type = r.type /\ s.ivl = r.ivl /\ s.lapses = r.lapses
    BY <1>1, <1>2 DEF RemFromDynRow, EmptyDynRow, RestoreQueueWhenEmptying, Rows
  <2>2. RestoreQueue(r) >= 0 /\ r.odue \in Int /\ r.queue \in Int
    BY <1>1 DEF RestoreQueue, Rows, Dues
  <2> HIDE DEF s
  <2>3. HomeDue(s) = HomeDue(r)
    BY <1>1, <1>2, <2>1, <2>2 DEF HomeDue, InDynamicDeck
  <2>4. SameHome(r, s)
    BY <1>2, <2>1 DEF SameHome
  <2>5. SameCard(r, s)
    BY <1>1, <2>1, <2>3, <2>4, SameCardOf DEF s
  <2>6. s \in Rows
    BY <1>1 DEF s
  <2>7. s.queue = r.queue \/ (s.queue >= 0 /\ r.queue >= 0)
    BY <2>1, <2>2
  <2>8. HoldOf(s) = HoldOf(r)
    BY <1>1, <2>6, <2>7, SameHold
  <2> QED BY <2>5, <2>8 DEF s
<1>3. CASE ~InDynamicDeck(r)
  BY <1>3 DEF RemFromDynRow, SameCard
<1> QED BY <1>2, <1>3

LEMMA GatheredCard ==
    ASSUME NEW r, RowOK(r), Gatherable(r), NEW f \in FilteredDecks
    PROVE  LET s == MoveToDynRow(r, f)
           IN  SameCard(r, s) /\ HoldOf(s) = HoldOf(r)
<1> DEFINE s == MoveToDynRow(r, f)
<1>1. r \in Rows /\ s \in Rows /\ r.due > 0 /\ r.queue >= 0 /\ ~InDynamicDeck(r)
  BY MoveToDynRowOK DEF RowOK, RowDues, Gatherable
<1>2. /\ s.odid = r.did /\ s.odue = r.due
      /\ s.queue = (IF f \in PreviewDecks THEN QueueRev ELSE r.queue)
      /\ s.type = r.type /\ s.ivl = r.ivl /\ s.lapses = r.lapses
  BY <1>1 DEF MoveToDynRow, Rows
<1>3. r.did # NoDeck
  BY <1>1, DecksAssumption DEF Rows
<1> HIDE DEF s
<1>4. HomeDue(s) = HomeDue(r) /\ HomeOf(s) = HomeOf(r)
  BY <1>1, <1>2, <1>3, HomeOfRow DEF HomeDue, InDynamicDeck
<1>5. SameCard(r, s)
  BY <1>2, <1>4 DEF SameCard, ScheduleOf
<1>6. HoldOf(s) = HoldOf(r)
  BY <1>1, <1>2, SameHold
<1> QED BY <1>5, <1>6 DEF s

LEMMA PreviewedCard ==
    ASSUME NEW r, RowOK(r), Previewing(r), r.queue >= 0, NEW ease, NEW t \in FirstDay..MaxDay,
           NEW s \in AnswerPreview(r, ease, t)
    PROVE  SameCard(r, s) /\ HoldOf(s) = HoldOf(r)
<1>1. r \in Rows /\ r.odue > 0 /\ InDynamicDeck(r) /\ s \in Rows
  BY AnswerPreviewOK, DecksAssumption DEF RowOK, RowLinked, RowDues, Previewing, Rows, Dues
<1>2. CASE s = [r EXCEPT !.queue = QueuePreview, !.due = Seconds(t)]
  <2>1. /\ s.queue = QueuePreview /\ s.did = r.did /\ s.odid = r.odid /\ s.odue = r.odue
        /\ s.type = r.type /\ s.ivl = r.ivl /\ s.lapses = r.lapses
    BY <1>1, <1>2 DEF Rows
  <2>2. HomeDue(s) = HomeDue(r) /\ SameHome(r, s)
    BY <1>1, <2>1 DEF HomeDue, InDynamicDeck, SameHome
  <2> QED BY <1>1, <2>1, <2>2, SameCardOf, SameHold
<1>3. CASE s = RemoveFromFiltered(RestorePreviewRow(r))
  <2> DEFINE m == RestorePreviewRow(r)
  <2>1. /\ m = [[r EXCEPT !.due = r.odue] EXCEPT !.queue = m.queue]
        /\ m.queue >= 0
    BY <1>1 DEF RestorePreviewRow, Rows
  <2>2. /\ m.did = r.did /\ m.odid = r.odid /\ m.due = r.odue
        /\ m.type = r.type /\ m.ivl = r.ivl /\ m.lapses = r.lapses
    BY <1>1 DEF RestorePreviewRow, Rows
  <2>3. s = [m EXCEPT !.did = m.odid, !.odue = 0, !.odid = NoDeck]
    BY <1>1, <1>3, <2>2 DEF RemoveFromFiltered, InDynamicDeck
  <2>4. /\ s.did = r.odid /\ s.odid = NoDeck /\ s.due = r.odue /\ s.queue >= 0
        /\ s.type = r.type /\ s.ivl = r.ivl /\ s.lapses = r.lapses
    <3>1. DOMAIN m = {"did", "odid", "type", "queue", "due", "odue", "ivl", "left", "lapses"}
      BY <1>1 DEF RestorePreviewRow, Rows
    <3> HIDE DEF m
    <3> QED BY <2>1, <2>2, <2>3, <3>1
  <2>5. HomeDue(s) = HomeDue(r) /\ SameHome(r, s)
    BY <1>1, <2>4 DEF HomeDue, InDynamicDeck, SameHome
  <2> QED BY <1>1, <2>4, <2>5, SameCardOf, SameHold
<1> QED BY <1>2, <1>3 DEF AnswerPreview

\* Holding back and giving back.
LEMMA HeldCard ==
    ASSUME NEW r \in Rows, NEW q \in {QueueSuspended} \cup BuriedQueues
    PROVE  LET s == HoldRow(r, q)
           IN  /\ SameCard(r, s)
               /\ HoldOf(s) = IF q = QueueSuspended THEN "suspended" ELSE "buried"
<1> DEFINE s == HoldRow(r, q)
<1>1. /\ s \in Rows /\ s.queue = q /\ s.did = r.did /\ s.odid = r.odid /\ s.due = r.due
      /\ s.odue = r.odue /\ s.type = r.type /\ s.ivl = r.ivl /\ s.lapses = r.lapses
  BY DEF HoldRow, Rows
<1> HIDE DEF s
<1>2. SameCard(r, s)
  BY <1>1, SameCardOf DEF SameHome, HomeDue, InDynamicDeck
<1>3. HoldOf(s) = IF q = QueueSuspended THEN "suspended" ELSE "buried"
  BY <1>1 DEF HoldOf, Suspended, Buried
<1> QED BY <1>2, <1>3 DEF s

LEMMA RestoredCard ==
    ASSUME NEW r, RowOK(r)
    PROVE  LET s == RestoreRow(r)
           IN  SameCard(r, s) /\ HoldOf(s) = "active"
<1> DEFINE s == RestoreRow(r)
<1>1. r \in Rows /\ s \in Rows
  BY RestoreRowOK DEF RowOK
<1>2. /\ s.queue = RestoreQueue(r) /\ s.did = r.did /\ s.odid = r.odid /\ s.due = r.due
      /\ s.odue = r.odue /\ s.type = r.type /\ s.ivl = r.ivl /\ s.lapses = r.lapses
  BY <1>1 DEF RestoreRow, Rows
<1>3. RestoreQueue(r) >= 0
  BY <1>1 DEF RestoreQueue, Rows
<1> HIDE DEF s
<1>4. SameCard(r, s)
  BY <1>1, <1>2, SameCardOf DEF SameHome, HomeDue, InDynamicDeck
<1> QED BY <1>1, <1>2, <1>3, <1>4, HoldOfRow DEF s

\* Setting the schedule by hand.
LEMMA PlannedCard ==
    ASSUME NEW r, RowOK(r), NEW t, NEW s, RowOK(s),
           \/ \E pos : s = ForgetRow(r, pos)
           \/ \E days : s = ReschedRow(r, days, t)
    PROVE  /\ HomeOf(s) = HomeOf(r) /\ HoldOf(s) = "active"
           /\ s.type \in {TypeNew, TypeRev} /\ s.lapses = r.lapses
<1> DEFINE m == RemFromDynRow(r)
<1>1. m \in Rows /\ SameCard(r, m)
  BY RemFromDynRowOK, EmptiedCard DEF RowOK
<1>2. /\ s.did = m.did /\ s.odid = m.odid /\ s.lapses = m.lapses
      /\ s.type \in {TypeNew, TypeRev} /\ s.queue = s.type
  <2> HIDE DEF m
  <2>1. \A pos : LET x == [m EXCEPT !.type = TypeNew, !.queue = QueueNew,
                                    !.ivl = 0, !.due = pos, !.odue = 0]
                 IN  /\ x.did = m.did /\ x.odid = m.odid /\ x.lapses = m.lapses
                     /\ x.type = TypeNew /\ x.queue = QueueNew
    BY <1>1 DEF Rows
  <2>2. \A i, d : LET x == [m EXCEPT !.type = TypeRev, !.queue = QueueRev,
                                     !.ivl = i, !.due = d, !.odue = 0]
                  IN  /\ x.did = m.did /\ x.odid = m.odid /\ x.lapses = m.lapses
                      /\ x.type = TypeRev /\ x.queue = QueueRev
    BY <1>1 DEF Rows
  <2>3. CASE \E pos : s = ForgetRow(r, pos)
    <3>1. PICK pos : s = ForgetRow(r, pos)
      BY <2>3
    <3> QED BY <2>1, <3>1 DEF ForgetRow, m
  <2>4. CASE \E days : s = ReschedRow(r, days, t)
    <3>1. PICK days : s = ReschedRow(r, days, t)
      BY <2>4
    <3> DEFINE i == MaxOf(1, days)
               d == t + days
    <3>2. s = [m EXCEPT !.type = TypeRev, !.queue = QueueRev,
                        !.ivl = i, !.due = d, !.odue = 0]
      BY <3>1 DEF ReschedRow, m
    <3> HIDE DEF i, d
    <3> QED BY <2>2, <3>2
  <2> QED BY <2>3, <2>4
<1>3. m.lapses = r.lapses
  BY <1>1, ScheduleFields DEF SameCard
<1> HIDE DEF m
<1>4. HomeOf(s) = HomeOf(m)
  BY <1>1, <1>2, HomeKept DEF SameHome, RowOK
<1>5. HoldOf(s) = "active"
  BY <1>2, HoldOfRow DEF RowOK
<1> QED BY <1>1, <1>2, <1>3, <1>4, <1>5 DEF SameCard

\* Another place in the new queue, which outside preview decks only new cards
\* are in; a card of a filtered deck keeps its due date at home.
LEMMA ArrangedCard ==
    ASSUME NEW r, RowOK(r), NEW d, NEW s, RowOK(s), s = [r EXCEPT !.due = d],
           r.queue = QueueNew \/ r.type = TypeNew
    PROVE  /\ HomeOf(s) = HomeOf(r) /\ HoldOf(s) = HoldOf(r)
           /\ ScheduleOf(s) # ScheduleOf(r) => r.type = TypeNew
           /\ ScheduleOf(s) = [ScheduleOf(r) EXCEPT !.due = ScheduleOf(s).due]
<1>1. /\ r \in Rows /\ s \in Rows /\ s.did = r.did /\ s.odid = r.odid /\ s.odue = r.odue
      /\ s.queue = r.queue /\ s.type = r.type /\ s.ivl = r.ivl /\ s.lapses = r.lapses
  BY DEF RowOK, Rows
<1>2. HomeOf(s) = HomeOf(r) /\ HoldOf(s) = HoldOf(r)
  <2>1. HoldOf(s) = HoldOf(r)
    BY <1>1 DEF HoldOf, Suspended, Buried
  <2> QED BY <1>1, <2>1, HomeKept DEF SameHome
<1>3. CASE r.type = TypeNew
  BY <1>1, <1>2, <1>3 DEF ScheduleOf
<1>4. CASE r.type # TypeNew
  <2>1. Previewing(r)
    BY <1>1, <1>4 DEF RowOK, RowQueued, RestoreQueue, Rows
  <2>2. HomeDue(s) = HomeDue(r)
    BY <1>1, <2>1, DecksAssumption
       DEF RowOK, RowLinked, RowDues, Previewing, InDynamicDeck, HomeDue
  <2> QED BY <1>1, <1>2, <2>2 DEF ScheduleOf
<1> QED BY <1>3, <1>4

\* To another deck, out of the filtered deck first.
LEMMA MovedCard ==
    ASSUME NEW r, RowOK(r), NEW d \in StdDecks
    PROVE  LET s == [RemFromDynRow(r) EXCEPT !.did = d]
           IN  HomeOf(s) = d /\ ScheduleOf(s) = ScheduleOf(r) /\ HoldOf(s) = HoldOf(r)
<1> DEFINE m == RemFromDynRow(r)
           s == [m EXCEPT !.did = d]
<1>1. m \in Rows /\ ~InDynamicDeck(m) /\ SameCard(r, m) /\ HoldOf(m) = HoldOf(r)
  BY RemFromDynRowOK, EmptiedCard DEF RowOK
<1>2. s \in Rows
  BY ChangeDeckRowOK DEF RowOK
<1> HIDE DEF m
<1>3. /\ s.did = d /\ s.odid = m.odid /\ s.queue = m.queue /\ s.due = m.due
      /\ s.odue = m.odue /\ s.type = m.type /\ s.ivl = m.ivl /\ s.lapses = m.lapses
  BY <1>1 DEF Rows
<1> HIDE DEF s
<1>4. HomeOf(s) = d
  BY <1>1, <1>2, <1>3, HomeOfRow DEF InDynamicDeck
<1>5. ScheduleOf(s) = ScheduleOf(m)
  BY <1>3 DEF ScheduleOf, HomeDue, InDynamicDeck
<1>6. HoldOf(s) = HoldOf(m)
  BY <1>3 DEF HoldOf, Suspended, Buried
<1> QED BY <1>1, <1>4, <1>5, <1>6 DEF s, m, SameCard

-----------------------------------------------------------------------------
(* The steps of the abstract view.                                         *)

ViewInv == IInv /\ \A c \in Cards : rows[c].lapses <= MaxLapses

\* Every row is the same card as before.
SameCards == \A c \in Cards : SameCard(rows[c], rows'[c])

LEMMA ScheduleIn ==
    ASSUME NEW r \in Rows, r.lapses <= MaxLapses
    PROVE  ScheduleOf(r) \in [type: TypeNew..TypeRelearn, due: Dues, ivl: 0..IvlCeiling,
                              lapses: 0..MaxLapses]
<1>1. HomeDue(r) \in Dues /\ r.lapses \in 0..MaxLapses
  BY BoundsAssumption DEF HomeDue, Rows
<1> QED BY <1>1 DEF ScheduleOf, Rows

LEMMA SameLapses ==
    ASSUME NEW r, NEW s, ScheduleOf(s) = ScheduleOf(r)
    PROVE  s.lapses = r.lapses
BY ScheduleFields

LEMMA SuspendStep ==
    ASSUME NEW S \in SUBSET Cards, SameCards,
           \A c \in Cards : HoldOf(rows'[c]) = IF c \in S THEN "suspended" ELSE HoldOf(rows[c])
    PROVE  Schedule!Next
<1>1. Schedule!Suspend(S)
  BY DEF Schedule!Suspend, SameCards, SameCard, HomeOf
<1> QED BY <1>1 DEF Schedule!Next

LEMMA BuryStep ==
    ASSUME NEW S \in SUBSET Cards, SameCards,
           \A c \in Cards : HoldOf(rows'[c]) = IF c \in S THEN "buried" ELSE HoldOf(rows[c])
    PROVE  Schedule!Next
<1>1. Schedule!Bury(S)
  BY DEF Schedule!Bury, SameCards, SameCard, HomeOf
<1> QED BY <1>1 DEF Schedule!Next

LEMMA ReleaseStep ==
    ASSUME NEW S \in SUBSET Cards, NEW from \in {"suspended", "buried"}, SameCards,
           \A c \in S : HoldOf(rows[c]) = from,
           \A c \in Cards : HoldOf(rows'[c]) = IF c \in S THEN "active" ELSE HoldOf(rows[c])
    PROVE  Schedule!Next
<1>1. Schedule!Release(S, from)
  BY DEF Schedule!Release, SameCards, SameCard, HomeOf
<1> QED BY <1>1 DEF Schedule!Next

LEMMA ViewUnchanged ==
    ASSUME SameCards, \A c \in Cards : HoldOf(rows'[c]) = HoldOf(rows[c])
    PROVE  UNCHANGED Schedule!vars
BY DEF Schedule!vars, SameCards, SameCard, HomeOf

LEMMA PlanStep ==
    ASSUME NEW S \in SUBSET Cards,
           \A c \in Cards : HomeOf(rows'[c]) = HomeOf(rows[c]),
           \A c \in S : /\ rows'[c] \in Rows /\ rows'[c].lapses <= MaxLapses
                        /\ rows'[c].type \in {TypeNew, TypeRev}
                        /\ rows'[c].lapses = rows[c].lapses
                        /\ HoldOf(rows'[c]) = "active",
           \A c \in Cards \ S : rows'[c] = rows[c]
    PROVE  Schedule!Next
<1>1. ASSUME NEW c \in S
      PROVE  /\ ScheduleOf(rows'[c]) \in [type: TypeNew..TypeRelearn, due: Dues,
                                          ivl: 0..IvlCeiling, lapses: 0..MaxLapses]
             /\ ScheduleOf(rows'[c]).type \in {TypeNew, TypeRev}
             /\ ScheduleOf(rows'[c]).lapses = ScheduleOf(rows[c]).lapses
  BY ScheduleIn, ScheduleFields
<1>2. Schedule!Plan(S)
  BY <1>1 DEF Schedule!Plan, Schedule!New, Schedule!Review, HomeOf
<1> QED BY <1>2 DEF Schedule!Next

LEMMA ArrangeStep ==
    ASSUME \A c \in Cards :
              /\ HomeOf(rows'[c]) = HomeOf(rows[c]) /\ HoldOf(rows'[c]) = HoldOf(rows[c])
              /\ rows'[c] \in Rows /\ rows'[c].lapses <= MaxLapses
              /\ ScheduleOf(rows'[c]) # ScheduleOf(rows[c]) => rows[c].type = TypeNew
              /\ ScheduleOf(rows'[c])
                    = [ScheduleOf(rows[c]) EXCEPT !.due = ScheduleOf(rows'[c]).due]
    PROVE  Schedule!Next
<1> DEFINE S == {c \in Cards : ScheduleOf(rows'[c]) # ScheduleOf(rows[c])}
<1>1. ASSUME NEW c \in S
      PROVE  /\ ScheduleOf(rows'[c]) \in [type: TypeNew..TypeRelearn, due: Dues,
                                          ivl: 0..IvlCeiling, lapses: 0..MaxLapses]
             /\ ScheduleOf(rows[c]).type = TypeNew
  BY ScheduleIn, ScheduleFields
<1>2. Schedule!Arrange(S)
  BY <1>1 DEF Schedule!Arrange, Schedule!New, HomeOf
<1> QED BY <1>2 DEF Schedule!Next

LEMMA MoveStep ==
    ASSUME NEW S \in SUBSET Cards, NEW d \in StdDecks,
           \A c \in Cards :
              /\ HomeOf(rows'[c]) = IF c \in S THEN d ELSE HomeOf(rows[c])
              /\ ScheduleOf(rows'[c]) = ScheduleOf(rows[c])
              /\ HoldOf(rows'[c]) = HoldOf(rows[c])
    PROVE  Schedule!Next
<1>1. Schedule!Move(S, d)
  BY DEF Schedule!Move, HomeOf
<1> QED BY <1>1 DEF Schedule!Next

LEMMA StudyStep ==
    ASSUME NEW c \in Cards, NEW S \in SUBSET (Cards \ {c}),
           \A k \in S \cup {c} : HoldOf(rows[k]) = "active",
           HomeOf(rows'[c]) = HomeOf(rows[c]),
           \A k \in Cards \ {c} :
              /\ SameCard(rows[k], rows'[k])
              /\ HoldOf(rows'[k]) = IF k \in S THEN "buried" ELSE HoldOf(rows[k]),
           rows'[c] \in Rows, rows'[c].lapses <= MaxLapses,
           rows'[c].type \in Schedule!Reaches(rows[c].type),
           IF rows'[c].lapses = rows[c].lapses
           THEN HoldOf(rows'[c]) = "active"
           ELSE /\ rows[c].type = TypeRev /\ rows'[c].lapses = rows[c].lapses + 1
                /\ HoldOf(rows'[c]) \in {"active", "suspended"}
    PROVE  Schedule!Next
<1> DEFINE before == ScheduleOf(rows[c])
           after == ScheduleOf(rows'[c])
<1>1. /\ after \in [type: TypeNew..TypeRelearn, due: Dues, ivl: 0..IvlCeiling,
                    lapses: 0..MaxLapses]
      /\ after.type = rows'[c].type /\ before.type = rows[c].type
      /\ after.lapses = rows'[c].lapses /\ before.lapses = rows[c].lapses
  BY ScheduleIn, ScheduleFields
<1> HIDE DEF before, after
<1>2. \A k \in Cards \ {c} : /\ ScheduleOf(rows'[k]) = ScheduleOf(rows[k])
                             /\ HomeOf(rows'[k]) = HomeOf(rows[k])
  BY DEF SameCard
<1>3. [k \in Cards |-> ScheduleOf(rows'[k])]
         = [[k \in Cards |-> ScheduleOf(rows[k])] EXCEPT ![c] = after]
  BY <1>2 DEF after
<1>4. [k \in Cards |-> HomeOf(rows'[k])] = [k \in Cards |-> HomeOf(rows[k])]
  BY <1>2
<1>5. [k \in Cards |-> HoldOf(rows'[k])] =
         [k \in Cards |->
            CASE k = c -> IF after.lapses # before.lapses THEN HoldOf(rows'[c]) ELSE "active"
              [] k \in S -> "buried"
              [] OTHER -> HoldOf(rows[k])]
  BY <1>1
<1>6. Schedule!Study(c, S)
  BY <1>1, <1>3, <1>4, <1>5 DEF Schedule!Study, Schedule!Review, HomeOf, before, after
<1> QED BY <1>6 DEF Schedule!Next

\* The siblings that showing card c buries.
DueSiblings(c) == {k \in Siblings(c) : SiblingToBury(rows[k], today)}

LEMMA BuriedCards ==
    ASSUME IInv, NEW c \in Cards, NEW k \in Cards
    PROVE  LET s == SiblingsBuried(rows, c)[k]
           IN  /\ SameCard(rows[k], s)
               /\ HoldOf(s) = IF k \in DueSiblings(c) THEN "buried" ELSE HoldOf(rows[k])
               /\ k \in DueSiblings(c) => HoldOf(rows[k]) = "active" /\ k # c
<1>1. rows[k] \in Rows
  BY DEF IInv
<1>2. CASE k \in DueSiblings(c)
  <2>1. SiblingsBuried(rows, c)[k] = HoldRow(rows[k], QueueSiblingBuried)
    BY <1>2 DEF DueSiblings, SiblingsBuried
  <2>2. rows[k].queue >= 0 /\ k # c
    BY <1>2 DEF DueSiblings, SiblingToBury, Siblings
  <2> QED BY <1>1, <1>2, <2>1, <2>2, HeldCard, HoldOfRow
<1>3. CASE k \notin DueSiblings(c)
  BY <1>3 DEF DueSiblings, SiblingsBuried, SameCard
<1> QED BY <1>2, <1>3

LEMMA BurySiblingsView ==
    ASSUME ViewInv, NEW c \in Cards, BurySiblings(c)
    PROVE  Schedule!Next
<1>1. DueSiblings(c) \in SUBSET Cards
  BY DEF DueSiblings, Siblings
<1>2. SameCards /\ \A k \in Cards :
         HoldOf(rows'[k]) = IF k \in DueSiblings(c) THEN "buried" ELSE HoldOf(rows[k])
  BY BuriedCards DEF ViewInv, SameCards, BurySiblings
<1> QED BY <1>1, <1>2, BuryStep

LEMMA AnswerView ==
    ASSUME ViewInv, NEW c \in Cards, NEW ease \in Ease, Answer(c, ease), IInv'
    PROVE  Schedule!Next /\ \A k \in Cards : rows'[k].lapses <= MaxLapses
<1>1. PICK a \in AnswerRows(rows[c], ease, today) :
         /\ a.lapses <= MaxLapses
         /\ rows' = [SiblingsBuried(rows, c) EXCEPT ![c] = a]
  BY DEF Answer
<1> DEFINE S == DueSiblings(c)
<1>2. /\ S \in SUBSET (Cards \ {c}) /\ S \in SUBSET Cards
      /\ \A k \in S : HoldOf(rows[k]) = "active"
  BY BuriedCards DEF DueSiblings, Siblings, ViewInv
<1>3. rows'[c] = a /\ a.lapses <= MaxLapses /\ a \in Rows
  BY <1>1 DEF SiblingsBuried, IInv
<1>4. ASSUME NEW k \in Cards \ {c}
      PROVE  /\ SameCard(rows[k], rows'[k])
             /\ HoldOf(rows'[k]) = IF k \in S THEN "buried" ELSE HoldOf(rows[k])
  <2>1. rows'[k] = SiblingsBuried(rows, c)[k]
    BY <1>1 DEF SiblingsBuried
  <2> QED BY <2>1, BuriedCards DEF ViewInv
<1>5. RowOK(rows[c]) /\ rows[c] \in Rows /\ today \in FirstDay..MaxDay
      /\ rows[c].queue >= 0 /\ HoldOf(rows[c]) = "active"
  <2>1. RowOK(rows[c]) /\ rows[c] \in Rows /\ today \in FirstDay..MaxDay
    BY DEF ViewInv, IInv
  <2>2. rows[c].queue >= 0
    BY DEF Answer, Fetchable
  <2> QED BY <2>1, <2>2, HoldOfRow
<1>6. \A k \in Cards : rows'[k].lapses <= MaxLapses
  <2>1. ASSUME NEW k \in Cards \ {c} PROVE rows'[k].lapses <= MaxLapses
    <3>1. rows'[k].lapses = rows[k].lapses
      BY <1>4, SameLapses DEF SameCard
    <3> QED BY <3>1 DEF ViewInv
  <2> QED BY <1>3, <2>1
<1>7. CASE Previewing(rows[c])
  <2>1. SameCard(rows[c], a) /\ HoldOf(a) = HoldOf(rows[c])
    BY <1>5, <1>7, PreviewedCard DEF AnswerRows
  <2>2. SameCards /\ \A k \in Cards :
           HoldOf(rows'[k]) = IF k \in S THEN "buried" ELSE HoldOf(rows[k])
    <3>1. c \notin S
      BY <1>2
    <3> HIDE DEF S
    <3> QED BY <1>3, <1>4, <2>1, <3>1 DEF SameCards
  <2>3. Schedule!Next
    <3> HIDE DEF S
    <3> QED BY <1>2, <2>2, BuryStep
  <2> QED BY <1>6, <2>3
<1>8. CASE ~Previewing(rows[c])
  <2> DEFINE r == rows[c]
  <2>1. /\ SameHome(r, a)
        /\ IF a.lapses = r.lapses
           THEN /\ a.queue >= 0
                /\ a.type \in CASE r.type = TypeRev -> {TypeRev}
                                [] r.type = TypeNew -> {TypeLrn, TypeRev}
                                [] OTHER -> {r.type, TypeRev}
           ELSE /\ a.queue >= 0 \/ a.queue = QueueSuspended
                /\ r.type = TypeRev /\ a.type \in {TypeRev, TypeRelearn}
                /\ a.lapses = r.lapses + 1
    BY <1>5, <1>8, AnswerOutcome
  <2>2. r \in Rows
    BY <1>5
  <2>3. HomeOf(a) = HomeOf(r)
    BY <1>3, <2>1, <2>2, HomeKept
  <2> HIDE DEF r
  <2>4. a.type \in Schedule!Reaches(r.type)
    <3>1. r.type \in {TypeNew, TypeLrn, TypeRev, TypeRelearn}
      BY <2>2 DEF Rows
    <3> QED BY <2>1, <3>1 DEF Schedule!Reaches, Schedule!New, Schedule!Learning,
            Schedule!Review, Schedule!Relearning
  <2>5. IF a.lapses = r.lapses
        THEN HoldOf(a) = "active"
        ELSE /\ r.type = TypeRev /\ a.lapses = r.lapses + 1
             /\ HoldOf(a) \in {"active", "suspended"}
    BY <1>3, <2>1, HoldOfRow
  <2>6. \A k \in S \cup {c} : HoldOf(rows[k]) = "active"
    BY <1>2, <1>5
  <2>7. Schedule!Next
    <3> HIDE DEF S
    <3> QED BY <1>2, <1>3, <1>4, <2>3, <2>4, <2>5, <2>6, StudyStep DEF r
  <2> QED BY <1>6, <2>7
<1> QED BY <1>7, <1>8

\* Building and emptying a filtered deck are invisible.
LEMMA FilterView ==
    ASSUME ViewInv, Filter
    PROVE  UNCHANGED Schedule!vars /\ \A k \in Cards : rows'[k].lapses <= MaxLapses
<1> USE DEF ViewInv, IInv
<1>1. ASSUME NEW k \in Cards, NEW f \in FilteredDecks
      PROVE  LET e == IF rows[k].did = f THEN EmptyDynRow(rows[k]) ELSE rows[k]
             IN  RowOK(e) /\ SameCard(rows[k], e) /\ HoldOf(e) = HoldOf(rows[k])
  <2>1. CASE rows[k].did = f
    <3>1. InDynamicDeck(rows[k])
      BY <2>1 DEF RowOK, RowLinked
    <3>2. RemFromDynRow(rows[k]) = EmptyDynRow(rows[k])
      BY <3>1 DEF RemFromDynRow
    <3> QED BY <2>1, <3>2, EmptiedCard, RemFromDynRowOK
  <2>2. CASE rows[k].did # f
    BY <2>2 DEF SameCard
  <2> QED BY <2>1, <2>2
<1>2. ASSUME NEW f \in FilteredDecks,
             NEW found \in SUBSET Cards, RebuildDyn(f, found), NEW k \in Cards
      PROVE  SameCard(rows[k], rows'[k]) /\ HoldOf(rows'[k]) = HoldOf(rows[k])
  <2> DEFINE Emptied(c) == IF rows[c].did = f THEN EmptyDynRow(rows[c]) ELSE rows[c]
             e == Emptied(k)
  <2>1. /\ k \in found => Gatherable(e)
        /\ rows'[k] = IF k \in found THEN MoveToDynRow(e, f) ELSE e
    BY <1>2 DEF RebuildDyn
  <2>2. RowOK(e) /\ SameCard(rows[k], e) /\ HoldOf(e) = HoldOf(rows[k])
    BY <1>1
  <2> HIDE DEF e, Emptied
  <2>3. CASE k \in found
    BY <2>1, <2>2, <2>3, GatheredCard DEF SameCard
  <2>4. CASE k \notin found
    BY <2>1, <2>2, <2>4
  <2> QED BY <2>3, <2>4
<1>3. ASSUME NEW f \in FilteredDecks, EmptyDyn(f), NEW k \in Cards
      PROVE  SameCard(rows[k], rows'[k]) /\ HoldOf(rows'[k]) = HoldOf(rows[k])
  BY <1>1, <1>3 DEF EmptyDyn, UpdateRows
<1>4. SameCards /\ \A k \in Cards : HoldOf(rows'[k]) = HoldOf(rows[k])
  BY <1>2, <1>3 DEF Filter, SameCards
<1>5. \A k \in Cards : rows'[k].lapses <= MaxLapses
  BY <1>4, SameLapses DEF SameCards, SameCard
<1> QED BY <1>4, <1>5, ViewUnchanged

\* Suspending, burying and giving back.
LEMMA HoldView ==
    ASSUME ViewInv, Hold
    PROVE  Schedule!Next /\ \A k \in Cards : rows'[k].lapses <= MaxLapses
<1> USE DEF ViewInv, IInv
<1>1. ASSUME NEW S \in SUBSET Cards, SuspendCards(S)
      PROVE  /\ SameCards
             /\ \A k \in Cards :
                   HoldOf(rows'[k]) = IF k \in S THEN "suspended" ELSE HoldOf(rows[k])
  <2>1. ASSUME NEW k \in Cards
        PROVE  /\ SameCard(rows[k], HoldRow(rows[k], QueueSuspended))
               /\ HoldOf(HoldRow(rows[k], QueueSuspended)) = "suspended"
    BY HeldCard
  <2> QED BY <1>1, <2>1 DEF SuspendCards, UpdateRows, SameCards, SameCard
<1>2. ASSUME NEW S \in SUBSET Cards, BuryCards(S)
      PROVE  /\ SameCards
             /\ \A k \in Cards :
                   HoldOf(rows'[k]) = IF k \in S THEN "buried" ELSE HoldOf(rows[k])
  <2>1. ASSUME NEW k \in Cards
        PROVE  /\ SameCard(rows[k], HoldRow(rows[k], QueueManuallyBuried))
               /\ HoldOf(HoldRow(rows[k], QueueManuallyBuried)) = "buried"
    BY HeldCard
  <2> QED BY <1>2, <2>1 DEF BuryCards, UpdateRows, SameCards, SameCard
<1>3. ASSUME NEW S \in SUBSET Cards, UpdateRows(S, RestoreRow)
      PROVE  /\ SameCards
             /\ \A k \in Cards :
                   HoldOf(rows'[k]) = IF k \in S THEN "active" ELSE HoldOf(rows[k])
  BY <1>3, RestoredCard DEF UpdateRows, SameCards, SameCard
<1>4. ASSUME NEW c \in Cards, SuspendCards({c})
      PROVE  SameCards /\ Schedule!Next
  BY <1>1, <1>4, SuspendStep
<1>5. ASSUME NEW c \in Cards, UnsuspendCards({c})
      PROVE  SameCards /\ Schedule!Next
  <2> DEFINE S == {k \in {c} : Suspended(rows[k])}
  <2>1. S \in SUBSET Cards /\ \A k \in S : HoldOf(rows[k]) = "suspended"
    BY HoldOfRow DEF Suspended
  <2>2. UpdateRows(S, RestoreRow)
    BY <1>5 DEF UnsuspendCards, UpdateRows
  <2> HIDE DEF S
  <2> QED BY <1>3, <2>1, <2>2, ReleaseStep
<1>6. ASSUME NEW S \in SUBSET Cards, BuryCards(S)
      PROVE  SameCards /\ Schedule!Next
  BY <1>2, <1>6, BuryStep
<1>7. ASSUME NEW c \in Cards, BuryNote(NoteOf[c])
      PROVE  SameCards /\ Schedule!Next
  BY <1>6, <1>7 DEF BuryNote
<1>8. ASSUME NEW d \in Decks, NEW queues \in SUBSET BuriedQueues,
             UnburyCardsForDeck({d}, queues)
      PROVE  SameCards /\ Schedule!Next
  <2> DEFINE S == {c \in Cards : rows[c].did \in {d} /\ rows[c].queue \in queues}
  <2>1. S \in SUBSET Cards /\ \A k \in S : HoldOf(rows[k]) = "buried"
    BY HoldOfRow
  <2>2. UpdateRows(S, RestoreRow)
    BY <1>8 DEF UnburyCardsForDeck, UpdateRows
  <2> HIDE DEF S
  <2> QED BY <1>3, <2>1, <2>2, ReleaseStep
<1>9. SameCards /\ Schedule!Next
  <2>1. CASE \E c \in Cards : \/ SuspendCards({c}) \/ UnsuspendCards({c})
                              \/ BuryCards({c}) \/ BuryNote(NoteOf[c])
    BY <1>4, <1>5, <1>6, <1>7, <2>1
  <2>2. CASE \E d \in Decks, queues \in {BuriedQueues, {QueueSiblingBuried},
                                         {QueueManuallyBuried}} :
                UnburyCardsForDeck({d}, queues)
    BY <1>8, <2>2
  <2> QED BY <2>1, <2>2 DEF Hold
<1> QED BY <1>9, SameLapses DEF SameCards, SameCard

\* The rollover gives back everything buried.
LEMMA RolloverView ==
    ASSUME ViewInv, Rollover
    PROVE  Schedule!Next /\ \A k \in Cards : rows'[k].lapses <= MaxLapses
<1> USE DEF ViewInv, IInv
<1> DEFINE S == {c \in Cards : Buried(rows[c])}
<1>1. S \in SUBSET Cards /\ \A k \in S : HoldOf(rows[k]) = "buried"
  BY HoldOfRow DEF Buried
<1>2. rows' = [c \in Cards |-> IF c \in S THEN RestoreRow(rows[c]) ELSE rows[c]]
  BY DEF Rollover, NewDay, UpdateRows
<1> HIDE DEF S
<1>3. /\ SameCards
      /\ \A k \in Cards : HoldOf(rows'[k]) = IF k \in S THEN "active" ELSE HoldOf(rows[k])
  BY <1>2, RestoredCard DEF SameCards, SameCard
<1>4. Schedule!Next
  BY <1>1, <1>3, ReleaseStep
<1> QED BY <1>3, <1>4, SameLapses DEF SameCards, SameCard

\* Forgetting, rescheduling, putting in another order, moving to another deck.
LEMMA EditView ==
    ASSUME ViewInv, Edit, IInv'
    PROVE  Schedule!Next /\ \A k \in Cards : rows'[k].lapses <= MaxLapses
<1> USE DEF ViewInv, IInv
<1>1. ASSUME NEW c \in Cards,
             \A k \in Cards \ {c} : rows'[k] = rows[k],
             \/ \E pos : rows'[c] = ForgetRow(rows[c], pos)
             \/ \E days : rows'[c] = ReschedRow(rows[c], days, today)
      PROVE  Schedule!Next /\ \A k \in Cards : rows'[k].lapses <= MaxLapses
  <2>1. /\ HomeOf(rows'[c]) = HomeOf(rows[c]) /\ HoldOf(rows'[c]) = "active"
        /\ rows'[c].type \in {TypeNew, TypeRev} /\ rows'[c].lapses = rows[c].lapses
    BY <1>1, PlannedCard
  <2>2. \A k \in Cards : HomeOf(rows'[k]) = HomeOf(rows[k])
    BY <1>1, <2>1
  <2>3. \A k \in Cards : rows'[k].lapses <= MaxLapses
    BY <1>1, <2>1
  <2>4. {c} \in SUBSET Cards
    OBVIOUS
  <2>5. \A k \in {c} : /\ rows'[k] \in Rows /\ rows'[k].lapses <= MaxLapses
                       /\ rows'[k].type \in {TypeNew, TypeRev}
                       /\ rows'[k].lapses = rows[k].lapses
                       /\ HoldOf(rows'[k]) = "active"
    BY <2>1, <2>3
  <2> QED BY <1>1, <2>2, <2>3, <2>4, <2>5, PlanStep
<1>2. ASSUME NEW c \in Cards, NEW start \in 1..MaxPos, ForgetCards({c}, start)
      PROVE  Schedule!Next /\ \A k \in Cards : rows'[k].lapses <= MaxLapses
  <2>1. PICK place \in Placings({c}, start) :
           rows' = [k \in Cards |-> IF k \in {c}
                                   THEN ForgetRow(rows[k], place[NoteOf[k]])
                                   ELSE rows[k]]
    BY <1>2 DEF ForgetCards, Forgotten
  <2>2. rows'[c] = ForgetRow(rows[c], place[NoteOf[c]])
    BY <2>1
  <2> QED BY <1>1, <2>1, <2>2
<1>3. ASSUME NEW c \in Cards, NEW days \in ReschedDays, ReschedCards({c}, days)
      PROVE  Schedule!Next /\ \A k \in Cards : rows'[k].lapses <= MaxLapses
  <2>1. rows' = [k \in Cards |-> IF k \in {c} THEN ReschedRow(rows[k], days, today)
                                             ELSE rows[k]]
    BY <1>3 DEF ReschedCards, Rescheduled
  <2>2. rows'[c] = ReschedRow(rows[c], days, today)
    BY <2>1
  <2> QED BY <1>1, <2>1, <2>2
<1>4. ASSUME \A k \in Cards :
                \/ rows'[k] = rows[k]
                \/ /\ rows[k].queue = QueueNew \/ rows[k].type = TypeNew
                   /\ \E d : rows'[k] = [rows[k] EXCEPT !.due = d]
      PROVE  Schedule!Next /\ \A k \in Cards : rows'[k].lapses <= MaxLapses
  <2>1. ASSUME NEW k \in Cards
        PROVE  /\ HomeOf(rows'[k]) = HomeOf(rows[k]) /\ HoldOf(rows'[k]) = HoldOf(rows[k])
               /\ ScheduleOf(rows'[k]) # ScheduleOf(rows[k]) => rows[k].type = TypeNew
               /\ ScheduleOf(rows'[k])
                     = [ScheduleOf(rows[k]) EXCEPT !.due = ScheduleOf(rows'[k]).due]
    <3>1. CASE rows'[k] = rows[k]
      BY <3>1 DEF ScheduleOf
    <3>2. CASE rows'[k] # rows[k]
      <4>1. PICK d : rows'[k] = [rows[k] EXCEPT !.due = d]
        BY <1>4, <3>2
      <4>2. RowOK(rows[k]) /\ RowOK(rows'[k])
        OBVIOUS
      <4>3. rows[k].queue = QueueNew \/ rows[k].type = TypeNew
        BY <1>4, <3>2
      <4> DEFINE r == rows[k]
                 s == rows'[k]
      <4> HIDE DEF r, s
      <4>4. /\ RowOK(r) /\ RowOK(s) /\ s = [r EXCEPT !.due = d]
            /\ r.queue = QueueNew \/ r.type = TypeNew
        BY <4>1, <4>2, <4>3 DEF r, s
      <4>5. /\ HomeOf(s) = HomeOf(r) /\ HoldOf(s) = HoldOf(r)
            /\ ScheduleOf(s) # ScheduleOf(r) => r.type = TypeNew
            /\ ScheduleOf(s) = [ScheduleOf(r) EXCEPT !.due = ScheduleOf(s).due]
        BY <4>4, ArrangedCard
      <4> QED BY <4>5 DEF r, s
    <3> QED BY <3>1, <3>2
  <2>2. ASSUME NEW k \in Cards PROVE rows'[k].lapses <= MaxLapses
    <3>1. rows'[k] = rows[k] \/ \E d : rows'[k] = [rows[k] EXCEPT !.due = d]
      BY <1>4
    <3>2. rows'[k].lapses = rows[k].lapses
      BY <3>1 DEF Rows
    <3> QED BY <3>2
  <2> QED BY <2>1, <2>2, ArrangeStep
<1>5. ASSUME NEW c \in Cards, NEW start \in 1..MaxPos, RepositionCards({c}, start)
      PROVE  Schedule!Next /\ \A k \in Cards : rows'[k].lapses <= MaxLapses
  <2> DEFINE next == start + Cardinality(Notes({c}))
  <2>1. PICK place \in Placings({c}, start), low \in Least(TakenFrom({c}, start), next) :
           rows' = Repositioned({c}, next, place, low)
    BY <1>5 DEF RepositionCards
  <2> HIDE DEF next
  <2>2. ASSUME NEW k \in Cards
        PROVE  \/ rows'[k] = rows[k]
               \/ /\ rows[k].queue = QueueNew \/ rows[k].type = TypeNew
                  /\ \E d : rows'[k] = [rows[k] EXCEPT !.due = d]
    BY <2>1 DEF Repositioned, PlaceRow, ShiftRow
  <2> QED BY <1>4, <2>2
<1>6. ASSUME NEW d \in StdDecks, SortDeck(d)
      PROVE  Schedule!Next /\ \A k \in Cards : rows'[k].lapses <= MaxLapses
  <2>1. PICK place \in Placings({c \in Cards : rows[c].did = d}, 1) :
           rows' = [c \in Cards |-> IF c \in {k \in Cards : rows[k].did = d}
                                   THEN PlaceRow(rows[c], place[NoteOf[c]])
                                   ELSE rows[c]]
    BY <1>6 DEF SortDeck
  <2>2. ASSUME NEW k \in Cards
        PROVE  \/ rows'[k] = rows[k]
               \/ /\ rows[k].queue = QueueNew \/ rows[k].type = TypeNew
                  /\ \E due : rows'[k] = [rows[k] EXCEPT !.due = due]
    BY <2>1 DEF PlaceRow
  <2> QED BY <1>4, <2>2
<1>7. ASSUME NEW c \in Cards, NEW d \in StdDecks, ChangeDeck({c}, d)
      PROVE  Schedule!Next /\ \A k \in Cards : rows'[k].lapses <= MaxLapses
  <2>1. rows' = [k \in Cards |-> IF k \in {c} THEN [RemFromDynRow(rows[k]) EXCEPT !.did = d]
                                             ELSE rows[k]]
    BY <1>7 DEF ChangeDeck, UpdateRows
  <2>2. ASSUME NEW k \in Cards
        PROVE  /\ HomeOf(rows'[k]) = IF k \in {c} THEN d ELSE HomeOf(rows[k])
               /\ ScheduleOf(rows'[k]) = ScheduleOf(rows[k])
               /\ HoldOf(rows'[k]) = HoldOf(rows[k])
    BY <2>1, MovedCard
  <2>3. {c} \in SUBSET Cards
    OBVIOUS
  <2> QED BY <2>2, <2>3, MoveStep, SameLapses
<1> QED BY <1>2, <1>3, <1>5, <1>6, <1>7 DEF Edit

\* The mapping takes an initial state to an initial state.
LEMMA InitView == Init => Schedule!Init /\ ViewInv
<1> SUFFICES ASSUME Init PROVE Schedule!Init /\ ViewInv
  OBVIOUS
<1>1. ASSUME NEW c \in Cards
      PROVE  /\ HomeOf(rows[c]) \in StdDecks /\ HoldOf(rows[c]) = "active"
             /\ ScheduleOf(rows[c]) \in [type: TypeNew..TypeRelearn, due: Dues,
                                         ivl: 0..IvlCeiling, lapses: 0..MaxLapses]
             /\ ScheduleOf(rows[c]).type = TypeNew /\ ScheduleOf(rows[c]).lapses = 0
             /\ rows[c].lapses <= MaxLapses
  <2>1. PICK d \in StdDecks : rows[c] = NewRow(d)
    BY DEF Init
  <2>2. rows[c] \in Rows
    BY <2>1, NewRowOK DEF RowOK
  <2>3. /\ rows[c].did = d /\ rows[c].odid = NoDeck /\ rows[c].type = TypeNew
        /\ rows[c].queue = QueueNew /\ rows[c].lapses = 0
    BY <2>1 DEF NewRow
  <2>4. rows[c].lapses <= MaxLapses
    BY <2>3, BoundsAssumption
  <2> QED BY <2>2, <2>3, <2>4, HomeOfRow, HoldOfRow, ScheduleIn, ScheduleFields
          DEF InDynamicDeck
<1>2. Schedule!Init
  BY <1>1 DEF Schedule!Init, Schedule!New, HomeOf
<1> QED BY <1>1, <1>2, InitIInv DEF ViewInv

\* Every step maps to a step of CardSchedule or leaves the view as it was.
LEMMA StepView ==
    ASSUME PositiveDues, ViewInv, [Next]_vars
    PROVE  [Schedule!Next]_(Schedule!vars) /\ ViewInv'
<1>1. IInv'
  BY StepIInv DEF ViewInv
<1>2. CASE Study
  <2>1. CASE \E c \in Cards, ease \in Ease : Answer(c, ease)
    BY <1>1, <2>1, AnswerView DEF ViewInv
  <2>2. CASE \E c \in Cards : BurySiblings(c)
    <3>1. PICK c \in Cards : BurySiblings(c)
      BY <2>2
    <3>2. \A k \in Cards : rows'[k].lapses = rows[k].lapses
      BY <3>1, BuriedCards, SameLapses DEF BurySiblings, SameCard, ViewInv
    <3> QED BY <1>1, <3>1, <3>2, BurySiblingsView DEF ViewInv
  <2> QED BY <1>2, <2>1, <2>2 DEF Study
<1>3. CASE Filter
  BY <1>1, <1>3, FilterView DEF ViewInv
<1>4. CASE Hold
  BY <1>1, <1>4, HoldView DEF ViewInv
<1>5. CASE Edit
  BY <1>1, <1>5, EditView DEF ViewInv
<1>6. CASE Rollover
  BY <1>1, <1>6, RolloverView DEF ViewInv
<1>7. CASE UNCHANGED vars
  BY <1>1, <1>7 DEF vars, ViewInv, Schedule!vars
<1> QED BY <1>2, <1>3, <1>4, <1>5, <1>6, <1>7 DEF Next

\* Filtered decks are only a view: whatever the scheduler writes, what a card
\* is apart from filtered decks changes by the steps of CardSchedule alone.
THEOREM ImplementsScheduleHolds == PositiveDues => (Spec => ImplementsSchedule)
<1> SUFFICES ASSUME PositiveDues PROVE Spec => ImplementsSchedule
  OBVIOUS
<1>1. Init => Schedule!Init /\ ViewInv
  BY InitView
<1>2. ViewInv /\ [Next]_vars => [Schedule!Next]_(Schedule!vars) /\ ViewInv'
  BY StepView
<1> QED BY <1>1, <1>2, PTL DEF Spec, ImplementsSchedule, Schedule!Spec

-----------------------------------------------------------------------------
(* What a preview deck owes its cards.                                     *)

\* While a card stays in preview decks and is not held back, what emptying the
\* deck makes of it stays the same.
Owes(r, s) ==
    Previewing(r) /\ r.queue >= 0 /\ Previewing(s) /\ s.queue >= 0
        => EmptyDynRow(s) = EmptyDynRow(r)

LEMMA PreviewedRow ==
    ASSUME NEW r, RowOK(r), Previewing(r)
    PROVE  r \in Rows /\ InDynamicDeck(r) /\ r.odid \in StdDecks /\ r.odue > 0
BY DecksAssumption
   DEF RowOK, RowLinked, RowDues, Previewing, InDynamicDeck, Rows, Dues

\* Emptying reads the home deck, the original due date and the columns that no
\* preview writes, not the place and the queue in the preview deck.
LEMMA OwedAlike ==
    ASSUME NEW r, RowOK(r), NEW s, RowOK(s),
           s.odid = r.odid, s.odue = r.odue, s.type = r.type,
           s.ivl = r.ivl, s.left = r.left, s.lapses = r.lapses
    PROVE  Owes(r, s)
<1> SUFFICES ASSUME Previewing(r), r.queue >= 0, Previewing(s), s.queue >= 0
             PROVE  EmptyDynRow(s) = EmptyDynRow(r)
  BY DEF Owes
<1>1. r \in Rows /\ s \in Rows /\ r.odue > 0
  BY PreviewedRow
<1>2. RestoreQueueWhenEmptying(s) = RestoreQueueWhenEmptying(r)
  BY <1>1 DEF RestoreQueueWhenEmptying, RestoreQueue, Rows, Dues
<1>3. \A q, d : [s EXCEPT !.did = r.odid, !.queue = q, !.due = d, !.odue = 0, !.odid = NoDeck]
              = [r EXCEPT !.did = r.odid, !.queue = q, !.due = d, !.odue = 0, !.odid = NoDeck]
  BY <1>1 DEF Rows
<1> QED BY <1>1, <1>2, <1>3 DEF EmptyDynRow

LEMMA OwedOutside ==
    ASSUME NEW r, NEW s, RowOK(s), ~InDynamicDeck(s)
    PROVE  Owes(r, s)
BY PreviewedRow DEF Owes

LEMMA OwedHeld ==
    ASSUME NEW r, NEW s, r.queue < 0 \/ s.queue < 0, r.queue \in Int, s.queue \in Int
    PROVE  Owes(r, s)
BY DEF Owes

\* Building a preview deck anew gathers its cards with the due date they had.
LEMMA OwedRebuilt ==
    ASSUME NEW r, RowOK(r), NEW f \in FilteredDecks, NEW found,
           LET e == IF r.did = f THEN EmptyDynRow(r) ELSE r
           IN  found => Gatherable(e)
    PROVE  LET e == IF r.did = f THEN EmptyDynRow(r) ELSE r
           IN  Owes(r, IF found THEN MoveToDynRow(e, f) ELSE e)
<1> DEFINE e == IF r.did = f THEN EmptyDynRow(r) ELSE r
           s == IF found THEN MoveToDynRow(e, f) ELSE e
<1> SUFFICES ASSUME Previewing(r), r.queue >= 0, Previewing(s), s.queue >= 0
             PROVE  EmptyDynRow(s) = EmptyDynRow(r)
  BY DEF Owes
<1>1. r \in Rows /\ InDynamicDeck(r) /\ r.odid \in StdDecks /\ r.odue > 0
  BY PreviewedRow
<1>2. CASE r.did # f
  <2>1. s = r
    BY <1>1, <1>2 DEF Gatherable
  <2> QED BY <2>1
<1>3. CASE r.did = f
  <2>1. /\ RowOK(e) /\ e \in Rows /\ e.did = r.odid /\ e.due = r.odue
        /\ e.type = r.type /\ e.ivl = r.ivl /\ e.left = r.left /\ e.lapses = r.lapses
    BY <1>1, <1>3, EmptyDynRowOK DEF EmptyDynRow, RowOK, Rows
  <2>2. found
    <3>1. ~Previewing(e)
      BY <1>1, <2>1, DecksAssumption DEF Previewing
    <3> HIDE DEF e
    <3> QED BY <3>1
  <2>3. Gatherable(e) /\ s = MoveToDynRow(e, f)
    BY <2>2
  <2> HIDE DEF e
  <2>4. RowOK(MoveToDynRow(e, f))
    BY <2>1, <2>3, MoveToDynRowOK
  <2>5. /\ s.odid = r.odid /\ s.odue = r.odue /\ s.type = r.type
        /\ s.ivl = r.ivl /\ s.left = r.left /\ s.lapses = r.lapses
    BY <2>1, <2>3 DEF MoveToDynRow, Rows
  <2>6. Owes(r, s)
    BY <2>3, <2>4, <2>5, OwedAlike
  <2> QED BY <2>6 DEF Owes
<1> QED BY <1>2, <1>3

\* No step changes what a preview deck owes a card.
LEMMA OwedStep ==
    ASSUME PositiveDues, IInv, [Next]_vars, NEW c \in Cards
    PROVE  Owes(rows[c], rows'[c])
<1> DEFINE r == rows[c]
           s == rows'[c]
<1>1. RowOK(r) /\ RowOK(s) /\ r.queue \in Int /\ s.queue \in Int
      /\ today \in FirstDay..MaxDay
  BY StepIInv DEF IInv, RowOK, Rows
<1> HIDE DEF r, s
<1> SUFFICES Owes(r, s)
  BY DEF r, s
<1>2. ASSUME s = r PROVE Owes(r, s)
  BY <1>2 DEF Owes
<1>3. ASSUME \E q : s = HoldRow(r, q) /\ q < 0 PROVE Owes(r, s)
  <2>1. s.queue < 0
    BY <1>1, <1>3 DEF HoldRow, RowOK, Rows
  <2> QED BY <1>1, <2>1, OwedHeld
<1>4. ASSUME r.queue < 0 PROVE Owes(r, s)
  BY <1>1, <1>4, OwedHeld
<1>5. ASSUME \E d : s = [r EXCEPT !.due = d] PROVE Owes(r, s)
  <2>1. /\ s.odid = r.odid /\ s.odue = r.odue /\ s.type = r.type
        /\ s.ivl = r.ivl /\ s.left = r.left /\ s.lapses = r.lapses
    BY <1>1, <1>5 DEF RowOK, Rows
  <2> QED BY <1>1, <2>1, OwedAlike
<1>6. ASSUME s.odid = NoDeck PROVE Owes(r, s)
  BY <1>1, <1>6, OwedOutside DEF InDynamicDeck
<1>7. CASE Study
  <2>1. ASSUME NEW k \in Cards, s = SiblingsBuried(rows, k)[c] PROVE Owes(r, s)
    <3>1. s = r \/ s = HoldRow(r, QueueSiblingBuried)
      BY <2>1 DEF SiblingsBuried, r
    <3> QED BY <1>2, <1>3, <3>1
  <2>2. ASSUME NEW k \in Cards, NEW ease \in Ease, Answer(k, ease)
        PROVE  Owes(r, s)
    <3>1. PICK a \in AnswerRows(rows[k], ease, today) :
             rows' = [SiblingsBuried(rows, k) EXCEPT ![k] = a]
      BY <2>2 DEF Answer
    <3>2. CASE k # c
      BY <2>1, <3>1, <3>2 DEF SiblingsBuried, s
    <3>3. CASE k = c /\ Previewing(r)
      <4>1. s \in AnswerPreview(r, ease, today)
        BY <3>1, <3>3 DEF AnswerRows, SiblingsBuried, r, s
      <4>2. InDynamicDeck(r)
        BY <1>1, <3>3, PreviewedRow
      <4>3. CASE ease = 1
        <5>1. s = [r EXCEPT !.queue = QueuePreview, !.due = Seconds(today)]
          BY <4>1, <4>3 DEF AnswerPreview
        <5>2. /\ s.odid = r.odid /\ s.odue = r.odue /\ s.type = r.type
              /\ s.ivl = r.ivl /\ s.left = r.left /\ s.lapses = r.lapses
          BY <1>1, <5>1 DEF RowOK, Rows
        <5> QED BY <1>1, <5>2, OwedAlike
      <4>4. CASE ease = 2
        <5>1. s = RemoveFromFiltered(RestorePreviewRow(r))
          BY <4>1, <4>4 DEF AnswerPreview
        <5>2. s.odid = NoDeck
          BY <1>1, <4>2, <5>1
             DEF RemoveFromFiltered, RestorePreviewRow, InDynamicDeck, RowOK, Rows
        <5> QED BY <1>6, <5>2
      <4>5. CASE ease \notin {1, 2}
        BY <4>1, <4>5 DEF AnswerPreview, Ease
      <4> QED BY <4>3, <4>4, <4>5
    <3>4. CASE ~Previewing(r)
      BY <3>4 DEF Owes
    <3> QED BY <3>2, <3>3, <3>4
  <2> QED BY <1>7, <2>1, <2>2 DEF Study, BurySiblings, s
<1>8. CASE Filter
  <2>1. ASSUME NEW f \in FilteredDecks, NEW found \in SUBSET Cards, RebuildDyn(f, found)
        PROVE  Owes(r, s)
    <3> DEFINE e == IF r.did = f THEN EmptyDynRow(r) ELSE r
    <3>1. /\ c \in found => Gatherable(e)
          /\ s = IF c \in found THEN MoveToDynRow(e, f) ELSE e
      BY <2>1 DEF RebuildDyn, r, s
    <3> QED BY <1>1, <3>1, OwedRebuilt
  <2>2. ASSUME NEW f \in FilteredDecks, EmptyDyn(f) PROVE Owes(r, s)
    <3>1. CASE r.did = f
      <4>1. s = EmptyDynRow(r)
        BY <2>2, <3>1 DEF EmptyDyn, UpdateRows, r, s
      <4>2. s.odid = NoDeck
        BY <1>1, <4>1 DEF EmptyDynRow, RowOK, Rows
      <4> QED BY <1>6, <4>2
    <3>2. CASE r.did # f
      BY <1>2, <2>2, <3>2 DEF EmptyDyn, UpdateRows, r, s
    <3> QED BY <3>1, <3>2
  <2> QED BY <1>8, <2>1, <2>2 DEF Filter
<1>9. CASE Hold
  <2>1. \/ s = r
        \/ s = HoldRow(r, QueueSuspended)
        \/ s = HoldRow(r, QueueManuallyBuried)
        \/ r.queue < 0
    BY <1>9 DEF Hold, SuspendCards, UnsuspendCards, BuryCards, BuryNote,
                UnburyCardsForDeck, UpdateRows, Suspended, r, s
  <2> QED BY <1>2, <1>3, <1>4, <2>1
<1>10. CASE Edit
  <2>1. ASSUME NEW k \in Cards, NEW start \in 1..MaxPos, ForgetCards({k}, start)
        PROVE  Owes(r, s)
    <3>1. PICK place \in Placings({k}, start) :
             s = IF c \in {k} THEN ForgetRow(r, place[NoteOf[c]]) ELSE r
      BY <2>1 DEF ForgetCards, Forgotten, r, s
    <3>2. ASSUME s = ForgetRow(r, place[NoteOf[c]]) PROVE s.odid = NoDeck
      BY <1>1, <3>2, RemFromDynRowOK DEF ForgetRow, RowOK, Rows, InDynamicDeck
    <3> QED BY <1>2, <1>6, <3>1, <3>2
  <2>2. ASSUME NEW k \in Cards, NEW days \in ReschedDays, ReschedCards({k}, days)
        PROVE  Owes(r, s)
    <3>1. s = IF c \in {k} THEN ReschedRow(r, days, today) ELSE r
      BY <2>2 DEF ReschedCards, Rescheduled, r, s
    <3>2. ASSUME s = ReschedRow(r, days, today) PROVE s.odid = NoDeck
      BY <1>1, <3>2, RemFromDynRowOK DEF ReschedRow, RowOK, Rows, InDynamicDeck
    <3> QED BY <1>2, <1>6, <3>1, <3>2
  <2>3. ASSUME NEW k \in Cards, NEW start \in 1..MaxPos, RepositionCards({k}, start)
        PROVE  Owes(r, s)
    <3>1. s = r \/ \E d : s = [r EXCEPT !.due = d]
      BY <2>3 DEF RepositionCards, Repositioned, PlaceRow, ShiftRow, r, s
    <3> QED BY <1>2, <1>5, <3>1
  <2>4. ASSUME NEW d \in StdDecks, SortDeck(d)
        PROVE  Owes(r, s)
    <3>1. s = r \/ \E due : s = [r EXCEPT !.due = due]
      BY <2>4 DEF SortDeck, PlaceRow, r, s
    <3> QED BY <1>2, <1>5, <3>1
  <2>5. ASSUME NEW k \in Cards, NEW d \in StdDecks, ChangeDeck({k}, d)
        PROVE  Owes(r, s)
    <3>1. s = IF c \in {k} THEN [RemFromDynRow(r) EXCEPT !.did = d] ELSE r
      BY <2>5 DEF ChangeDeck, UpdateRows, r, s
    <3>2. ASSUME s = [RemFromDynRow(r) EXCEPT !.did = d] PROVE s.odid = NoDeck
      BY <1>1, <3>2, RemFromDynRowOK DEF RowOK, Rows, InDynamicDeck
    <3> QED BY <1>2, <1>6, <3>1, <3>2
  <2> QED BY <1>10, <2>1, <2>2, <2>3, <2>4, <2>5 DEF Edit
<1>11. CASE Rollover
  <2>1. s = r \/ r.queue < 0
    BY <1>11 DEF Rollover, NewDay, UpdateRows, Buried, r, s
  <2> QED BY <1>2, <1>4, <2>1
<1>12. CASE UNCHANGED vars
  BY <1>2, <1>12 DEF vars, r, s
<1> QED BY <1>7, <1>8, <1>9, <1>10, <1>11, <1>12 DEF Next

\* "Emptying the filtered deck should restore card": whatever was answered in
\* a preview deck, and however often it was built anew.
THEOREM EmptyingRestoresCardHolds == PositiveDues => (Spec => EmptyingRestoresCard)
<1> SUFFICES ASSUME PositiveDues PROVE Spec => EmptyingRestoresCard
  OBVIOUS
<1> DEFINE Restores == \A c \in Cards :
              /\ Previewing(rows[c]) /\ rows[c].queue >= 0
              /\ Previewing(rows'[c]) /\ rows'[c].queue >= 0
              => EmptyDynRow(rows'[c]) = EmptyDynRow(rows[c])
<1>1. IInv /\ [Next]_vars => Restores
  BY OwedStep DEF Owes
<1>2. IInv /\ [Next]_vars => [Restores]_vars
  BY <1>1
<1> QED BY <1>2, Invariance, PTL DEF Spec, EmptyingRestoresCard

=============================================================================

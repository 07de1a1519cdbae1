---------------------------- MODULE CardSchedule ----------------------------
(***************************************************************************)
(* What the scheduler promises about a card, with no filtered deck, queue  *)
(* or unit of time in sight: a card has a home deck, a schedule, and is    *)
(* active or held back.  Filtered decks are only a view: building one,     *)
(* emptying it and previewing in it change nothing of this.                *)
(***************************************************************************)
EXTENDS Integers

CONSTANTS Cards, StdDecks, Schedules

VARIABLES
    home,     \* the ordinary deck a card belongs to
    sched,    \* its type, due date, interval and lapses
    hold      \* "active", "suspended" or "buried"

vars == <<home, sched, hold>>

New == 0
Learning == 1
Review == 2
Relearning == 3

Init ==
    /\ home \in [Cards -> StdDecks]
    /\ sched \in [Cards -> {s \in Schedules : s.type = New /\ s.lapses = 0}]
    /\ hold = [c \in Cards |-> "active"]

\* The stage one answer may bring a card to.
Reaches(stage) ==
    CASE stage = New        -> {Learning, Review}
      [] stage = Learning   -> {Learning, Review}
      [] stage = Review     -> {Review, Relearning}
      [] stage = Relearning -> {Relearning, Review}

\* One answer reschedules one active card, and may bury siblings of it.  Only
\* a lapse, counted once, may suspend it.
Study(c, siblings) ==
    LET before == sched[c]
        after == sched'[c]
        lapsed == after.lapses # before.lapses
    IN  /\ \A k \in siblings \cup {c} : hold[k] = "active"
        /\ after \in Schedules
        /\ after.type \in Reaches(before.type)
        /\ lapsed => /\ before.type = Review
                     /\ after.lapses = before.lapses + 1
        /\ sched' = [sched EXCEPT ![c] = after]
        /\ hold' = [k \in Cards |->
              CASE k = c -> IF lapsed THEN hold'[c] ELSE "active"
                [] k \in siblings -> "buried"
                [] OTHER -> hold[k]]
        /\ hold'[c] \in {"active", "suspended"}
        /\ UNCHANGED home

\* Suspending, burying and giving back leave the schedule alone.
Suspend(S) ==
    /\ hold' = [c \in Cards |-> IF c \in S THEN "suspended" ELSE hold[c]]
    /\ UNCHANGED <<home, sched>>

Bury(S) ==
    /\ hold' = [c \in Cards |-> IF c \in S THEN "buried" ELSE hold[c]]
    /\ UNCHANGED <<home, sched>>

Release(S, from) ==
    /\ \A c \in S : hold[c] = from
    /\ hold' = [c \in Cards |-> IF c \in S THEN "active" ELSE hold[c]]
    /\ UNCHANGED <<home, sched>>

\* The user sets the schedule of cards by hand, which makes them active.
Plan(S) ==
    /\ \A c \in S : /\ sched'[c] \in Schedules
                    /\ sched'[c].type \in {New, Review}
                    /\ sched'[c].lapses = sched[c].lapses
    /\ sched' = [c \in Cards |-> IF c \in S THEN sched'[c] ELSE sched[c]]
    /\ hold' = [c \in Cards |-> IF c \in S THEN "active" ELSE hold[c]]
    /\ UNCHANGED home

\* The new queue is put in another order; cards held back stay so.
Arrange(S) ==
    /\ \A c \in S : /\ sched[c].type = New
                    /\ sched'[c] \in Schedules
                    /\ sched'[c] = [sched[c] EXCEPT !.due = sched'[c].due]
    /\ sched' = [c \in Cards |-> IF c \in S THEN sched'[c] ELSE sched[c]]
    /\ UNCHANGED <<home, hold>>

Move(S, d) ==
    /\ home' = [c \in Cards |-> IF c \in S THEN d ELSE home[c]]
    /\ UNCHANGED <<sched, hold>>

Next ==
    \/ \E c \in Cards : \E siblings \in SUBSET (Cards \ {c}) : Study(c, siblings)
    \/ \E S \in SUBSET Cards :
          \/ Suspend(S) \/ Bury(S) \/ Plan(S) \/ Arrange(S)
          \/ Release(S, "suspended") \/ Release(S, "buried")
          \/ \E d \in StdDecks : Move(S, d)

Spec == Init /\ [][Next]_vars

=============================================================================

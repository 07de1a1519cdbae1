--------------------------- MODULE MCSchedV2Cards ---------------------------
(* SchedV2Cards on a small instance: two sibling cards, an ordinary deck or *)
(* two, one filtered deck that reschedules and one that previews.           *)
EXTENDS SchedV2Cards, TLC

CONSTANTS c1, c2, n1, n2, dHome, dOther, dFilt, dPrev, dNone

SameNote == [c \in Cards |-> n1]

\* Sound with SameNote: no definition tells the cards, or the decks, apart.
Interchangeable == Permutations(Cards) \cup Permutations(StdDecks)

=============================================================================

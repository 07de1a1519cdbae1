-------------------------- MODULE MCCollectionUndo --------------------------
(* CollectionUndo on a small instance; see MCSchedV2Cards.                  *)
EXTENDS CollectionUndo

CONSTANTS c1, c2, n1, n2, dHome, dOther, dFilt, dPrev, dNone, noCard

SameNote == [c \in Cards |-> n1]
\* Sound with SameNote: no definition tells the cards, or the decks, apart.
Interchangeable == Permutations(Cards) \cup Permutations(StdDecks)

=============================================================================

------------------------------ MODULE MCSyncer ------------------------------
(* Syncer on two clients: a note with one card and perhaps a second, a log, *)
(* a deck and a model.                                                      *)
EXTENDS Syncer

CONSTANTS a, b, l1, c1, c2, n1, d1, m1

\* Both cards are of the one note.
MCNoteOf == [k \in Cards |-> n1]

\* The second card and the log are yet to be written.
MCInitial == {c1, n1, d1, m1}

=============================================================================

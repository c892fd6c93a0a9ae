----------------------------- MODULE BookMirror -----------------------------
(***************************************************************************)
(* What the order book engine promises to a reader of /health: the view is *)
(* either unsynced, or a true copy of the exchange's book after some       *)
(* update, and it follows the exchange forwards until it is given up.      *)
(***************************************************************************)
EXTENDS Naturals, Sequences

CONSTANTS Levels, Qty

VARIABLES
  books,  \* books[i]: the exchange's book after update i
  view    \* [synced, last, book, seen]: what the reader is shown

vars == <<books, view>>

Book == [Levels -> Qty \cup {0}]
NoView == [synced |-> FALSE, last |-> 0, book |-> [l \in Levels |-> 0], seen |-> {}]

\* The exchange's book after update id, restricted to the known levels.
ViewAt(id, known) ==
  [synced |-> TRUE, last |-> id, seen |-> known,
   book |-> [l \in Levels |-> IF l \in known THEN books[id][l] ELSE 0]]

Init == /\ \E b \in Book : books = <<b>>
        /\ view = NoView

\* The exchange moves on.
Trade == /\ \E b \in Book : books' = Append(books, b)
         /\ UNCHANGED view

\* The view is given up.
Drop == /\ view' = NoView
        /\ UNCHANGED books

\* A fresh copy is shown, of any update.
Adopt == /\ ~view.synced
         /\ \E id \in 1 .. Len(books), known \in SUBSET Levels :
              view' = ViewAt(id, known)
         /\ UNCHANGED books

\* The copy follows the exchange; what is known of the book only grows.
Follow == /\ view.synced
          /\ \E id \in view.last .. Len(books), known \in SUBSET Levels :
               /\ view.seen \subseteq known
               /\ view' = ViewAt(id, known)
          /\ UNCHANGED books

Next == Trade \/ Drop \/ Adopt \/ Follow

Spec == Init /\ [][Next]_vars
=============================================================================

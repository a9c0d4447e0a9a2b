------------------------------ MODULE Queueing ------------------------------
(***************************************************************************)
(* The ring lists of pistachio/include/queueing.h.  A list is a sequence:  *)
(* its first element is the one the list's head pointer designates, and an *)
(* empty sequence is a NULL head pointer.                                  *)
(***************************************************************************)
EXTENDS Integers, Sequences

\* The elements that a list links.
Members(q) == {q[i] : i \in DOMAIN q}

\* An element is linked at most once.
NoRepeats(q) == \A i, j \in DOMAIN q : q[i] = q[j] => i = j

\* ENQUEUE_LIST_TAIL: the element becomes the predecessor of the head.
EnqueueListTail(q, e) == Append(q, e)

\* Where the list links an element (once, see NoRepeats).
IndexOf(q, e) == CHOOSE i \in DOMAIN q : q[i] = e

\* The list without its i-th link; the other links keep their order.
Unlink(q, i) == [j \in 1 .. (Len(q) - 1) |-> IF j < i THEN q[j] ELSE q[j + 1]]

\* The list with e as its i-th link; the other links keep their order.
LinkAt(q, i, e) ==
    [j \in 1 .. (Len(q) + 1) |-> IF j < i THEN q[j] ELSE IF j = i THEN e ELSE q[j - 1]]

\* DEQUEUE_LIST: a head that is dequeued hands the head over to its successor.
DequeueList(q, e) == Unlink(q, IndexOf(q, e))
=============================================================================

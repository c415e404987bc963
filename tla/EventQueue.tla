----------------------------- MODULE EventQueue -----------------------------
(***************************************************************************)
(* What the event bus promises, without its locks and goroutines: a queue  *)
(* that takes events while it is open, handles each of them once and in    *)
(* their order, and is finished when it is closed and empty.               *)
(***************************************************************************)
EXTENDS Naturals, Sequences

CONSTANTS
    Event,             \* what passes through the queue
    Capacity           \* how many of them wait at most

VARIABLES queue, handled, open, finished

Init == queue = <<>> /\ handled = <<>> /\ open = TRUE /\ finished = FALSE

Accept(e) ==
    /\ open
    /\ Len(queue) < Capacity
    /\ queue' = Append(queue, e)
    /\ UNCHANGED <<handled, open, finished>>

Handle ==
    /\ queue # <<>>
    /\ queue' = Tail(queue)
    /\ handled' = Append(handled, Head(queue))
    /\ UNCHANGED <<open, finished>>

Close ==
    /\ open' = FALSE
    /\ UNCHANGED <<queue, handled, finished>>

Finish ==
    /\ ~open /\ queue = <<>>
    /\ finished' = TRUE
    /\ UNCHANGED <<queue, handled, open>>

Next == (\E e \in Event : Accept(e)) \/ Handle \/ Close \/ Finish

Spec == Init /\ [][Next]_<<queue, handled, open, finished>>
=============================================================================

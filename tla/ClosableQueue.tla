--------------------------- MODULE ClosableQueue ---------------------------
(***************************************************************************)
(* What lzhlib::thread::queue promises its clients, without locks, nodes   *)
(* or a condition variable: a FIFO queue that can be closed.  A push() is  *)
(* accepted while the queue is open and takes effect later; "closed and    *)
(* drained" is answered only when nothing is queued and nothing that was   *)
(* accepted is still on its way in.                                        *)
(***************************************************************************)
EXTENDS Sequences

CONSTANTS Threads, Values

VARIABLES
    queue,      \* the values in the queue, oldest first
    accepted,   \* threads whose push() was accepted and has not taken effect
    taken,      \* the values popped so far, in order
    isClosed,   \* close() has been called
    isDrained   \* some consumer was told "closed and drained"

qvars == <<queue, accepted, taken, isClosed, isDrained>>

QInit ==
    /\ queue = <<>> /\ taken = <<>>
    /\ accepted = {} /\ isClosed = FALSE /\ isDrained = FALSE

Accept(t) ==
    /\ ~isClosed
    /\ accepted' = accepted \cup {t}
    /\ UNCHANGED <<queue, taken, isClosed, isDrained>>

Put(t, v) ==
    /\ t \in accepted
    /\ accepted' = accepted \ {t}
    /\ queue' = Append(queue, v)
    /\ UNCHANGED <<taken, isClosed, isDrained>>

Take ==
    /\ queue # <<>>
    /\ taken' = Append(taken, Head(queue))
    /\ queue' = Tail(queue)
    /\ UNCHANGED <<accepted, isClosed, isDrained>>

Close ==
    /\ isClosed' = TRUE
    /\ UNCHANGED <<queue, accepted, taken, isDrained>>

Drain ==
    /\ isClosed /\ queue = <<>> /\ accepted = {}
    /\ isDrained' = TRUE
    /\ UNCHANGED <<queue, accepted, taken, isClosed>>

QNext ==
    \/ \E t \in Threads : Accept(t)
    \/ \E t \in Threads, v \in Values : Put(t, v)
    \/ Take \/ Close \/ Drain

QSpec == QInit /\ [][QNext]_qvars
=============================================================================

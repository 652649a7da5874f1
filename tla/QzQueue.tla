------------------------------ MODULE QzQueue ------------------------------
(***************************************************************************)
(* What the request ring of the asynchronous API promises: a bounded FIFO  *)
(* between the thread that submits requests and the thread that consumes   *)
(* them.  A place is occupied until the consumer has given it back, so a   *)
(* submission may be turned away while one request is only being taken.    *)
(***************************************************************************)
EXTENDS Naturals, Sequences

CONSTANTS Reqs,      \* the requests
          Capacity,  \* places in the queue
          Null       \* no request

VARIABLES queue,     \* the accepted requests, oldest first
          held,      \* the request the consumer is taking out, or Null
          rc,        \* what the last submission returned
          open       \* FALSE once the owner of the session has gone away

qvars == <<queue, held, rc, open>>

Occupied == Len(queue) + (IF held = Null THEN 0 ELSE 1)

Enqueue(r) ==
    /\ open /\ Occupied < Capacity
    /\ queue' = Append(queue, r)
    /\ rc' = "OK"
    /\ UNCHANGED <<held, open>>

Reject ==
    /\ open /\ Occupied >= Capacity
    /\ rc' = "FAIL"
    /\ UNCHANGED <<queue, held, open>>

Dequeue ==
    /\ held = Null /\ queue # << >>
    /\ held' = Head(queue)
    /\ queue' = Tail(queue)
    /\ UNCHANGED <<rc, open>>

GiveBack ==
    /\ held # Null
    /\ held' = Null
    /\ UNCHANGED <<queue, rc, open>>

Close ==
    /\ open /\ open' = FALSE
    /\ UNCHANGED <<queue, held, rc>>

\* What is still queued when the consumer ends is discarded.
Discard ==
    /\ ~open /\ held = Null
    /\ queue' = << >>
    /\ UNCHANGED <<held, rc, open>>

QInit == queue = << >> /\ held = Null /\ rc = "OK" /\ open = TRUE

QNext == \/ \E r \in Reqs : Enqueue(r)
         \/ Reject \/ Dequeue \/ GiveBack \/ Close \/ Discard

QSpec == QInit /\ [][QNext]_qvars
=============================================================================

------------------------------- MODULE QzRing -------------------------------
(***************************************************************************)
(* The request ring of the asynchronous API and the two threads around it. *)
(*                                                                         *)
(* The application's thread submits requests (qzAsyncReqSubmit enqueues    *)
(* with is_single_producer = 1 and posts the semaphore); AsyncReqConsumeJob *)
(* waits for the semaphore, dequeues and processes.  Each end of the ring  *)
(* has a head, moved when a place is reserved, and a tail, moved when the  *)
(* place is ready for the other end.  The indices run freely modulo        *)
(* Modulus (2^32 in the code) and select the place modulo the capacity.    *)
(* The session belongs to one application thread, so there is one producer; *)
(* when that thread exits, AsyncCtrlDestructor ends the consumer, which    *)
(* clears the ring.                                                        *)
(***************************************************************************)
EXTENDS Integers, Sequences

CONSTANTS Reqs,      \* request objects the application's thread can allocate
          Capacity,  \* async_queue_size
          Modulus,   \* values of a uint32_t
          Null

\* The places follow each other across a wrap of the indices only when the
\* capacity divides 2^32, as DEFAULT_ASYNC_QUEUE_SIZE = 1024 does.
ASSUME RingAssumption ==
    /\ Capacity \in Nat \ {0}
    /\ Modulus \in Nat
    /\ Modulus % Capacity = 0
    /\ Modulus >= 2 * (Capacity + 1)
    /\ Null \notin Reqs

VARIABLES
    prod_head, prod_tail, cons_head, cons_tail, elems,
    sem, async_ctrl_init,
    pcP, pOld, pReq, rc,    \* the application's thread in qzAsyncReqSubmit
    pcC, cOld, cReq         \* AsyncReqConsumeJob

prodVars == <<prod_head, prod_tail>>
consVars == <<cons_head, cons_tail>>
pVars    == <<pcP, pOld, pReq, rc>>
cVars    == <<pcC, cOld, cReq>>
vars == <<prodVars, consVars, elems, sem, async_ctrl_init, pVars, cVars>>

Places == 0..(Capacity - 1)
Place(index) == index % Capacity

\* Unsigned difference of two indices, and the same read as an int.
Minus(a, b)  == (a - b) % Modulus
AsInt(d)     == IF d >= Modulus \div 2 THEN d - Modulus ELSE d

Entries      == AsInt(Minus(prod_tail, cons_head))

\* Requests that exist: in the ring, being submitted or being processed.
Allocated == {elems[k] : k \in Places} \cup {pReq, cReq}

-----------------------------------------------------------------------------
(* The producer.                                                           *)

\* (FreeEntriesOfHead, FreeEntriesOffByOne and PPostNothing are faulty variants
\* of the operators that follow them; no specification uses them.)
FreeEntriesOfHead == (Capacity + cons_head - prod_head) % Modulus
FreeEntriesOffByOne == (Capacity + 1 + cons_tail - prod_head) % Modulus

FreeEntries == (Capacity + cons_tail - prod_head) % Modulus

\* qzCompress2 allocates a request; QzRingMoveProdHead reserves a place with a
\* plain store, or finds the ring full: QZ_FAIL, the request is freed.
PReserve(r) ==
    /\ pcP = "idle" /\ async_ctrl_init
    /\ r \notin Allocated
    /\ IF FreeEntries < 1
       THEN rc' = "FAIL" /\ UNCHANGED <<prod_head, pcP, pOld, pReq>>
       ELSE /\ pOld' = prod_head
            /\ prod_head' = (prod_head + 1) % Modulus
            /\ pReq' = r
            /\ pcP' = "write"
            /\ UNCHANGED rc
    /\ UNCHANGED <<prod_tail, consVars, elems, sem, async_ctrl_init, cVars>>

\* QzRingEnqueueElem.
PWrite ==
    /\ pcP = "write"
    /\ elems' = [elems EXCEPT ![Place(pOld)] = pReq]
    /\ pcP' = "publish"
    /\ UNCHANGED <<prodVars, consVars, sem, async_ctrl_init, pOld, pReq, rc,
                   cVars>>

\* QzRingUpdatTail: from here on the consumer may take the request.
PPublish ==
    /\ pcP = "publish"
    /\ prod_tail' = (pOld + 1) % Modulus
    /\ rc' = "OK"
    /\ pcP' = "post"
    /\ UNCHANGED <<prod_head, consVars, elems, sem, async_ctrl_init, pOld,
                   pReq, cVars>>

PPostNothing ==
    /\ pcP = "post"
    /\ pReq' = Null
    /\ pcP' = "idle"
    /\ UNCHANGED <<prodVars, consVars, elems, sem, async_ctrl_init, pOld, rc,
                   cVars>>

\* sem_post; the request now belongs to the consumer.
PPost ==
    /\ pcP = "post"
    /\ sem' = sem + 1
    /\ pReq' = Null
    /\ pcP' = "idle"
    /\ UNCHANGED <<prodVars, consVars, elems, async_ctrl_init, pOld, rc, cVars>>

\* The thread exits between two calls: AsyncCtrlDestructor.
PExit ==
    /\ pcP = "idle" /\ async_ctrl_init
    /\ async_ctrl_init' = FALSE
    /\ UNCHANGED <<prodVars, consVars, elems, sem, pVars, cVars>>

PNext == \/ \E r \in Reqs : PReserve(r)
         \/ PWrite \/ PPublish \/ PPost \/ PExit

-----------------------------------------------------------------------------
(* The consumer: AsyncReqConsumeJob.                                       *)

CLoop ==
    /\ pcC = "loop"
    /\ pcC' = IF async_ctrl_init THEN "wait" ELSE "clear"
    /\ UNCHANGED <<prodVars, consVars, elems, sem, async_ctrl_init, pVars,
                   cOld, cReq>>

\* sem_timedwait: a token is taken, or the time is up with none there.
CWait ==
    /\ pcC = "wait"
    /\ IF sem > 0 THEN sem' = sem - 1 /\ pcC' = "deq"
                  ELSE pcC' = "loop" /\ UNCHANGED sem
    /\ UNCHANGED <<prodVars, consVars, elems, async_ctrl_init, pVars, cOld,
                   cReq>>

\* QzRingMoveConsHead: the compare-and-swap has no competitor.  Without an
\* entry the token goes back to the semaphore.
CReserve ==
    /\ pcC = "deq"
    /\ IF Entries < 1
       THEN sem' = sem + 1 /\ pcC' = "loop" /\ UNCHANGED <<cons_head, cOld>>
       ELSE /\ cOld' = cons_head
            /\ cons_head' = (cons_head + 1) % Modulus
            /\ pcC' = "take"
            /\ UNCHANGED sem
    /\ UNCHANGED <<prodVars, cons_tail, elems, async_ctrl_init, pVars, cReq>>

\* QzRingDequeueElem empties the place.
CTake ==
    /\ pcC = "take"
    /\ cReq' = elems[Place(cOld)]
    /\ elems' = [elems EXCEPT ![Place(cOld)] = Null]
    /\ pcC' = "release"
    /\ UNCHANGED <<prodVars, consVars, sem, async_ctrl_init, pVars, cOld>>

\* QzRingUpdatTail, by a compare-and-swap that is tried once.
CRelease ==
    /\ pcC = "release"
    /\ cons_tail' = IF cons_tail = cOld THEN (cOld + 1) % Modulus ELSE cons_tail
    /\ pcC' = "process"
    /\ UNCHANGED <<prodVars, cons_head, elems, sem, async_ctrl_init, pVars,
                   cOld, cReq>>

\* The request is handed to AsyncCompressIn, AsyncDeCompressIn or the software
\* path, which make its callback and free it; that is outside this module.
CProcess ==
    /\ pcC = "process"
    /\ cReq' = Null
    /\ pcC' = "loop"
    /\ UNCHANGED <<prodVars, consVars, elems, sem, async_ctrl_init, pVars, cOld>>

\* QzClearRing, and the thread ends.
CClear ==
    /\ pcC = "clear"
    /\ elems' = [k \in Places |-> Null]
    /\ prod_head' = 0 /\ prod_tail' = 0 /\ cons_head' = 0 /\ cons_tail' = 0
    /\ pcC' = "ended"
    /\ UNCHANGED <<sem, async_ctrl_init, pVars, cOld, cReq>>

CNext == \/ CLoop \/ CWait \/ CReserve \/ CTake \/ CRelease \/ CProcess
         \/ CClear

-----------------------------------------------------------------------------
\* QzRingCreate, qzSetupAsyncCtrl.
Init ==
    /\ prod_head = 0 /\ prod_tail = 0 /\ cons_head = 0 /\ cons_tail = 0
    /\ elems = [k \in Places |-> Null]
    /\ sem = 0 /\ async_ctrl_init = TRUE
    /\ pcP = "idle" /\ pOld = 0 /\ pReq = Null /\ rc = "OK"
    /\ pcC = "loop" /\ cOld = 0 /\ cReq = Null

Rest == pcC = "ended" /\ UNCHANGED vars

Next == PNext \/ CNext \/ Rest

Spec == Init /\ [][Next]_vars

\* The consumer is scheduled, and a submission that has reserved its place is
\* completed; nothing makes the application submit or exit.
FairSpec == Spec /\ WF_vars(CNext) /\ WF_vars(PWrite \/ PPublish \/ PPost)

-----------------------------------------------------------------------------
(* Properties.                                                             *)

\* A reserved place is empty: QzRingEnqueueElem never overwrites a request the
\* consumer has not taken, whatever the two indices' distance to the wrap.
NeverOverwritten == pcP = "write" => elems[Place(pOld)] = Null

\* The ring is a bounded FIFO.  A request is in the queue from the move of the
\* producer's tail until the consumer has read its place.
First == IF pcC = "take" THEN cOld ELSE cons_head

Q == INSTANCE QzQueue WITH
        queue <- [i \in 1..Minus(prod_tail, First) |->
                    elems[Place(First + i - 1)]],
        held  <- IF pcC = "release" THEN cReq ELSE Null,
        open  <- async_ctrl_init

IsBoundedFIFO == Q!QSpec

\* An accepted request is dequeued and processed as long as the application's
\* thread lives.
Consumed ==
    \A r \in Reqs :
        (pcP = "post" /\ pReq = r) ~> (cReq = r \/ ~async_ctrl_init)

=============================================================================

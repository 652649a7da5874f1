-------------------------- MODULE QzCompress_proofs --------------------------
(***************************************************************************)
(* Proofs about the synchronous compression pipeline (module QzCompress).  *)
(***************************************************************************)
EXTENDS QzCompress, SequenceTheorems, TLAPS

\* The stream buffers are numbered from 0.
LEMMA SlotsFact == Slots \subseteq Nat /\ 0 \in Slots
BY NumBuffAssumption DEF Slots

\* Zeroing one cursor keeps the type of the cursors.
LEMMA SetZero ==
    ASSUME NEW f \in [Slots -> Int], NEW k
    PROVE  [f EXCEPT ![k] = 0] \in [Slots -> Int]
<1>1. \A m \in Slots : [f EXCEPT ![k] = 0][m] \in Int
  OBVIOUS
<1>. QED
  BY <1>1

-----------------------------------------------------------------------------
(* Type correctness.                                                       *)

\* The initial state is well typed.
LEMMA TypeInit == Init => TypeOK
<1> SUFFICES ASSUME Init PROVE TypeOK
  OBVIOUS
<1>1. TypeCall
  BY DEF Init, TypeCall, NoRequest, Requested, Codes
<1>2. TypeStream
  <2>1. NoAnswer \in Answers
    BY SlotsFact DEF NoAnswer, Answers
  <2>. QED
    BY <2>1 DEF Init, TypeStream
<1>3. TypeSess /\ TypeIn /\ TypeOut /\ TypeDev
  BY SlotsFact DEF Init, TypeSess, TypeIn, TypeOut, TypeDev, OutUpdates, Codes
<1>. QED
  BY <1>1, <1>2, <1>3 DEF Init, TypeOK

\* A step that leaves a group of variables alone keeps their types.
LEMMA TypeFrame ==
    /\ TypeCall /\ UNCHANGED callVars => TypeCall'
    /\ TypeSess /\ UNCHANGED sessVars => TypeSess'
    /\ TypeStream /\ UNCHANGED streamVars => TypeStream'
    /\ TypeIn /\ UNCHANGED inVars => TypeIn'
    /\ TypeOut /\ UNCHANGED outVars => TypeOut'
    /\ TypeDev /\ UNCHANGED devVars => TypeDev'
<1>1. TypeCall /\ UNCHANGED callVars => TypeCall'
  BY DEF TypeCall, callVars
<1>2. TypeSess /\ UNCHANGED sessVars => TypeSess'
  BY DEF TypeSess, sessVars, seqVars, flagVars, lenVars
<1>3. TypeStream /\ UNCHANGED streamVars => TypeStream'
  BY DEF TypeStream, streamVars, cursorVars
<1>4. TypeIn /\ UNCHANGED inVars => TypeIn'
  BY DEF TypeIn, inVars
<1>5. TypeOut /\ UNCHANGED outVars => TypeOut'
  BY DEF TypeOut, outVars, OutUpdates
<1>6. TypeDev /\ UNCHANGED devVars => TypeDev'
  BY DEF TypeDev, devVars
<1>. QED
  BY <1>1, <1>2, <1>3, <1>4, <1>5, <1>6

\* compOutProcessedRespond keeps the types of the stream buffers.
LEMMA RespondType ==
    ASSUME TypeStream, jOut \in Slots,
           NEW lends, lends \subseteq {"src", "dest"}, Respond(lends)
    PROVE  TypeStream'
<1>1. lent' \in [Slots -> SUBSET {"src", "dest"}]
  BY DEF Respond, TypeStream
<1>2. sink2' \in [Slots -> Int]
  BY DEF Respond, TypeStream
<1>. QED
  BY <1>1, <1>2 DEF Respond, TypeStream

\* The lengths of compressed chunks, headers and footers.
LEMMA Lengths == /\ Sizes \subseteq Nat
                 /\ HeaderSz \in Nat /\ HeaderSz <= HdrSz /\ FooterSz \in Nat
  BY BoundsAssumption DEF HeaderSz, FooterSz

\* compBufferSetup computes an unsigned length, whatever the destination.
LEMMA RoomType ==
    ASSUME req.dest \in Nat, NEW k
    PROVE  DestRoom \in Nat /\ DestMem(k) \in Int
<1>1. PICK d, h, c, u : d = req.dest /\ h = HeaderSz /\ c = ChunkDestSz /\ u = UIntSz
  OBVIOUS
<1>2. d \in Nat /\ h \in Nat /\ c \in Nat /\ u \in Nat /\ h <= u
  BY <1>1, Lengths, BoundsAssumption
<1>3. Minus(c, h) \in Nat /\ Minus(d, h) \in Nat
  BY <1>1, <1>2 DEF Minus
<1>4. d - h \in Int
  BY <1>2
<1>. QED
  BY <1>1, <1>2, <1>3, <1>4 DEF DestRoom, DestMem

\* Every variable keeps its type in every step of the caller, the two threads
\* and the device, whatever fails.
LEMMA TypeStep == TypeOK /\ [Next]_vars => TypeOK'
<1> SUFFICES ASSUME TypeOK, [Next]_vars PROVE TypeOK'
  OBVIOUS
<1>1. CASE InLoop
  <2>1. TypeIn'
    BY <1>1 DEF InLoop, TypeOK, TypeIn
  <2>. QED
    BY <1>1, <2>1, TypeFrame DEF InLoop, TypeOK
<1>2. CASE InGetBuffer
  <2>1. TypeIn'
    BY <1>2, SlotsFact DEF InGetBuffer, TypeOK, TypeIn
  <2>2. PICK k \in Slots : src1' = [src1 EXCEPT ![k] = @ + 1]
    BY <1>2 DEF InGetBuffer
  <2>3. src1' \in [Slots -> Int]
    BY <2>2 DEF TypeOK, TypeStream
  <2>4. TypeStream'
    BY <1>2, <2>3 DEF InGetBuffer, TypeOK, TypeStream
  <2>. QED
    BY <1>2, <2>1, <2>4, TypeFrame DEF InGetBuffer, TypeOK
<1>3. CASE InNoBuffer
  <2>1. TypeIn'
    BY <1>3, SlotsFact DEF InNoBuffer, TypeOK, TypeIn
  <2>. QED
    BY <1>3, <2>1, TypeFrame DEF InNoBuffer, TypeOK
<1>4. CASE InSetup
  <2>1. TypeIn'
    BY <1>4 DEF InSetup, TypeOK, TypeIn
  <2>2. TypeStream'
    BY <1>4 DEF InSetup, TypeOK, TypeStream, cursorVars, TypeIn, TypeSess
  <2>. QED
    BY <1>4, <2>1, <2>2, TypeFrame DEF InSetup, TypeOK
<1>5. CASE InUse
  <2>1. TypeIn'
    BY <1>5 DEF InUse, TypeOK, TypeIn
  <2>2. TypeStream'
    BY <1>5 DEF InUse, TypeOK, TypeStream, cursorVars, TypeIn
  <2>. QED
    BY <1>5, <2>1, <2>2, TypeFrame DEF InUse, TypeOK
<1>6. CASE InSubmit
  <2>1. TypeIn'
    BY <1>6 DEF InSubmit, TypeOK, TypeIn
  <2>2. TypeDev'
    <3>1. HwFinal(sseq[jIn]) \in BOOLEAN
      BY DEF TypeOK, TypeCall, Requested, HwFinal
    <3>2. DestRoom \in Nat /\ DestMem(jIn) \in Int /\ HeaderSz + FooterSz \in Nat
      BY Lengths, RoomType DEF TypeOK, TypeCall, Requested
    <3>3. [slot |-> jIn, call |-> calls, seq |-> sseq[jIn], st |-> "pending",
           sz |-> 0, room |-> DestRoom, mem |-> DestMem(jIn),
           around |-> HeaderSz + FooterSz, fin |-> HwFinal(sseq[jIn])] \in Answers
      BY <3>1, <3>2 DEF TypeOK, TypeIn, TypeCall, TypeStream, Answers
    <3>4. hw' = hw \/ \E a \in Answers : hw' = hw \cup {a}
      BY <1>6, <3>3 DEF InSubmit
    <3>. QED
      BY <1>6, <3>4 DEF InSubmit, TypeOK, TypeDev
  <2>. QED
    BY <1>6, <2>1, <2>2, TypeFrame DEF InSubmit, TypeOK
<1>7. CASE InCleanUp
  <2>1. TypeIn'
    BY <1>7 DEF InCleanUp, TypeOK, TypeIn
  <2>2. TypeStream'
    BY <1>7 DEF InCleanUp, TypeOK, TypeStream, cursorVars, TypeIn
  <2>. QED
    BY <1>7, <2>1, <2>2, TypeFrame DEF InCleanUp, TypeOK
<1>8. CASE InSWFallback
  <2>1. TypeIn'
    BY <1>8 DEF InSWFallback, TypeOK, TypeIn
  <2>. QED
    BY <1>8, <2>1, TypeFrame DEF InSWFallback, TypeOK
<1>9. CASE InSWPending
  <2>1. TypeIn'
    BY <1>9 DEF InSWPending, TypeOK, TypeIn
  <2>. QED
    BY <1>9, <2>1, TypeFrame DEF InSWPending, TypeOK
<1>10. CASE InSWCompress
  <2>1. TypeIn'
    BY <1>10, BoundsAssumption DEF InSWCompress, TypeOK, TypeIn
  <2>2. TypeSess'
    BY <1>10, BoundsAssumption DEF InSWCompress, SwStat, TypeOK, TypeSess,
       seqVars, flagVars, lenVars
  <2>3. out' \in Seq(Pieces)
    <3>1. \A sz \in Sizes :
             Piece(calls, seq, 1, "sw", next_dest, sz, SwFinal(req)) \in Pieces
      BY Lengths DEF TypeOK, TypeCall, TypeSess, Piece, Pieces,
         SwFinal, Requested
    <3>2. \A e \in Pieces : Append(out, e) \in Seq(Pieces)
      BY DEF TypeOK
    <3>. QED
      BY <1>10, <3>1, <3>2 DEF InSWCompress, TypeOK
  <2>. QED
    BY <1>10, <2>1, <2>2, <2>3, TypeFrame DEF InSWCompress, TypeOK
<1>11. CASE InSWRespond
  <2>1. TypeIn'
    BY <1>11 DEF InSWRespond, TypeOK, TypeIn
  <2>2. TypeSess'
    BY <1>11 DEF InSWRespond, TypeOK, TypeSess, seqVars, flagVars, lenVars
  <2>. QED
    BY <1>11, <2>1, <2>2, TypeFrame DEF InSWRespond, TypeOK
<1>12. CASE InAdvance
  <2>1. TypeIn'
    BY <1>12 DEF InAdvance, TypeOK, TypeIn
  <2>2. TypeSess'
    <3>1. last_submitted' \in BOOLEAN
      BY <1>12 DEF InAdvance, TypeOK, TypeSess
    <3>. QED
      BY <1>12, <3>1 DEF InAdvance, TypeOK, TypeSess, lenVars
  <2>. QED
    BY <1>12, <2>1, <2>2, TypeFrame DEF InAdvance, TypeOK
<1>13. CASE InErrExit
  <2>1. TypeIn'
    BY <1>13 DEF InErrExit, TypeOK, TypeIn
  <2>2. TypeSess'
    BY <1>13 DEF InErrExit, Codes, TypeOK, TypeSess, seqVars, flagVars,
       lenVars
  <2>. QED
    BY <1>13, <2>1, <2>2, TypeFrame DEF InErrExit, TypeOK
<1>14. CASE OutStart
  <2>1. TypeOut'
    BY <1>14 DEF OutStart, Requested, TypeOK, TypeOut, OutUpdates, TypeCall,
       TypeSess
  <2>. QED
    BY <1>14, <2>1, TypeFrame DEF OutStart, TypeOK
<1>15. CASE OutLoop
  <2>1. TypeOut'
    BY <1>15 DEF OutLoop, TypeOK, TypeOut, OutUpdates
  <2>. QED
    BY <1>15, <2>1, TypeFrame DEF OutLoop, TypeOK
<1>16. CASE OutCallback
  <2>1. PICK r \in hw : /\ hw' = hw \ {r}
                        /\ res' = [res EXCEPT ![r.slot] = r]
                        /\ sink1' = IF InFlight(r.slot)
                                    THEN [sink1 EXCEPT ![r.slot] = @ + 1]
                                    ELSE sink1
    BY <1>16 DEF OutCallback
  <2>2. r \in Answers
    BY DEF TypeOK, TypeDev
  <2>3. r.slot \in Slots
    BY <2>2 DEF Answers
  <2>4. TypeStream'
    BY <1>16, <2>1, <2>2, <2>3 DEF OutCallback, TypeOK, TypeStream
  <2>5. TypeDev'
    BY <1>16, <2>1 DEF OutCallback, TypeOK, TypeDev
  <2>. QED
    BY <1>16, <2>4, <2>5, TypeFrame DEF OutCallback, TypeOK
<1>17. CASE OutPolled
  <2>1. TypeOut'
    BY <1>17 DEF OutPolled, TypeOK, TypeOut, OutUpdates
  <2>. QED
    BY <1>17, <2>1, TypeFrame DEF OutPolled, TypeOK
<1>18. CASE OutPollFail
  <2>1. TypeOut'
    BY <1>18 DEF OutPollFail, TypeOK, TypeOut, OutUpdates
  <2>. QED
    BY <1>18, <2>1, TypeFrame DEF OutPollFail, TypeOK
<1>19. CASE OutScan
  <2>1. TypeOut'
    BY <1>19, SlotsFact DEF OutScan, TypeOK, TypeOut, OutUpdates
  <2>. QED
    BY <1>19, <2>1, TypeFrame DEF OutScan, TypeOK
<1>20. CASE OutSkip
  <2>1. TypeOut'
    BY <1>20, SlotsFact DEF OutSkip, TypeOK, TypeOut, OutUpdates
  <2>2. TypeSess'
    BY <1>20, SlotsFact DEF OutSkip, Respond, TypeOK, TypeSess, seqVars,
       flagVars, lenVars
  <2>3. TypeStream'
    BY <1>20, RespondType DEF OutSkip, TypeOK, TypeOut, OutUpdates
  <2>. QED
    BY <1>20, <2>1, <2>2, <2>3, TypeFrame DEF OutSkip, TypeOK
<1>21. CASE OutHandle
  <2>1. res[jOut].sz \in Nat
    BY <1>21 DEF OutHandle, TypeOK, TypeOut, OutUpdates, TypeStream, Answers
  <2>2. TypeOut'
    BY <1>21, <2>1 DEF OutHandle, TypeOK, TypeOut, OutUpdates
  <2>. QED
    BY <1>21, <2>2, TypeFrame DEF OutHandle, TypeOK
<1>22. CASE OutSW
  <2>1. TypeOut'
    <3>1. \A sz \in Sizes :
             [by |-> "sw", sz |-> sz] \in [by : {"hw", "sw"}, sz : Nat]
      BY BoundsAssumption
    <3>2. pend' \in [by : {"hw", "sw"}, sz : Nat]
      BY <1>22, <3>1 DEF OutSW, TypeOK, TypeOut
    <3>. QED
      BY <1>22, <3>2 DEF OutSW, TypeOK, TypeOut, OutUpdates
  <2>2. TypeSess'
    BY <1>22, BoundsAssumption DEF OutSW, SwStat, TypeOK, TypeSess, seqVars,
       flagVars, lenVars
  <2>. QED
    BY <1>22, <2>1, <2>2, TypeFrame DEF OutSW, TypeOK
<1>23. CASE OutCheck
  <2>1. TypeOut'
    BY <1>23 DEF OutCheck, TypeOK, TypeOut, OutUpdates
  <2>2. TypeSess'
    BY <1>23 DEF OutCheck, Respond, TypeOK, TypeSess, seqVars, flagVars,
       lenVars
  <2>3. TypeStream'
    BY <1>23, RespondType, TypeFrame DEF OutCheck, TypeOK, TypeOut, OutUpdates
  <2>. QED
    BY <1>23, <2>1, <2>2, <2>3, TypeFrame DEF OutCheck, TypeOK
<1>24. CASE OutBufError
  <2>1. TypeOut'
    BY <1>24, SlotsFact DEF OutBufError, TypeOK, TypeOut, OutUpdates
  <2>2. TypeSess'
    BY <1>24, SlotsFact DEF OutBufError, Codes, TypeOK, TypeSess, seqVars,
       flagVars, lenVars
  <2>. QED
    BY <1>24, <2>1, <2>2, TypeFrame DEF OutBufError, TypeOK
<1>25. CASE OutEmit
  <2>1. TypeOut'
    BY <1>25 DEF OutEmit, TypeOK, TypeOut, OutUpdates
  <2>2. TypeSess'
    BY <1>25 DEF OutEmit, TypeOK, TypeSess, seqVars, flagVars, lenVars,
       TypeOut
  <2>3. TypeStream'
    BY <1>25 DEF OutEmit, TypeOK, TypeStream, cursorVars, TypeOut, OutUpdates
  <2>4. out' \in Seq(Pieces)
    <3>1. jOut \in Slots /\ res[jOut] \in Answers /\ pend.sz \in Nat
      BY <1>25 DEF OutEmit, TypeOK, TypeOut, OutUpdates, TypeStream
    <3>2. /\ res[jOut].call \in Nat /\ res[jOut].seq \in Nat
          /\ res[jOut].fin \in BOOLEAN
      BY <3>1 DEF Answers
    <3>3. Piece(res[jOut].call, res[jOut].seq, 1, "hw", next_dest, pend.sz,
                res[jOut].fin) \in Pieces
      BY <3>1, <3>2 DEF TypeOK, TypeSess, Piece, Pieces
    <3>4. \A shift \in Nat :
             Piece(calls, sseq[jOut], 1, "sw", next_dest + shift, pend.sz,
                   SwFinal(req)) \in Pieces
      BY <3>1 DEF TypeOK, TypeCall, TypeSess, TypeStream, Piece, Pieces,
         SwFinal, Requested
    <3>. QED
      BY <1>25, <3>3, <3>4, Lengths DEF OutEmit, TypeOK
  <2>. QED
    BY <1>25, <2>1, <2>2, <2>3, <2>4, TypeFrame DEF OutEmit, TypeOK
<1>26. CASE OutRespond
  <2>1. TypeOut'
    BY <1>26 DEF OutRespond, TypeOK, TypeOut, OutUpdates
  <2>2. TypeSess'
    BY <1>26 DEF OutRespond, Respond, TypeOK, TypeSess, seqVars, flagVars,
       lenVars
  <2>3. TypeStream'
    BY <1>26 DEF OutRespond, Respond, TypeOK, TypeStream, cursorVars, TypeOut,
       OutUpdates
  <2>. QED
    BY <1>26, <2>1, <2>2, <2>3, TypeFrame DEF OutRespond, TypeOK
<1>27. CASE OutErrExit
  <2>1. TypeOut'
    BY <1>27, SlotsFact DEF OutErrExit, TypeOK, TypeOut, OutUpdates
  <2>2. TypeSess'
    BY <1>27 DEF OutErrExit, Codes, TypeOK, TypeSess, seqVars, flagVars,
       lenVars
  <2>. QED
    BY <1>27, <2>1, <2>2, TypeFrame DEF OutErrExit, TypeOK
<1>28. CASE OutReset
  <2>1. TypeOut'
    BY <1>28, SlotsFact DEF OutReset, TypeOK, TypeOut, OutUpdates
  <2>2. TypeStream'
    <3>1. lent' \in [Slots -> SUBSET {"src", "dest"}]
      BY <1>28 DEF OutReset, TypeOK, TypeStream
    <3>2. ASSUME NEW f \in [Slots -> Int]
          PROVE  [f EXCEPT ![jOut] = 0] \in [Slots -> Int]
      BY SetZero
    <3>3. /\ src1' \in [Slots -> Int] /\ src2' \in [Slots -> Int]
          /\ sink1' \in [Slots -> Int] /\ sink2' \in [Slots -> Int]
      <4>1. /\ src1 \in [Slots -> Int] /\ src2 \in [Slots -> Int]
            /\ sink1 \in [Slots -> Int] /\ sink2 \in [Slots -> Int]
        BY DEF TypeOK, TypeStream
      <4>. QED
        BY <1>28, <3>2, <4>1, Zenon DEF OutReset
    <3>. QED
      BY <1>28, <3>1, <3>2, <3>3 DEF OutReset, TypeOK, TypeStream
  <2>. QED
    BY <1>28, <2>1, <2>2, TypeFrame DEF OutReset, TypeOK
<1>29. CASE HwComplete
  <2>1. ASSUME NEW r \in Answers, NEW sz \in Sizes
        PROVE  /\ [r EXCEPT !.st = "ok", !.sz = sz] \in Answers
               /\ [r EXCEPT !.st = "err"] \in Answers
    BY BoundsAssumption DEF Answers
  <2>2. hw \subseteq Answers
    BY DEF TypeOK, TypeDev
  <2>3. hw' \subseteq Answers
    <3>1. PICK r \in hw :
             \/ \E sz \in Sizes :
                   hw' = (hw \ {r}) \cup {[r EXCEPT !.st = "ok", !.sz = sz]}
             \/ hw' = (hw \ {r}) \cup {[r EXCEPT !.st = "err"]}
      BY <1>29 DEF HwComplete
    <3>2. CASE \E sz \in Sizes :
                 hw' = (hw \ {r}) \cup {[r EXCEPT !.st = "ok", !.sz = sz]}
      BY ZenonT(60), <2>1, <2>2, <3>2
    <3>3. CASE hw' = (hw \ {r}) \cup {[r EXCEPT !.st = "err"]}
      <4>1. r \in Answers
        BY <2>2
      <4>2. [r EXCEPT !.st = "err"] \in Answers
        BY <4>1 DEF Answers
      <4>. QED
        BY <2>2, <3>3, <4>2
    <3>. QED
      BY <3>1, <3>2, <3>3
  <2>4. TypeDev'
    BY <1>29, <2>3 DEF HwComplete, TypeOK, TypeDev
  <2>. QED
    BY <1>29, <2>4, TypeFrame DEF HwComplete, TypeOK
<1>30. CASE FatalError
  <2>1. TypeDev'
    BY <1>30 DEF FatalError, TypeOK, TypeDev
  <2>. QED
    BY <1>30, <2>1, TypeFrame DEF FatalError, TypeOK
<1>31. CASE Restarted
  <2>1. TypeDev'
    BY <1>31 DEF Restarted, TypeOK, TypeDev
  <2>. QED
    BY <1>31, <2>1, TypeFrame DEF Restarted, TypeOK
<1>32. CASE FinishMismatch
  <2>1. TypeCall'
    BY <1>32 DEF FinishMismatch, Return, Codes, TypeOK, TypeCall, TypeSess
  <2>2. TypeSess'
    BY <1>32 DEF FinishMismatch, Return, Codes, TypeOK, TypeSess, seqVars,
       flagVars, lenVars
  <2>. QED
    BY <1>32, <2>1, <2>2, TypeFrame DEF FinishMismatch, Return, TypeOK
<1>33. CASE FinishSW
  <2> DEFINE cnt == req.n - qz_in_len
  <2>1. cnt \in Int
    BY DEF TypeOK, TypeCall, TypeSess, Requested
  <2>2. \A sz \in SwRestSizes(cnt) : sz \in Int
    BY <2>1, BoundsAssumption DEF SwRestSizes
  <2>3. TypeSess'
    BY <1>33, <2>1, <2>2 DEF FinishSW, Return, TypeOK, TypeSess, SwStat,
       Codes,
       seqVars, lenVars
  <2>4. TypeCall'
    BY <1>33, <2>3 DEF FinishSW, Return, TypeOK, TypeCall, TypeSess
  <2>5. out' \in Seq(Pieces)
    <3>1. \A sz \in Int :
             Piece(calls, qz_in_len, cnt, "sw", next_dest, sz, SwFinal(req))
                \in Pieces
      BY <2>1 DEF TypeOK, TypeCall, TypeSess, Piece, Pieces, SwFinal, Requested
    <3>2. \A e \in Pieces : Append(out, e) \in Seq(Pieces)
      BY DEF TypeOK
    <3>. QED
      BY <1>33, <2>2, <3>1, <3>2 DEF FinishSW, TypeOK
  <2>. QED
    BY <1>33, <2>3, <2>4, <2>5, TypeFrame DEF FinishSW, Return, TypeOK
<1>34. CASE Finish
  <2>1. TypeCall'
    BY <1>34 DEF Finish, Return, Codes, TypeOK, TypeCall, TypeSess
  <2>2. TypeSess'
    BY <1>34 DEF Finish, Return, Codes, TypeOK, TypeSess, seqVars, flagVars,
       lenVars
  <2>. QED
    BY <1>34, <2>1, <2>2, TypeFrame DEF Finish, Return, TypeOK
<1>35. Requests \subseteq Requested
  <2>1. ASSUME NEW n \in 1..MaxChunks, NEW d \in DestSizes, NEW b \in SwBackups,
               NEW f \in Formats, NEW l \in Lasts, NEW p \in Pins
        PROVE  [n |-> n, dest |-> d, sw_backup |-> b, fmt |-> f, last |-> l,
                pin |-> p, single_thread |-> n <= ReqCntThrshold] \in Requested
    BY BoundsAssumption DEF Requested
  <2>. QED
    BY <2>1 DEF Requests
<1>36. ASSUME NEW r \in Requests, calls' = calls + 1, CallHW(r) PROVE TypeOK'
  <2>1. TypeCall' /\ TypeIn' /\ TypeOut'
    BY <1>36, <1>35, SlotsFact DEF CallHW, TypeOK, TypeCall, TypeIn, TypeOut,
       OutUpdates
  <2>2. TypeSess'
    <3>1. seq' \in Nat /\ seq_in' \in Nat /\ submitted' \in Nat /\ processed' \in Nat
      BY <1>36 DEF CallHW
    <3>2. last_submitted' \in BOOLEAN /\ stop_submitting' \in BOOLEAN
      BY <1>36 DEF CallHW
    <3>3. next_dest' \in Int /\ qz_in_len' \in Int /\ qz_out_len' \in Int
      BY <1>36 DEF CallHW
    <3>4. stat' \in Codes /\ deflate_stat' \in {"null", "inited"}
      BY <1>36 DEF CallHW, TypeOK, TypeSess, Codes
    <3>. QED
      BY <3>1, <3>2, <3>3, <3>4 DEF TypeSess
  <2>. QED
    BY <1>36, <2>1, <2>2, TypeFrame DEF CallHW, TypeOK
<1>37. ASSUME NEW r \in Requests, calls' = calls + 1, CallSW(r) PROVE TypeOK'
  <2>1. r \in Requested /\ r.n \in Int
    BY <1>35 DEF Requested
  <2>2. \A cnt \in Int : \A sz \in SwRestSizes(cnt) : sz \in Int
    <3>1. \A cnt \in Int, s \in Sizes : cnt * s \in Int
      BY BoundsAssumption
    <3>. QED
      BY <3>1 DEF SwRestSizes
  <2>3. TypeSess'
    BY <1>37 DEF CallSW, TypeOK, TypeSess, SwStat, seqVars, flagVars, lenVars
  <2>4. PICK cnt \in Int, sz \in Int, rc \in Codes, fin \in BOOLEAN :
          /\ ret' = [rc |-> rc, src_len |-> cnt, dest_len |-> sz]
          /\ out' = << >> \/ out' = <<Piece(calls', 0, cnt, "sw", 0, sz, fin)>>
    <3>1. CASE \E sz \in SwRestSizes(r.n) :
                 /\ out' = <<Piece(calls', 0, r.n, "sw", 0, sz, SwFinal(r))>>
                 /\ ret' = [rc |-> "OK", src_len |-> r.n, dest_len |-> sz]
      <4>1. SwFinal(r) \in BOOLEAN /\ "OK" \in Codes
        BY <2>1 DEF SwFinal, Requested, Codes
      <4>. QED
        BY <2>1, <2>2, <3>1, <4>1
    <3>2. CASE \E cnt \in IF r.fmt = "lz4" THEN {0} ELSE 0..(r.n - 1) :
                 \E sz \in SwRestSizes(cnt) :
                   /\ out' = IF cnt = 0 THEN << >>
                             ELSE <<Piece(calls', 0, cnt, "sw", 0, sz, FALSE)>>
                   /\ ret' = [rc |-> "FAIL", src_len |-> cnt, dest_len |-> sz]
      <4>1. PICK cnt \in Int : \E sz \in SwRestSizes(cnt) :
                   /\ out' = IF cnt = 0 THEN << >>
                             ELSE <<Piece(calls', 0, cnt, "sw", 0, sz, FALSE)>>
                   /\ ret' = [rc |-> "FAIL", src_len |-> cnt, dest_len |-> sz]
        <5>1. (IF r.fmt = "lz4" THEN {0} ELSE 0..(r.n - 1)) \subseteq Int
          BY <2>1
        <5>. QED
          BY <3>2, <5>1, Zenon
      <4>2. "FAIL" \in Codes /\ FALSE \in BOOLEAN
        BY DEF Codes
      <4>. QED
        BY <2>2, <4>1, <4>2
    <3>. QED
      BY <1>37, <3>1, <3>2 DEF CallSW
  <2>5. TypeCall'
    BY <1>37, <2>1, <2>4 DEF CallSW, TypeOK, TypeCall
  <2>6. out' \in Seq(Pieces)
    <3>1. Piece(calls', 0, cnt, "sw", 0, sz, fin) \in Pieces
      BY <1>37 DEF TypeOK, TypeCall, Piece, Pieces
    <3>2. \A e \in Pieces : <<e>> \in Seq(Pieces)
      OBVIOUS
    <3>3. << >> \in Seq(Pieces)
      OBVIOUS
    <3>. QED
      BY <2>4, <3>1, <3>2, <3>3
  <2>. QED
    BY <1>37, <2>3, <2>5, <2>6, TypeFrame DEF CallSW, TypeOK
<1>38. ASSUME NEW r \in Requests, calls' = calls + 1, CallRefused(r)
     PROVE  TypeOK'
  <2>1. TypeCall'
    BY <1>38, <1>35 DEF CallRefused, TypeOK, TypeCall
  <2>. QED
    BY <1>38, <2>1, TypeFrame DEF CallRefused, TypeOK
<1>39. CASE UNCHANGED vars
  BY <1>39, TypeFrame DEF vars, TypeOK
<1>. QED
  BY <1>1, <1>2, <1>3, <1>4, <1>5, <1>6, <1>7, <1>8, <1>9, <1>10, <1>11,
     <1>12, <1>13, <1>14, <1>15, <1>16, <1>17, <1>18, <1>19, <1>20, <1>21,
     <1>22, <1>23, <1>24, <1>25, <1>26, <1>27, <1>28, <1>29, <1>30, <1>31,
     <1>32, <1>33, <1>34, <1>35, <1>36, <1>37, <1>38, <1>39 DEF Next,
     InNext, OutNext, Call, Rest

\* Every variable of the pipeline keeps its type, for every number of buffers,
\* threshold, chunk and call count, and under every fault.
THEOREM TypeCorrect == Spec => []TypeOK
BY TypeInit, TypeStep, PTL DEF Spec

-----------------------------------------------------------------------------
(* The buffer protocol: IInv is inductive when the buffers are never reset *)
(* under a running call (NoReset).                                         *)

\* The stages of a stream buffer exclude each other.
LEMMA Stages ==
    ASSUME TypeStream, NEW k \in Slots
    PROVE  /\ ~(Unused(k) /\ InFlight(k))
           /\ ~(Unused(k) /\ Answered(k))
           /\ ~(InFlight(k) /\ Answered(k))
BY DEF TypeStream, Unused, InFlight, Answered

\* The stages are read off the cursors alone.
LEMMA StageFrame ==
    ASSUME UNCHANGED cursorVars, NEW k
    PROVE  /\ Unused(k)' <=> Unused(k)
           /\ InFlight(k)' <=> InFlight(k)
           /\ Answered(k)' <=> Answered(k)
BY DEF cursorVars, Unused, InFlight, Answered

Holding == {"setup", "use", "submit", "cleanup"}

\* A step that leaves the buffers, the device's requests and the sequence
\* numbers alone, and neither takes nor gives a claim, keeps their part of the
\* invariant.
LEMMA QuietStep ==
    ASSUME CursorInv, DeviceInv, SeqInv, LentInv,
           UNCHANGED <<cursorVars, sseq, lent, hw, seqVars>>,
           \/ UNCHANGED <<pcIn, jIn>>
           \/ pcIn \notin Holding \cup {"adv"} /\ pcIn' \notin Holding \cup {"adv"},
           pcOut' = "resp" => pcOut = "resp" /\ jOut' = jOut
    PROVE  CursorInv' /\ DeviceInv' /\ SeqInv' /\ LentInv'
<1>1. \A k : /\ Unused(k)' <=> Unused(k)
             /\ InFlight(k)' <=> InFlight(k)
             /\ Answered(k)' <=> Answered(k)
  BY StageFrame
<1>2. \A k : InHolds(k)' <=> InHolds(k)
  BY DEF InHolds, Holding
<1>3. \A k : InHolds(k) => pcIn' = pcIn
  BY DEF InHolds, Holding
<1>4. CursorInv'
  BY <1>1, <1>2, <1>3 DEF CursorInv, cursorVars
<1>5. DeviceInv'
  BY <1>1, <1>2 DEF DeviceInv
<1>6. \A k : Carries(k)' <=> Carries(k)
  BY <1>1, <1>2 DEF Carries
<1>7. SeqInv'
  BY <1>6 DEF SeqInv, seqVars, Holding
<1>8. LentInv'
  BY <1>1, <1>2 DEF LentInv, Holding
<1>. QED
  BY <1>4, <1>5, <1>7, <1>8

\* compOutProcessedRespond for the matched answer: its buffer is free again,
\* and no other buffer is touched.
LEMMA RespondStep ==
    ASSUME IInv, OutUpdates, Respond({}), UNCHANGED <<pcIn, jIn, hw>>,
           pcOut' # "resp"
    PROVE  /\ CursorInv' /\ DeviceInv' /\ SeqInv' /\ LentInv'
           /\ \A k \in Slots : Unused(k) => Unused(k)'
<1>. PICK j \in Slots : j = jOut
  BY DEF IInv, TypeOK, TypeOut
<1>1. /\ TypeStream /\ TypeSess
      /\ Answered(j) /\ sseq[j] = seq_in
  BY DEF IInv, TypeOK, ControlInv, Ready
<1>2. /\ UNCHANGED <<src1, src2, sink1, sseq>>
      /\ sink2'[j] = sink2[j] + 1
      /\ lent'[j] = {}
      /\ \A k \in Slots \ {j} : sink2'[k] = sink2[k] /\ lent'[k] = lent[k]
  BY <1>1 DEF Respond, TypeStream
<1>3. Unused(j)'
  BY <1>1, <1>2 DEF Unused, Answered, TypeStream
<1>4. \A k \in Slots \ {j} : /\ Unused(k)' <=> Unused(k)
                             /\ InFlight(k)' <=> InFlight(k)
                             /\ Answered(k)' <=> Answered(k)
  BY <1>2 DEF Unused, InFlight, Answered
<1>5. \A k : InHolds(k)' <=> InHolds(k)
  BY DEF InHolds
<1>6. ~InHolds(j)
  <2>1. ~InFlight(j)
    BY <1>1, Stages
  <2>2. src1[j] # src2[j] + 1
    BY <1>1 DEF Answered, TypeStream
  <2>. QED
    BY <2>1, <2>2 DEF IInv, CursorInv, InHolds
<1>7. CursorInv'
  <2> SUFFICES ASSUME NEW k \in Slots
               PROVE  /\ InHolds(k)' /\ pcIn' \in {"setup", "use"} =>
                            src1'[k] = src2'[k] + 1 /\ src2'[k] = sink1'[k]
                            /\ sink1'[k] = sink2'[k]
                      /\ InHolds(k)' /\ pcIn' \in {"submit", "cleanup"} =>
                            InFlight(k)'
                      /\ ~InHolds(k)' => Unused(k)' \/ InFlight(k)' \/ Answered(k)'
    BY DEF CursorInv
  <2>1. CASE k = j
    BY <2>1, <1>3, <1>5, <1>6
  <2>2. CASE k # j
    BY <2>2, <1>2, <1>4, <1>5 DEF IInv, CursorInv
  <2>. QED
    BY <2>1, <2>2
<1>8. DeviceInv'
  <2>1. ASSUME NEW r \in hw PROVE r.slot \in Slots \ {j}
    BY <1>1, Stages DEF IInv, TypeOK, TypeDev, Answers, DeviceInv
  <2>. QED
    BY <2>1, <1>4, <1>5 DEF IInv, DeviceInv
<1>9. SeqInv'
  <2>1. \A k \in Slots : Carries(k)' => k # j /\ Carries(k)
    BY <1>3, <1>4, <1>5 DEF Carries
  <2>2. Carries(j)
    BY <1>1, <1>6, Stages DEF Carries
  <2>3. \A k \in Slots : Carries(k)' => seq_in < sseq[k]
    BY <1>1, <2>1, <2>2 DEF IInv, SeqInv, TypeSess, TypeStream
  <2>4. seq_in' = seq_in + 1 /\ processed' = processed + 1
        /\ seq' = seq /\ submitted' = submitted
    BY DEF Respond
  <2>5. seq_in' <= seq' \/ (pcIn' = "adv" /\ seq_in' = seq' + 1)
    BY <1>1, <2>2, <2>4 DEF IInv, SeqInv, TypeSess
  <2>6. \A k \in Slots : Carries(k)' => seq_in' <= sseq'[k]
    BY <1>1, <1>2, <2>3, <2>4 DEF TypeSess, TypeStream
  <2>. QED
    BY <1>1, <1>2, <2>1, <2>4, <2>5, <2>6 DEF IInv, SeqInv, TypeSess
<1>10. LentInv'
  <2>1. \A k \in Slots : ~InHolds(k)' /\ Unused(k)' => lent'[k] = {}
    BY <1>2, <1>4, <1>5 DEF IInv, LentInv
  <2>2. pcIn' = "setup" => lent'[jIn'] = {}
    BY <1>2, <1>6 DEF IInv, LentInv, TypeOK, TypeIn, InHolds
  <2>. QED
    BY <2>1, <2>2 DEF LentInv
<1>. QED
  BY <1>3, <1>4, <1>7, <1>8, <1>9, <1>10

\* The initial state satisfies the invariant.
LEMMA InvInit == Init => IInv
<1> SUFFICES ASSUME Init PROVE IInv
  OBVIOUS
<1>1. TypeOK
  BY TypeInit
<1>2. \A k \in Slots : Unused(k) /\ ~InHolds(k)
  BY DEF Init, Unused, InHolds
<1>3. CursorInv /\ DeviceInv /\ SeqInv /\ LentInv
  BY <1>2 DEF Init, CursorInv, DeviceInv, SeqInv, LentInv, Carries
<1>4. ControlInv
  BY <1>2 DEF Init, ControlInv, OutUpdates
<1>. QED
  BY <1>1, <1>3, <1>4 DEF IInv

-----------------------------------------------------------------------------
\* A buffer whose cursors a step leaves alone stays in its stage.
LEMMA SlotFrame ==
    ASSUME NEW k, src1'[k] = src1[k], src2'[k] = src2[k],
           sink1'[k] = sink1[k], sink2'[k] = sink2[k]
    PROVE  /\ Unused(k)' <=> Unused(k)
           /\ InFlight(k)' <=> InFlight(k)
           /\ Answered(k)' <=> Answered(k)
BY DEF Unused, InFlight, Answered

\* doCompressOut works on an answer only while a submitted chunk waits for it,
\* so the software fallback of doCompressIn is not at work.
LEMMA OutBusy ==
    ASSUME IInv, OutUpdates
    PROVE  /\ jOut \in Slots /\ Carries(jOut) /\ Answered(jOut)
           /\ ~InUpdates
           /\ seq_in < seq \/ (pcIn = "adv" /\ seq_in = seq)
           /\ caller = "run"
<1>1. jOut \in Slots /\ Answered(jOut) /\ sseq[jOut] = seq_in
  BY DEF IInv, TypeOK, TypeOut, ControlInv, Ready
<1>2. TypeStream /\ TypeSess
  BY DEF IInv, TypeOK
<1>3. ~InHolds(jOut)
  <2>1. ~InFlight(jOut)
    BY <1>1, <1>2, Stages
  <2>2. src1[jOut] # src2[jOut] + 1
    BY <1>1, <1>2 DEF Answered, TypeStream
  <2>. QED
    BY <1>1, <2>1, <2>2 DEF IInv, CursorInv, InHolds
<1>4. Carries(jOut)
  BY <1>1, <1>2, <1>3, Stages DEF Carries
<1>5. seq_in < seq \/ (pcIn = "adv" /\ seq_in = seq)
  BY <1>1, <1>4 DEF IInv, SeqInv
<1>6. ~InUpdates
  BY <1>2, <1>5 DEF IInv, ControlInv, InUpdates, TypeSess
<1>7. caller = "run"
  BY DEF IInv, TypeOK, TypeCall, ControlInv, OutUpdates
<1>. QED
  BY <1>1, <1>4, <1>5, <1>6, <1>7

\* When every submitted chunk is answered and doCompressIn holds no buffer,
\* all the buffers are free.
LEMMA AllFree ==
    ASSUME IInv, seq <= seq_in, pcIn \notin Holding \cup {"adv"}
    PROVE  \A k \in Slots : Unused(k)
<1>1. TypeStream /\ TypeSess
  BY DEF IInv, TypeOK
<1>2. \A k \in Slots : ~Carries(k)
  BY <1>1 DEF IInv, SeqInv, TypeStream, TypeSess
<1>. QED
  BY <1>2 DEF Carries, InHolds, Holding

-----------------------------------------------------------------------------
(* doCompressIn's steps.                                                   *)

\* Claiming a free buffer (src1++): the buffer is held by doCompressIn, every
\* other one keeps its stage.
LEMMA InGetBufferStep ==
    ASSUME IInv, InGetBuffer
    PROVE  CursorInv' /\ DeviceInv' /\ SeqInv' /\ LentInv' /\ ControlInv'
<1>1. PICK j \in Slots : Unused(j) /\ jIn' = j
                         /\ src1' = [src1 EXCEPT ![j] = @ + 1]
  BY DEF InGetBuffer, FirstUnused
<1>2. TypeStream /\ pcIn = "get" /\ pcIn' = "setup"
  BY DEF IInv, TypeOK, InGetBuffer
<1>3. UNCHANGED <<callVars, sessVars, src2, sink1, sink2, sseq, lent, outVars, hw>>
  BY DEF InGetBuffer, devVars
<1>4. /\ src1'[j] = src1[j] + 1
      /\ \A k \in Slots \ {j} : src1'[k] = src1[k]
  BY <1>1, <1>2 DEF TypeStream
<1>5. \A k \in Slots \ {j} : /\ Unused(k)' <=> Unused(k)
                             /\ InFlight(k)' <=> InFlight(k)
                             /\ Answered(k)' <=> Answered(k)
  BY <1>3, <1>4, SlotFrame
<1>6. \A k \in Slots : ~InHolds(k) /\ (InHolds(k)' <=> k = j)
  BY <1>1, <1>2 DEF InHolds
<1>7. \A k \in Slots : Carries(k)' => k # j /\ Carries(k)
  BY <1>5, <1>6 DEF Carries
<1>8. CursorInv'
  <2> SUFFICES ASSUME NEW k \in Slots
               PROVE  /\ InHolds(k)' /\ pcIn' \in {"setup", "use"} =>
                            src1'[k] = src2'[k] + 1 /\ src2'[k] = sink1'[k]
                            /\ sink1'[k] = sink2'[k]
                      /\ ~InHolds(k)' => Unused(k)' \/ InFlight(k)' \/ Answered(k)'
    BY <1>2 DEF CursorInv
  <2>1. CASE k = j
    BY <2>1, <1>1, <1>2, <1>3, <1>4, <1>6 DEF Unused, TypeStream
  <2>2. CASE k # j
    BY <2>2, <1>5, <1>6 DEF IInv, CursorInv
  <2>. QED
    BY <2>1, <2>2
<1>9. DeviceInv'
  <2>1. ASSUME NEW r \in hw PROVE r.slot \in Slots \ {j}
    BY <1>1, <1>2, Stages DEF IInv, TypeOK, TypeDev, Answers, DeviceInv
  <2>. QED
    BY <2>1, <1>3, <1>5, <1>6 DEF IInv, DeviceInv
<1>10. SeqInv'
  BY <1>2, <1>3, <1>7 DEF IInv, SeqInv, sessVars, seqVars
<1>11. LentInv'
  <2>1. lent[j] = {}
    BY <1>1, <1>6 DEF IInv, LentInv
  <2>. QED
    BY <1>1, <1>3, <1>5, <1>6, <2>1 DEF IInv, LentInv, outVars
<1>12. ControlInv'
  <2>1. OutUpdates => jOut \in Slots \ {j} /\ Ready(jOut)
    BY <1>1, <1>2, OutBusy, Stages DEF IInv, ControlInv
  <2>2. OutUpdates' => Ready(jOut)'
    BY <1>3, <1>5, <2>1 DEF Ready, OutUpdates, outVars, sessVars, seqVars
  <2>. QED
    BY <1>2, <1>3, <2>2
    DEF IInv, ControlInv, outVars, callVars, sessVars, seqVars, flagVars
<1>. QED
  BY <1>8, <1>9, <1>10, <1>11, <1>12

\* compBufferSetup labels the held buffer with seq, a number no request under
\* way carries, and lends it user memory.
LEMMA InSetupStep ==
    ASSUME IInv, InSetup
    PROVE  CursorInv' /\ DeviceInv' /\ SeqInv' /\ LentInv' /\ ControlInv'
<1>1. PICK j \in Slots : j = jIn
  BY DEF IInv, TypeOK, TypeIn
<1>2. /\ TypeStream /\ pcIn = "setup" /\ pcIn' = "use" /\ jIn' = j
      /\ UNCHANGED <<callVars, sessVars, cursorVars, outVars, hw>>
  BY <1>1 DEF IInv, TypeOK, InSetup, devVars
<1>3. /\ sseq'[j] = seq
      /\ \A k \in Slots \ {j} : sseq'[k] = sseq[k] /\ lent'[k] = lent[k]
  BY <1>1, <1>2 DEF InSetup, TypeStream
<1>4. \A k : /\ Unused(k)' <=> Unused(k)
             /\ InFlight(k)' <=> InFlight(k)
             /\ Answered(k)' <=> Answered(k)
  BY <1>2, StageFrame
<1>5. \A k \in Slots : InHolds(k) <=> k = j
  BY <1>1, <1>2 DEF InHolds
<1>6. \A k : InHolds(k)' <=> InHolds(k)
  BY <1>1, <1>2 DEF InHolds
<1>7. \A k \in Slots : Carries(k)' => Carries(k) /\ k # j
  BY <1>4, <1>5, <1>6 DEF Carries
<1>8. CursorInv'
  BY <1>2, <1>4, <1>6 DEF IInv, CursorInv, cursorVars
<1>9. DeviceInv'
  BY <1>2, <1>4, <1>6 DEF IInv, DeviceInv
<1>10. SeqInv'
  BY <1>2, <1>3, <1>7 DEF IInv, SeqInv, sessVars, seqVars
<1>11. OutUpdates => jOut \in Slots \ {j} /\ Ready(jOut)
  BY <1>5, OutBusy DEF IInv, ControlInv, Carries
<1>12. LentInv'
  <2>1. \A k \in Slots : ~InHolds(k)' /\ Unused(k)' => lent'[k] = {}
    BY <1>3, <1>4, <1>5, <1>6 DEF IInv, LentInv
  <2>2. pcOut' = "resp" => "dest" \notin lent'[jOut']
    BY <1>2, <1>3, <1>11 DEF IInv, LentInv, outVars, OutUpdates
  <2>. QED
    BY <1>2, <2>1, <2>2 DEF LentInv
<1>13. ControlInv'
  <2>1. OutUpdates' => Ready(jOut)'
    BY <1>2, <1>3, <1>4, <1>11 DEF Ready, OutUpdates, outVars, sessVars, seqVars
  <2>. QED
    BY <1>2, <2>1
    DEF IInv, ControlInv, outVars, callVars, sessVars, seqVars, flagVars
<1>. QED
  BY <1>8, <1>9, <1>10, <1>12, <1>13

\* src2++ makes the held buffer look in flight before the device has it.
LEMMA InUseStep ==
    ASSUME IInv, InUse
    PROVE  CursorInv' /\ DeviceInv' /\ SeqInv' /\ LentInv' /\ ControlInv'
<1>1. PICK j \in Slots : j = jIn
  BY DEF IInv, TypeOK, TypeIn
<1>2. /\ TypeStream /\ pcIn = "use" /\ pcIn' = "submit" /\ jIn' = j
      /\ UNCHANGED <<callVars, sessVars, src1, sink1, sink2, sseq, lent,
                     outVars, hw>>
  BY <1>1 DEF IInv, TypeOK, InUse, devVars
<1>3. /\ src2'[j] = src2[j] + 1
      /\ \A k \in Slots \ {j} : src2'[k] = src2[k]
  BY <1>1, <1>2 DEF InUse, TypeStream
<1>4. \A k \in Slots \ {j} : /\ Unused(k)' <=> Unused(k)
                             /\ InFlight(k)' <=> InFlight(k)
                             /\ Answered(k)' <=> Answered(k)
  BY <1>2, <1>3, SlotFrame
<1>5. \A k \in Slots : InHolds(k) <=> k = j
  BY <1>1, <1>2 DEF InHolds
<1>6. \A k : InHolds(k)' <=> InHolds(k)
  BY <1>1, <1>2 DEF InHolds
<1>7. \A k \in Slots : Carries(k)' => Carries(k) /\ k # j
  BY <1>4, <1>5, <1>6 DEF Carries
<1>8. CursorInv'
  <2>1. InFlight(j)'
    BY <1>2, <1>3, <1>5 DEF IInv, CursorInv, InFlight, TypeStream
  <2>. QED
    BY <1>2, <1>4, <1>5, <1>6, <2>1 DEF IInv, CursorInv
<1>9. DeviceInv'
  <2>1. ASSUME NEW r \in hw PROVE r.slot \in Slots \ {j}
    BY <1>5 DEF IInv, TypeOK, TypeDev, Answers, DeviceInv
  <2>. QED
    BY <1>2, <1>4, <1>6, <2>1 DEF IInv, DeviceInv
<1>10. SeqInv'
  BY <1>1, <1>2, <1>7 DEF IInv, SeqInv, sessVars, seqVars
<1>11. LentInv'
  BY <1>2, <1>4, <1>5, <1>6 DEF IInv, LentInv, outVars
<1>12. ControlInv'
  <2>1. OutUpdates => jOut \in Slots \ {j} /\ Ready(jOut)
    BY <1>5, OutBusy DEF IInv, ControlInv, Carries
  <2>2. OutUpdates' => Ready(jOut)'
    BY <1>2, <1>4, <2>1 DEF Ready, OutUpdates, outVars, sessVars, seqVars
  <2>. QED
    BY <1>2, <2>2
    DEF IInv, ControlInv, outVars, callVars, sessVars, seqVars, flagVars
<1>. QED
  BY <1>8, <1>9, <1>10, <1>11, <1>12

\* Submitting: the device gets the buffer, or doCompressIn keeps it to try
\* again or to clean it up.
LEMMA InSubmitStep ==
    ASSUME IInv, InSubmit
    PROVE  CursorInv' /\ DeviceInv' /\ SeqInv' /\ LentInv' /\ ControlInv'
<1>1. PICK j \in Slots : j = jIn
  BY DEF IInv, TypeOK, TypeIn
<1>2. /\ TypeStream /\ TypeSess /\ pcIn = "submit" /\ jIn' = j
      /\ UNCHANGED <<callVars, sessVars, streamVars, outVars>>
  BY <1>1 DEF IInv, TypeOK, InSubmit
<1>3. \A k : /\ Unused(k)' <=> Unused(k)
             /\ InFlight(k)' <=> InFlight(k)
             /\ Answered(k)' <=> Answered(k)
  BY <1>2, StageFrame DEF streamVars
<1>4. \A k \in Slots : InHolds(k) <=> k = j
  BY <1>1, <1>2 DEF InHolds
<1>5. InFlight(j) /\ ~Unused(j) /\ sseq[j] = seq
  BY <1>1, <1>2, <1>4, Stages DEF IInv, CursorInv, SeqInv
<1>6. ControlInv'
  <2>1. pcIn' \in {"submit", "adv", "cleanup"}
    BY <1>2 DEF InSubmit
  <2>2. OutUpdates' => Ready(jOut)'
    BY <1>2, <1>3
    DEF IInv, ControlInv, Ready, OutUpdates, outVars, streamVars, sessVars, seqVars
  <2>. QED
    BY <1>2, <1>3, <2>1, <2>2
    DEF IInv, ControlInv, outVars, callVars, sessVars, seqVars, flagVars
<1>7. LentInv'
  <2>1. pcIn' # "setup"
    BY <1>2 DEF InSubmit
  <2>2. \A k \in Slots : ~InHolds(k)' /\ Unused(k)' => ~InHolds(k) /\ Unused(k)
    BY <1>3, <1>4, <1>5
  <2>. QED
    BY <1>2, <2>1, <2>2 DEF IInv, LentInv, streamVars, outVars
<1>8. CASE pcIn' = "adv" /\ hw' = hw \cup {[slot |-> j, call |-> calls,
                 seq |-> sseq[j], st |-> "pending", sz |-> 0,
                 room |-> DestRoom, mem |-> DestMem(j),
                 around |-> HeaderSz + FooterSz, fin |-> HwFinal(sseq[j])]}
  <2>1. \A k : ~InHolds(k)'
    BY <1>8 DEF InHolds
  <2>2. \A k \in Slots : Carries(k)' <=> Carries(k) \/ k = j
    BY <1>3, <1>4, <1>5, <2>1 DEF Carries
  <2>3. CursorInv'
    BY <1>3, <1>4, <1>5, <2>1 DEF IInv, CursorInv
  <2>4. DeviceInv'
    <3>1. \A r \in hw : r.slot \in Slots \ {j} /\ InFlight(r.slot)
      BY <1>4 DEF IInv, TypeOK, TypeDev, Answers, DeviceInv
    <3>2. \A r \in hw' : r \in hw \/ (r \notin hw /\ r.slot = j)
      BY <1>8, <3>1
    <3>3. \A r, q \in hw' : r.slot = q.slot => r = q
      BY <1>8, <3>1 DEF IInv, DeviceInv
    <3>4. \A r \in hw' : InFlight(r.slot)' /\ ~InHolds(r.slot)'
      BY <1>3, <1>5, <2>1, <3>1, <3>2
    <3>. QED
      BY <3>3, <3>4 DEF DeviceInv
  <2>5. \A k \in Slots : Carries(k) => sseq[k] < seq /\ seq_in <= sseq[k]
    BY <1>2 DEF IInv, SeqInv
  <2>6. SeqInv'
    <3>1. seq_in <= seq
      BY <1>2 DEF IInv, SeqInv
    <3>2. \A k \in Slots : Carries(k)' =>
            seq_in <= sseq[k] /\ (sseq[k] < seq \/ sseq[k] = seq)
      BY <1>5, <2>2, <2>5, <3>1
    <3>3. \A k, m \in Slots :
            Carries(k)' /\ Carries(m)' /\ sseq[k] = sseq[m] => k = m
      BY <1>2, <1>5, <2>2, <2>5 DEF IInv, SeqInv, TypeStream, TypeSess
    <3>. QED
      BY <1>2, <1>8, <3>1, <3>2, <3>3
      DEF IInv, SeqInv, sessVars, seqVars, streamVars
  <2>. QED
    BY <1>6, <1>7, <2>3, <2>4, <2>6
<1>9. CASE pcIn' \in {"submit", "cleanup"} /\ hw' = hw
  <2>1. \A k : InHolds(k)' <=> InHolds(k)
    BY <1>1, <1>2, <1>9 DEF InHolds
  <2>2. \A k : Carries(k)' <=> Carries(k)
    BY <1>3, <2>1 DEF Carries
  <2>3. CursorInv'
    BY <1>2, <1>3, <1>9, <2>1 DEF IInv, CursorInv
  <2>4. DeviceInv'
    BY <1>3, <1>9, <2>1 DEF IInv, DeviceInv
  <2>5. SeqInv'
    BY <1>1, <1>2, <1>9, <2>2
    DEF IInv, SeqInv, sessVars, seqVars, streamVars
  <2>. QED
    BY <1>6, <1>7, <2>3, <2>4, <2>5
<1>. QED
  BY <1>1, <1>2, <1>8, <1>9 DEF InSubmit

\* compInBufferCleanUp frees the held buffer and takes the user memory back.
LEMMA InCleanUpStep ==
    ASSUME IInv, InCleanUp
    PROVE  CursorInv' /\ DeviceInv' /\ SeqInv' /\ LentInv' /\ ControlInv'
<1>1. PICK j \in Slots : j = jIn
  BY DEF IInv, TypeOK, TypeIn
<1>2. /\ TypeStream /\ pcIn = "cleanup" /\ pcIn' = "sw" /\ jIn' = j
      /\ UNCHANGED <<callVars, sessVars, sink1, sink2, sseq, outVars, hw>>
  BY <1>1 DEF IInv, TypeOK, InCleanUp, devVars
<1>3. /\ src1'[j] = src1[j] - 1 /\ src2'[j] = src2[j] - 1 /\ lent'[j] = {}
      /\ \A k \in Slots \ {j} : /\ src1'[k] = src1[k] /\ src2'[k] = src2[k]
                                /\ lent'[k] = lent[k]
  BY <1>1, <1>2 DEF InCleanUp, TypeStream
<1>4. \A k \in Slots \ {j} : /\ Unused(k)' <=> Unused(k)
                             /\ InFlight(k)' <=> InFlight(k)
                             /\ Answered(k)' <=> Answered(k)
  BY <1>2, <1>3, SlotFrame
<1>5. \A k \in Slots : (InHolds(k) <=> k = j) /\ ~InHolds(k)'
  BY <1>1, <1>2 DEF InHolds
<1>6. Unused(j)'
  BY <1>2, <1>3, <1>5 DEF IInv, CursorInv, InFlight, Unused, TypeStream
<1>7. \A k \in Slots : Carries(k)' => Carries(k) /\ k # j
  BY <1>4, <1>5, <1>6 DEF Carries
<1>8. CursorInv'
  <2>1. \A k \in Slots : Unused(k)' \/ InFlight(k)' \/ Answered(k)'
    BY <1>4, <1>5, <1>6 DEF IInv, CursorInv
  <2>. QED
    BY <1>5, <2>1 DEF CursorInv
<1>9. DeviceInv'
  <2>1. ASSUME NEW r \in hw PROVE r.slot \in Slots \ {j}
    BY <1>5 DEF IInv, TypeOK, TypeDev, Answers, DeviceInv
  <2>. QED
    BY <1>2, <1>4, <1>5, <2>1 DEF IInv, DeviceInv
<1>10. SeqInv'
  BY <1>2, <1>7 DEF IInv, SeqInv, sessVars, seqVars
<1>11. OutUpdates => jOut \in Slots \ {j} /\ Ready(jOut)
  BY <1>5, OutBusy DEF IInv, ControlInv, Carries
<1>12. LentInv'
  <2>1. \A k \in Slots : Unused(k)' => lent'[k] = {}
    BY <1>3, <1>4, <1>5 DEF IInv, LentInv
  <2>2. pcOut' = "resp" => "dest" \notin lent'[jOut']
    BY <1>2, <1>3, <1>11 DEF IInv, LentInv, outVars, OutUpdates
  <2>. QED
    BY <1>2, <2>1, <2>2 DEF LentInv
<1>13. ControlInv'
  <2>1. OutUpdates' => Ready(jOut)'
    BY <1>2, <1>4, <1>11 DEF Ready, OutUpdates, outVars, sessVars, seqVars
  <2>. QED
    BY <1>2, <2>1
    DEF IInv, ControlInv, outVars, callVars, sessVars, seqVars, flagVars
<1>. QED
  BY <1>8, <1>9, <1>10, <1>12, <1>13

\* Counting the chunk doCompressIn compressed in software: no buffer carries
\* a request, so seq_in may run ahead of seq until InAdvance.
LEMMA InSWRespondStep ==
    ASSUME IInv, InSWRespond
    PROVE  CursorInv' /\ DeviceInv' /\ SeqInv' /\ LentInv' /\ ControlInv'
<1>1. /\ TypeStream /\ TypeSess /\ pcIn = "swresp" /\ pcIn' = "adv"
      /\ UNCHANGED <<callVars, seq, submitted, flagVars, streamVars, jIn,
                     outVars, hw>>
      /\ seq_in' = seq_in + 1 /\ processed' = processed + 1
  BY DEF IInv, TypeOK, InSWRespond, devVars
<1>2. seq = seq_in
  BY <1>1 DEF IInv, ControlInv
<1>3. \A k \in Slots : Unused(k)
  BY <1>1, <1>2, AllFree DEF Holding, TypeSess
<1>4. \A k \in Slots : Unused(k)'
  BY <1>1, <1>3, StageFrame DEF streamVars
<1>5. \A k : ~InHolds(k) /\ ~InHolds(k)'
  BY <1>1 DEF InHolds
<1>6. hw = {}
  BY <1>1, <1>3, Stages DEF IInv, TypeOK, TypeDev, Answers, DeviceInv
<1>7. CursorInv'
  BY <1>4, <1>5 DEF CursorInv
<1>8. DeviceInv'
  BY <1>1, <1>6 DEF DeviceInv
<1>9. SeqInv'
  BY <1>1, <1>2, <1>4 DEF IInv, SeqInv, Carries, TypeSess
<1>10. ~OutUpdates
  BY <1>1, OutBusy DEF InUpdates
<1>11. LentInv'
  BY <1>1, <1>3, <1>5, <1>10 DEF IInv, LentInv, streamVars, outVars, OutUpdates
<1>12. ControlInv'
  BY <1>1, <1>10
  DEF IInv, ControlInv, outVars, callVars, flagVars, OutUpdates
<1>. QED
  BY <1>7, <1>8, <1>9, <1>11, <1>12

\* The tail of the loop counts the chunk as submitted.
LEMMA InAdvanceStep ==
    ASSUME IInv, InAdvance
    PROVE  CursorInv' /\ DeviceInv' /\ SeqInv' /\ LentInv' /\ ControlInv'
<1>1. /\ TypeStream /\ TypeSess /\ pcIn = "adv" /\ pcIn' \in {"loop", "done"}
      /\ UNCHANGED <<callVars, seq_in, processed, streamVars, jIn, outVars, hw>>
      /\ seq' = seq + 1 /\ submitted' = submitted + 1
  BY DEF IInv, TypeOK, InAdvance, devVars
<1>2. \A k : /\ Unused(k)' <=> Unused(k)
             /\ InFlight(k)' <=> InFlight(k)
             /\ Answered(k)' <=> Answered(k)
  BY <1>1, StageFrame DEF streamVars
<1>3. \A k : ~InHolds(k) /\ ~InHolds(k)'
  BY <1>1 DEF InHolds
<1>4. \A k : Carries(k)' <=> Carries(k)
  BY <1>2, <1>3 DEF Carries
<1>5. CursorInv'
  BY <1>2, <1>3 DEF IInv, CursorInv
<1>6. DeviceInv'
  BY <1>1, <1>2, <1>3 DEF IInv, DeviceInv
<1>7. SeqInv'
  <2>1. \A k \in Slots : Carries(k) => seq_in <= sseq[k] /\ sseq[k] < seq + 1
    BY <1>1 DEF IInv, SeqInv, TypeStream, TypeSess
  <2>2. seq_in <= seq + 1
    BY <1>1 DEF IInv, SeqInv, TypeSess
  <2>. QED
    BY <1>1, <1>4, <2>1, <2>2 DEF IInv, SeqInv, streamVars
<1>8. LentInv'
  BY <1>1, <1>2, <1>3 DEF IInv, LentInv, streamVars, outVars
<1>9. ControlInv'
  <2>1. OutUpdates' => Ready(jOut)'
    BY <1>1, <1>2
    DEF IInv, ControlInv, Ready, OutUpdates, outVars, streamVars
  <2>2. caller = "run" /\ ~last_submitted /\ pcOut # "done"
    BY <1>1 DEF IInv, ControlInv, TypeOK, TypeCall, TypeSess
  <2>3. last_submitted' => pcIn' = "done"
    BY <2>2 DEF InAdvance
  <2>. QED
    BY <1>1, <2>1, <2>2, <2>3 DEF IInv, ControlInv, outVars, callVars
<1>. QED
  BY <1>5, <1>6, <1>7, <1>8, <1>9

-----------------------------------------------------------------------------
(* doCompressOut's steps, the device's and the caller's.                   *)

\* dcCallback turns a buffer in flight into an answered one.
LEMMA OutCallbackStep ==
    ASSUME IInv, OutCallback
    PROVE  CursorInv' /\ DeviceInv' /\ SeqInv' /\ LentInv' /\ ControlInv'
<1>1. /\ TypeStream /\ pcOut = "poll"
      /\ UNCHANGED <<callVars, sessVars, src1, src2, sink2, sseq, lent, inVars,
                     outVars>>
  BY DEF IInv, TypeOK, OutCallback
<1>2. PICK r \in hw :
        /\ hw' = hw \ {r}
        /\ sink1' = IF InFlight(r.slot) THEN [sink1 EXCEPT ![r.slot] = @ + 1]
                    ELSE sink1
  BY DEF OutCallback
<1>3. PICK j \in Slots : j = r.slot
  BY DEF IInv, TypeOK, TypeDev, Answers
<1>4. InFlight(j) /\ ~InHolds(j)
  BY <1>3 DEF IInv, DeviceInv
<1>5. /\ sink1'[j] = sink1[j] + 1
      /\ \A k \in Slots \ {j} : sink1'[k] = sink1[k]
  BY <1>1, <1>2, <1>3, <1>4 DEF TypeStream
<1>6. \A k \in Slots \ {j} : /\ Unused(k)' <=> Unused(k)
                             /\ InFlight(k)' <=> InFlight(k)
                             /\ Answered(k)' <=> Answered(k)
  BY <1>1, <1>5, SlotFrame
<1>7. Answered(j)' /\ ~Unused(j)' /\ ~Unused(j)
  BY <1>1, <1>4, <1>5 DEF InFlight, Answered, Unused, TypeStream
<1>8. \A k : InHolds(k)' <=> InHolds(k)
  BY <1>1 DEF InHolds, inVars
<1>9. \A k \in Slots : Carries(k)' <=> Carries(k)
  BY <1>6, <1>7, <1>8 DEF Carries
<1>10. CursorInv'
  <2> SUFFICES ASSUME NEW k \in Slots
               PROVE  /\ InHolds(k)' /\ pcIn' \in {"setup", "use"} =>
                            src1'[k] = src2'[k] + 1 /\ src2'[k] = sink1'[k]
                            /\ sink1'[k] = sink2'[k]
                      /\ InHolds(k)' /\ pcIn' \in {"submit", "cleanup"} =>
                            InFlight(k)'
                      /\ ~InHolds(k)' => Unused(k)' \/ InFlight(k)' \/ Answered(k)'
    BY DEF CursorInv
  <2>1. CASE k = j
    BY <2>1, <1>4, <1>7, <1>8
  <2>2. CASE k # j
    BY <2>2, <1>1, <1>5, <1>6, <1>8 DEF IInv, CursorInv, inVars
  <2>. QED
    BY <2>1, <2>2
<1>11. DeviceInv'
  <2>1. \A q \in hw' : q \in hw /\ q.slot \in Slots \ {j}
    BY <1>2, <1>3 DEF IInv, TypeOK, TypeDev, Answers, DeviceInv
  <2>. QED
    BY <1>6, <1>8, <2>1 DEF IInv, DeviceInv
<1>12. SeqInv'
  BY <1>1, <1>9 DEF IInv, SeqInv, sessVars, seqVars, inVars
<1>13. LentInv'
  BY <1>1, <1>6, <1>7, <1>8 DEF IInv, LentInv, inVars, outVars
<1>14. ControlInv'
  <2>1. caller = "run" /\ ~OutUpdates'
    BY <1>1 DEF IInv, TypeOK, TypeCall, ControlInv, OutUpdates, outVars
  <2>. QED
    BY <1>1, <2>1
    DEF IInv, ControlInv, outVars, inVars, callVars, sessVars, seqVars, flagVars
<1>. QED
  BY <1>10, <1>11, <1>12, <1>13, <1>14

\* ControlInv after an answer has been counted.
LEMMA RespondControl ==
    ASSUME IInv, OutUpdates, Respond({}),
           UNCHANGED <<pcIn, caller, req, last_submitted>>,
           pcOut' \in {"scan", "loop", "buferr"}
    PROVE  ControlInv'
<1>1. caller = "run" /\ pcIn \notin {"swcomp", "swresp"}
  BY OutBusy DEF InUpdates
<1>. QED
  BY <1>1 DEF IInv, ControlInv, OutUpdates

\* Writing a piece out touches lengths and the lent destination only.
LEMMA OutEmitStep ==
    ASSUME IInv, OutEmit
    PROVE  CursorInv' /\ DeviceInv' /\ SeqInv' /\ LentInv' /\ ControlInv'
<1>1. /\ pcOut = "emit" /\ pcOut' = "resp" /\ OutUpdates
      /\ UNCHANGED <<callVars, seqVars, flagVars, cursorVars, sseq, inVars,
                     jOut, hw>>
  BY DEF OutEmit, OutUpdates, devVars
<1>2. PICK j \in Slots : j = jOut
  BY <1>1, OutBusy
<1>3. TypeStream /\ Carries(j)
  BY <1>1, <1>2, OutBusy DEF IInv, TypeOK
<1>4. /\ lent'[j] = lent[j] \ {"dest"}
      /\ \A k \in Slots \ {j} : lent'[k] = lent[k]
  BY <1>2, <1>3 DEF OutEmit, TypeStream
<1>5. \A k : /\ Unused(k)' <=> Unused(k)
             /\ InFlight(k)' <=> InFlight(k)
             /\ Answered(k)' <=> Answered(k)
             /\ InHolds(k)' <=> InHolds(k)
  BY <1>1, StageFrame DEF InHolds, inVars
<1>6. \A k : Carries(k)' <=> Carries(k)
  BY <1>5 DEF Carries
<1>7. CursorInv' /\ DeviceInv' /\ SeqInv'
  BY <1>1, <1>5, <1>6
  DEF IInv, CursorInv, DeviceInv, SeqInv, cursorVars, inVars, seqVars
<1>8. LentInv'
  BY <1>1, <1>2, <1>3, <1>4, <1>5
  DEF IInv, LentInv, TypeOK, TypeIn, inVars, Carries, InHolds
<1>9. ControlInv'
  BY <1>1, <1>5
  DEF IInv, ControlInv, Ready, OutUpdates, inVars, callVars, seqVars, flagVars
<1>. QED
  BY <1>7, <1>8, <1>9

\* Taking an answer frees its buffer and returns the lent source.
LEMMA OutRespondStep ==
    ASSUME IInv, OutRespond
    PROVE  CursorInv' /\ DeviceInv' /\ SeqInv' /\ LentInv' /\ ControlInv'
<1>1. /\ pcOut = "resp" /\ pcOut' = "loop" /\ OutUpdates
      /\ UNCHANGED <<callVars, flagVars, inVars, hw>>
  BY DEF OutRespond, OutUpdates, devVars
<1>2. lent[jOut] \ {"src"} = {}
  BY <1>1, OutBusy DEF IInv, LentInv, TypeOK, TypeStream
<1>3. Respond({})
  BY <1>2 DEF OutRespond
<1>. QED
  BY <1>1, <1>3, RespondStep, RespondControl DEF inVars, callVars, flagVars

\* Dropping an answer after QZ_BUF_ERROR frees its buffer and what was lent.
LEMMA OutSkipStep ==
    ASSUME IInv, OutSkip
    PROVE  CursorInv' /\ DeviceInv' /\ SeqInv' /\ LentInv' /\ ControlInv'
<1>1. /\ pcOut' = "scan" /\ OutUpdates /\ Respond({})
      /\ UNCHANGED <<callVars, flagVars, inVars, hw>>
  BY DEF OutSkip, OutUpdates, devVars
<1>. QED
  BY <1>1, RespondStep, RespondControl DEF inVars, callVars, flagVars

\* The test of the room either keeps the answer or drops it.
LEMMA OutCheckStep ==
    ASSUME IInv, OutCheck
    PROVE  CursorInv' /\ DeviceInv' /\ SeqInv' /\ LentInv' /\ ControlInv'
<1>1. /\ pcOut = "check" /\ OutUpdates
      /\ UNCHANGED <<callVars, flagVars, inVars, jOut, hw>>
  BY DEF OutCheck, OutUpdates, devVars
<1>2. CASE Respond({}) /\ pcOut' = "buferr"
  BY <1>1, <1>2, RespondStep, RespondControl DEF inVars, callVars, flagVars
<1>3. CASE pcOut' = "emit" /\ UNCHANGED <<seqVars, streamVars>>
  <2>1. CursorInv' /\ DeviceInv' /\ SeqInv' /\ LentInv'
    BY <1>1, <1>3, QuietStep DEF IInv, inVars, streamVars
  <2>2. Ready(jOut)'
    BY <1>1, <1>3, StageFrame DEF IInv, ControlInv, Ready, streamVars, seqVars
  <2>3. ControlInv'
    BY <1>1, <1>3, <2>2, OutBusy
    DEF IInv, ControlInv, inVars, callVars, seqVars, flagVars
  <2>. QED
    BY <2>1, <2>3
<1>. QED
  BY <1>2, <1>3 DEF OutCheck

\* An answer of the device leaves the buffer in flight until it is polled.
LEMMA HwCompleteStep ==
    ASSUME IInv, HwComplete
    PROVE  CursorInv' /\ DeviceInv' /\ SeqInv' /\ LentInv' /\ ControlInv'
<1>1. UNCHANGED <<callVars, sessVars, streamVars, inVars, outVars>>
  BY DEF HwComplete
<1>2. PICK r \in hw, a \in hw' : hw' = (hw \ {r}) \cup {a} /\ a.slot = r.slot
  <2>1. PICK r \in hw :
          \/ \E sz \in Sizes :
                hw' = (hw \ {r}) \cup {[r EXCEPT !.st = "ok", !.sz = sz]}
          \/ hw' = (hw \ {r}) \cup {[r EXCEPT !.st = "err"]}
    BY DEF HwComplete
  <2>2. r \in Answers
    BY DEF IInv, TypeOK, TypeDev
  <2>3. CASE \E sz \in Sizes :
                hw' = (hw \ {r}) \cup {[r EXCEPT !.st = "ok", !.sz = sz]}
    <3>1. PICK sz \in Sizes :
                hw' = (hw \ {r}) \cup {[r EXCEPT !.st = "ok", !.sz = sz]}
      BY <2>3
    <3>2. [r EXCEPT !.st = "ok", !.sz = sz].slot = r.slot
      BY <2>2 DEF Answers
    <3>. QED
      BY <3>1, <3>2
  <2>4. CASE hw' = (hw \ {r}) \cup {[r EXCEPT !.st = "err"]}
    <3>1. [r EXCEPT !.st = "err"].slot = r.slot
      BY <2>2 DEF Answers
    <3>. QED
      BY <2>4, <3>1
  <2>. QED
    BY <2>1, <2>3, <2>4
<1>3. \A k : /\ Unused(k)' <=> Unused(k)
             /\ InFlight(k)' <=> InFlight(k)
             /\ Answered(k)' <=> Answered(k)
             /\ InHolds(k)' <=> InHolds(k)
             /\ Ready(k)' <=> Ready(k)
  BY <1>1, StageFrame DEF streamVars, InHolds, inVars, Ready, sessVars, seqVars
<1>4. DeviceInv'
  <2>1. \A q \in hw' : InFlight(q.slot)' /\ ~InHolds(q.slot)'
    BY <1>2, <1>3 DEF IInv, DeviceInv
  <2>2. \A p, q \in hw' : p.slot = q.slot => p = q
    BY <1>2 DEF IInv, DeviceInv
  <2>. QED
    BY <2>1, <2>2 DEF DeviceInv
<1>5. CursorInv' /\ SeqInv' /\ LentInv'
  BY <1>1, <1>3
  DEF IInv, CursorInv, SeqInv, LentInv, Carries, streamVars, cursorVars, inVars,
      outVars, sessVars, seqVars
<1>6. ControlInv'
  BY <1>1, <1>3
  DEF IInv, ControlInv, OutUpdates, inVars, outVars, callVars, sessVars,
      seqVars, flagVars
<1>. QED
  BY <1>4, <1>5, <1>6

\* A call begins with every buffer free and the counters at zero.
LEMMA CallHWStep ==
    ASSUME IInv, NoReset, NEW r \in Requests, caller = "idle", CallHW(r)
    PROVE  CursorInv' /\ DeviceInv' /\ SeqInv' /\ LentInv' /\ ControlInv'
<1>1. pcIn = "done" /\ pcOut = "done" /\ \A k \in Slots : Unused(k)
  BY DEF IInv, ControlInv
<1>2. /\ pcIn' = "loop" /\ pcOut' = "start" /\ caller' = "run" /\ req' = r
      /\ UNCHANGED <<streamVars, hw>>
  BY DEF CallHW, devVars
<1>3. \A k \in Slots : Unused(k)'
  BY <1>1, <1>2, StageFrame DEF streamVars
<1>4. \A k : ~InHolds(k) /\ ~InHolds(k)'
  BY <1>1, <1>2 DEF InHolds
<1>5. hw = {}
  BY <1>1, Stages DEF IInv, TypeOK, TypeDev, Answers, DeviceInv
<1>6. CursorInv' /\ DeviceInv' /\ LentInv'
  BY <1>1, <1>2, <1>3, <1>4, <1>5
  DEF IInv, CursorInv, DeviceInv, LentInv, streamVars
<1>7. SeqInv'
  BY <1>2, <1>3 DEF SeqInv, Carries, CallHW
<1>8. r.sw_backup
  <2>1. PICK b \in SwBackups : r.sw_backup = b
    BY DEF Requests
  <2>2. b = TRUE
    BY DEF NoReset
  <2>. QED
    BY <2>1, <2>2
<1>9. \A sz \in Sizes : sz <= r.dest
  BY DEF Requests, NoReset
<1>10. ControlInv'
  BY <1>2, <1>8, <1>9 DEF ControlInv, OutUpdates, CallHW
<1>. QED
  BY <1>6, <1>7, <1>10

\* Every step of the caller, the two threads and the device keeps the
\* invariant, provided the buffers are never reset.
LEMMA InvStep == NoReset /\ IInv /\ [Next]_vars => IInv'
<1> SUFFICES ASSUME NoReset, IInv, [Next]_vars PROVE IInv'
  OBVIOUS
<1>0. TypeOK'
  BY TypeStep DEF IInv
<1> SUFFICES CursorInv' /\ DeviceInv' /\ SeqInv' /\ LentInv' /\ ControlInv'
  BY <1>0 DEF IInv
<1>1. CASE InLoop \/ InNoBuffer \/ InSWFallback \/ InSWPending \/ InSWCompress
           \/ InErrExit
  <2>1. /\ UNCHANGED <<callVars, seqVars, streamVars, outVars, hw>>
        /\ \/ UNCHANGED <<pcIn, jIn>>
           \/ /\ pcIn \notin Holding \cup {"adv"}
              /\ pcIn' \notin Holding \cup {"adv"}
    BY <1>1 DEF InLoop, InNoBuffer, InSWFallback, InSWPending, InSWCompress,
                InErrExit, Holding, sessVars, devVars
  <2>2. CursorInv' /\ DeviceInv' /\ SeqInv' /\ LentInv'
    BY <2>1, QuietStep DEF IInv, streamVars, outVars
  <2>3. \A k : (Ready(k)' <=> Ready(k)) /\ (Unused(k)' <=> Unused(k))
    BY <2>1, StageFrame DEF streamVars, Ready, seqVars
  <2>4. /\ pcIn # "done"
        /\ UNCHANGED last_submitted \/ (last_submitted' = TRUE /\ pcIn' = "done")
    <3>1. CASE InErrExit
      BY <3>1 DEF InErrExit
    <3>2. CASE ~InErrExit
      BY <1>1, <3>2 DEF InLoop, InNoBuffer, InSWFallback, InSWPending,
                        InSWCompress, sessVars, flagVars
    <3>. QED
      BY <3>1, <3>2
  <2>5. pcIn' \in {"swcomp", "swresp"} => seq = seq_in
    BY <1>1 DEF InLoop, InNoBuffer, InSWFallback, InSWPending, InSWCompress,
                InErrExit, IInv, ControlInv
  <2>6. ControlInv'
    BY <2>1, <2>3, <2>4, <2>5
    DEF IInv, ControlInv, OutUpdates, outVars, callVars, seqVars, TypeOK,
        TypeSess
  <2>. QED
    BY <2>2, <2>6
<1>2. CASE InGetBuffer
  BY <1>2, InGetBufferStep
<1>3. CASE InSetup
  BY <1>3, InSetupStep
<1>4. CASE InUse
  BY <1>4, InUseStep
<1>5. CASE InSubmit
  BY <1>5, InSubmitStep
<1>6. CASE InCleanUp
  BY <1>6, InCleanUpStep
<1>7. CASE InSWRespond
  BY <1>7, InSWRespondStep
<1>8. CASE InAdvance
  BY <1>8, InAdvanceStep
<1>9. CASE OutStart \/ OutLoop \/ OutPolled \/ OutScan \/ OutHandle \/ OutSW
           \/ OutBufError
  <2>1. /\ UNCHANGED <<callVars, seqVars, streamVars, inVars, hw, last_submitted>>
        /\ pcOut # "done" /\ pcOut' # "resp"
    BY <1>9 DEF OutStart, OutLoop, OutPolled, OutScan, OutHandle, OutSW,
                OutBufError, sessVars, flagVars, devVars
  <2>2. CursorInv' /\ DeviceInv' /\ SeqInv' /\ LentInv'
    BY <2>1, QuietStep DEF IInv, streamVars, inVars
  <2>3. \A k : (Ready(k)' <=> Ready(k)) /\ (Unused(k)' <=> Unused(k))
    BY <2>1, StageFrame DEF streamVars, Ready, seqVars
  <2>4. caller = "run" /\ req.sw_backup /\ \A sz \in Sizes : sz <= req.dest
    BY <2>1 DEF IInv, TypeOK, TypeCall, ControlInv
  <2>5. pcOut' \notin {"err", "reset"}
    <3>1. \A sz \in Sizes : ~(sz > req.dest)
      BY <2>4, BoundsAssumption DEF IInv, TypeOK, TypeCall, Requested
    <3>. QED
      BY <1>9, <2>4, <3>1 DEF OutStart, OutLoop, OutPolled, OutScan, OutHandle,
                              OutSW, OutBufError, NoReset
  <2>6. pcOut' = "done" => last_submitted /\ submitted <= processed
    BY <1>9 DEF OutStart, OutLoop, OutPolled, OutScan, OutHandle, OutSW,
                OutBufError, IInv, TypeOK, TypeSess
  <2>7. OutUpdates' => Ready(jOut')
    BY <1>9 DEF OutStart, OutLoop, OutPolled, OutScan, OutHandle, OutSW,
                OutBufError, IInv, ControlInv, OutUpdates
  <2>8. ControlInv'
    BY <2>1, <2>3, <2>4, <2>5, <2>6, <2>7
    DEF IInv, ControlInv, inVars, callVars, seqVars
  <2>. QED
    BY <2>2, <2>8
<1>10. CASE OutCallback
  BY <1>10, OutCallbackStep
<1>11. CASE OutPollFail \/ OutErrExit \/ OutReset
  BY <1>11 DEF OutPollFail, OutErrExit, OutReset, NoReset, IInv, ControlInv
<1>12. CASE OutSkip
  BY <1>12, OutSkipStep
<1>13. CASE OutCheck
  BY <1>13, OutCheckStep
<1>14. CASE OutEmit
  BY <1>14, OutEmitStep
<1>15. CASE OutRespond
  BY <1>15, OutRespondStep
<1>16. CASE HwComplete
  BY <1>16, HwCompleteStep
<1>17. CASE FatalError \/ Restarted \/ Rest \/ UNCHANGED vars
  <2>1. UNCHANGED <<callVars, sessVars, streamVars, inVars, outVars, hw>>
    BY <1>17 DEF FatalError, Restarted, Rest, vars, devVars
  <2>2. CursorInv' /\ DeviceInv' /\ SeqInv' /\ LentInv'
    BY <2>1, QuietStep DEF IInv, streamVars, inVars, outVars, sessVars
  <2>3. \A k : (Ready(k)' <=> Ready(k)) /\ (Unused(k)' <=> Unused(k))
    BY <2>1, StageFrame DEF streamVars, Ready, seqVars, sessVars
  <2>4. ControlInv'
    BY <2>1, <2>3
    DEF IInv, ControlInv, OutUpdates, inVars, outVars, callVars, sessVars,
        seqVars, flagVars
  <2>. QED
    BY <2>2, <2>4
<1>18. CASE \E r \in Requests : Call(r)
  <2>1. PICK r \in Requests : Call(r)
    BY <1>18
  <2>2. caller = "idle"
    BY <2>1 DEF Call
  <2>3. CASE CallHW(r)
    BY <2>2, <2>3, CallHWStep
  <2>4. CASE CallSW(r) \/ CallRefused(r)
    <3>1. UNCHANGED <<caller, seqVars, flagVars, streamVars, inVars, outVars, hw>>
      BY <2>4 DEF CallSW, CallRefused, sessVars, devVars
    <3>2. CursorInv' /\ DeviceInv' /\ SeqInv' /\ LentInv'
      BY <3>1, QuietStep DEF IInv, streamVars, inVars, outVars
    <3>3. \A k : Unused(k)' <=> Unused(k)
      BY <3>1, StageFrame DEF streamVars
    <3>4. ControlInv'
      BY <2>2, <3>1, <3>3
      DEF IInv, ControlInv, OutUpdates, inVars, outVars, seqVars, flagVars
    <3>. QED
      BY <3>2, <3>4
  <2>. QED
    BY <2>1, <2>3, <2>4 DEF Call
<1>19. CASE FinishMismatch \/ FinishSW \/ Finish
  <2>1. /\ Joined /\ caller' = "idle"
        /\ UNCHANGED <<seqVars, streamVars, inVars, outVars, hw>>
    BY <1>19 DEF FinishMismatch, FinishSW, Finish, Return, devVars
  <2>2. CursorInv' /\ DeviceInv' /\ SeqInv' /\ LentInv'
    BY <2>1, QuietStep DEF IInv, streamVars, inVars, outVars
  <2>3. seq <= seq_in
    BY <2>1 DEF IInv, ControlInv, SeqInv, Joined
  <2>4. \A k \in Slots : Unused(k)
    BY <2>1, <2>3, AllFree DEF Joined, Holding
  <2>5. \A k \in Slots : Unused(k)'
    BY <2>1, <2>4, StageFrame DEF streamVars
  <2>6. ControlInv'
    BY <2>1, <2>5
    DEF ControlInv, OutUpdates, Joined, inVars, outVars
  <2>. QED
    BY <2>2, <2>6
<1>. QED
  BY <1>1, <1>2, <1>3, <1>4, <1>5, <1>6, <1>7, <1>8, <1>9, <1>10, <1>11,
     <1>12, <1>13, <1>14, <1>15, <1>16, <1>17, <1>18, <1>19
  DEF Next, InNext, OutNext

\* IInv holds throughout, for every number of buffers, threshold, chunk count
\* and destination, with devices that refuse, fail or die at any moment.
THEOREM ProtocolInvariant == ASSUME NoReset PROVE Spec => []IInv
<1>1. Init => IInv
  BY InvInit
<1>2. IInv /\ [Next]_vars => IInv'
  BY InvStep
<1>. QED
  BY <1>1, <1>2, PTL DEF Spec

\* doCompressIn and doCompressOut never update the session at the same time.
THEOREM Exclusion == ASSUME NoReset PROVE Spec => []UpdatesExclusive
<1>1. IInv => UpdatesExclusive
  BY OutBusy DEF UpdatesExclusive
<1>. QED
  BY <1>1, ProtocolInvariant, PTL

\* Every buffer is free again, and holds no memory of the application, when a
\* call returns.
THEOREM Returned == ASSUME NoReset PROVE Spec => []BuffersReturned
<1>1. IInv => BuffersReturned
  BY DEF IInv, ControlInv, LentInv, InHolds, BuffersReturned
<1>. QED
  BY <1>1, ProtocolInvariant, PTL

\* dcCallback never meets cursors it has to refuse.
THEOREM NoFlow == ASSUME NoReset PROVE Spec => []NoFlowError
<1>1. IInv => NoFlowError
  BY DEF IInv, DeviceInv, NoFlowError
<1>. QED
  BY <1>1, ProtocolInvariant, PTL

-----------------------------------------------------------------------------
(* The destination's end: however short it is, whatever fails, and also     *)
(* after a reset of the buffers.                                            *)

\* What the answer at hand still takes of what is accounted for already.
Owed == IF pcOut = "emit" THEN pend.sz ELSE 0

\* Pieces of the device alone, and their place before the end.
DeviceMade(s) == \A i \in 1..Len(s) : s[i].by = "hw"
Within(s, end) ==
    \A i \in 1..Len(s) :
        (\A j \in 1..i : s[j].by = "hw") => s[i].at + s[i].sz <= end

\* doCompressOut's account of the room (avail) is never more generous than the
\* room there is, as long as no software wrote without being accounted for.
FitInv ==
    /\ TypeOK
    /\ next_dest = qz_out_len
    /\ caller = "idle" => pcOut = "done"
    /\ pcOut = "emit" => avail >= 0
    /\ DeviceMade(out) /\ pcOut \notin {"start", "done"} =>
          next_dest + Owed <= req.dest - avail
    /\ Within(out, req.dest)

\* The destination grows by one piece at its end.
LEMMA OneMore ==
    ASSUME NEW s \in Seq(Pieces), NEW p
    PROVE  /\ Len(s) \in Nat /\ Len(Append(s, p)) = Len(s) + 1
           /\ \A i \in 1..Len(s) : Append(s, p)[i] = s[i]
           /\ Append(s, p)[Len(s) + 1] = p
OBVIOUS

LEMMA WithinAppend ==
    ASSUME NEW s \in Seq(Pieces), NEW p, NEW end, Within(s, end),
           DeviceMade(s) /\ p.by = "hw" => p.at + p.sz <= end
    PROVE  /\ Within(Append(s, p), end)
           /\ DeviceMade(Append(s, p)) => DeviceMade(s) /\ p.by = "hw"
<1> DEFINE t == Append(s, p)
<1>1. PICK n \in Nat : n = Len(s)
  OBVIOUS
<1>2. /\ Len(t) = n + 1 /\ t[n + 1] = p /\ \A i \in 1..n : t[i] = s[i]
  BY <1>1, OneMore
<1> HIDE DEF t
<1>3. ASSUME NEW i \in 1..(n + 1), \A j \in 1..i : t[j].by = "hw"
      PROVE  t[i].at + t[i].sz <= end
  <2>1. CASE i = n + 1
    <3>1. \A j \in 1..n : s[j].by = "hw"
      BY <1>2, <1>3, <2>1
    <3>2. p.by = "hw"
      BY <1>2, <1>3, <2>1
    <3>3. QED  BY <1>1, <1>2, <2>1, <3>1, <3>2 DEF DeviceMade
  <2>2. CASE i # n + 1
    <3>1. i \in 1..n /\ t[i] = s[i] /\ \A j \in 1..i : s[j].by = "hw"
      BY <1>2, <1>3, <2>2
    <3>2. QED  BY <1>1, <3>1 DEF Within
  <2>3. QED  BY <2>1, <2>2
<1>4. Within(t, end)
  BY <1>2, <1>3 DEF Within
<1>5. DeviceMade(t) => DeviceMade(s) /\ p.by = "hw"
  <2>1. SUFFICES ASSUME \A i \in 1..(n + 1) : t[i].by = "hw"
                 PROVE  (\A i \in 1..n : s[i].by = "hw") /\ p.by = "hw"
    BY <1>1, <1>2 DEF DeviceMade
  <2>2. ASSUME NEW i \in 1..n PROVE s[i].by = "hw"
    BY <1>2, <2>1
  <2>3. p.by = "hw"
    BY <1>2, <2>1
  <2>4. QED  BY <2>2, <2>3
<1>6. QED  BY <1>4, <1>5 DEF t

\* Steps that write nothing, and free no room that is accounted for.
Silent ==
    /\ UNCHANGED <<out, req, next_dest, qz_out_len>>
    /\ caller' = "idle" => pcOut' = "done"
    /\ \/ UNCHANGED <<pcOut, avail, pend>>
       \/ pcOut' = "done"
       \/ /\ pcOut \notin {"start", "done"} /\ avail' + Owed' <= avail + Owed
          /\ pcOut' = "emit" => avail' >= 0

LEMMA FitQuiet ==
    ASSUME FitInv, TypeOK', Silent
    PROVE  FitInv'
<1>1. /\ avail \in Int /\ avail' \in Int /\ Owed \in Int /\ Owed' \in Int
      /\ next_dest \in Int /\ req.dest \in Int
  BY DEF FitInv, TypeOK, TypeOut, TypeSess, TypeCall, Requested, Owed
<1>2. /\ UNCHANGED <<out, req, next_dest, qz_out_len>>
      /\ caller' = "idle" => pcOut' = "done"
      /\ pcOut' = "emit" => avail' >= 0
  BY DEF Silent, FitInv
<1>3. CASE UNCHANGED <<pcOut, avail, pend>> \/ pcOut' = "done"
  BY <1>1, <1>2, <1>3 DEF FitInv, Owed
<1>4. CASE /\ pcOut \notin {"start", "done"} /\ avail' + Owed' <= avail + Owed
  <2>1. ASSUME DeviceMade(out) PROVE next_dest + Owed' <= req.dest - avail'
    <3>1. next_dest + Owed <= req.dest - avail
      BY <1>4, <2>1 DEF FitInv
    <3>2. PICK n, d, a, b, o, p :
            /\ n = next_dest /\ d = req.dest /\ a = avail /\ b = avail'
            /\ o = Owed /\ p = Owed'
      OBVIOUS
    <3>3. /\ n \in Int /\ d \in Int /\ a \in Int /\ b \in Int /\ o \in Int /\ p \in Int
          /\ b + p <= a + o /\ n + o <= d - a
      BY <1>1, <1>4, <3>1, <3>2
    <3>4. n + p <= d - b
      BY <3>3
    <3>5. QED  BY <3>2, <3>4
  <2>2. QED  BY <1>2, <2>1 DEF FitInv
<1>5. QED  BY <1>3, <1>4 DEF Silent

LEMMA FitStep == FitInv /\ [Next]_vars => FitInv'
<1> SUFFICES ASSUME FitInv, [Next]_vars PROVE FitInv'
  OBVIOUS
<1>1. TypeOK /\ TypeOK'
  BY TypeStep DEF FitInv
<1>2. /\ next_dest \in Int /\ qz_out_len = next_dest /\ avail \in Int
      /\ out \in Seq(Pieces) /\ req.dest \in Nat /\ pend.sz \in Nat
  BY <1>1 DEF FitInv, TypeOK, TypeOut, TypeSess, TypeCall, Requested
<1>3. CASE \/ InLoop \/ InGetBuffer \/ InNoBuffer \/ InSetup \/ InUse \/ InSubmit
           \/ InCleanUp \/ InSWFallback \/ InSWPending \/ InSWRespond \/ InAdvance
           \/ InErrExit \/ HwComplete \/ FatalError \/ Restarted \/ Rest
           \/ UNCHANGED vars
  <2>1. UNCHANGED <<callVars, lenVars, outVars, out>>
    BY <1>3 DEF InLoop, InGetBuffer, InNoBuffer, InSetup, InUse, InSubmit,
                InCleanUp, InSWFallback, InSWPending, InSWRespond, InAdvance,
                InErrExit, HwComplete, FatalError, Restarted, Rest, vars, sessVars
  <2>2. QED  BY <1>1, <2>1, FitQuiet DEF Silent, callVars, lenVars, outVars, FitInv
<1>4. CASE InSWCompress
  <2>1. CASE UNCHANGED <<lenVars, out>>
    BY <1>1, <1>4, <2>1, FitQuiet
    DEF Silent, InSWCompress, callVars, lenVars, outVars, FitInv
  <2>2. CASE \E sz \in Sizes :
               /\ out' = Append(out, Piece(calls, seq, 1, "sw", next_dest, sz,
                                           SwFinal(req)))
               /\ next_dest' = next_dest + sz
               /\ qz_out_len' = qz_out_len + sz
    <3>1. PICK p : /\ out' = Append(out, p) /\ p.by = "sw"
                   /\ next_dest' = qz_out_len'
      BY <1>2, <2>2 DEF Piece
    <3>2. Within(out', req.dest) /\ ~DeviceMade(out')
      BY <1>2, <3>1, WithinAppend DEF FitInv
    <3>3. UNCHANGED <<callVars, outVars>>
      BY <1>4 DEF InSWCompress
    <3>4. QED  BY <1>1, <3>1, <3>2, <3>3 DEF FitInv, callVars, outVars
  <2>3. QED  BY <1>4, <2>1, <2>2 DEF InSWCompress
<1>5. CASE OutStart
  <2>1. UNCHANGED <<callVars, lenVars, out>> /\ avail' = req.dest - qz_out_len
        /\ pcOut' = "loop"
    BY <1>5 DEF OutStart, sessVars
  <2>2. Owed' = 0
    BY <2>1 DEF Owed
  <2>3. next_dest + Owed' <= req.dest - avail'
    BY <1>2, <2>1, <2>2
  <2>4. caller' = "idle" => FALSE
    BY <1>5, <2>1 DEF OutStart, FitInv, callVars
  <2>5. QED  BY <1>1, <2>1, <2>3, <2>4 DEF FitInv, callVars, lenVars
<1>6. CASE \/ OutLoop \/ OutCallback \/ OutPolled \/ OutPollFail \/ OutScan
           \/ OutSkip \/ OutHandle \/ OutSW \/ OutBufError \/ OutRespond
           \/ OutErrExit \/ OutReset
  <2>1. /\ UNCHANGED <<callVars, lenVars, out, avail>>
        /\ pcOut \notin {"start", "done", "emit"} /\ pcOut' # "emit"
    BY <1>6 DEF OutLoop, OutCallback, OutPolled, OutPollFail, OutScan, OutSkip,
                OutHandle, OutSW, OutBufError, OutRespond, OutErrExit, OutReset,
                sessVars, lenVars, outVars
  <2>2. Owed = 0 /\ Owed' = 0 /\ caller # "idle" /\ caller' = caller
    BY <2>1 DEF Owed, FitInv, callVars
  <2>3. avail' + Owed' <= avail + Owed
    BY <1>2, <2>1, <2>2
  <2>4. QED  BY <1>1, <2>1, <2>2, <2>3, FitQuiet DEF Silent, callVars, lenVars
<1>7. CASE OutCheck
  <2>1. /\ UNCHANGED <<callVars, lenVars, out, pend>> /\ pcOut = "check"
        /\ avail' = avail - pend.sz
        /\ \/ avail - pend.sz < 0 /\ pcOut' = "buferr"
           \/ ~(avail - pend.sz < 0) /\ pcOut' = "emit"
    BY <1>7 DEF OutCheck
  <2>2. /\ Owed = 0 /\ Owed' = (IF pcOut' = "emit" THEN pend.sz ELSE 0)
        /\ caller # "idle" /\ caller' = caller
    BY <2>1 DEF Owed, FitInv, callVars
  <2>3. avail' + Owed' <= avail + Owed /\ (pcOut' = "emit" => avail' >= 0)
    BY <1>2, <2>1, <2>2
  <2>4. QED  BY <1>1, <2>1, <2>2, <2>3, FitQuiet DEF Silent, callVars, lenVars
<1>8. CASE OutEmit
  <2>1. /\ pcOut = "emit" /\ pcOut' = "resp" /\ UNCHANGED <<callVars, avail>>
        /\ next_dest' = next_dest + pend.sz /\ qz_out_len' = qz_out_len + pend.sz
    BY <1>8 DEF OutEmit
  <2>2. PICK p : /\ out' = Append(out, p)
                 /\ p.by = "hw" => p.at = next_dest /\ p.sz = pend.sz
    BY <1>8 DEF OutEmit, Piece
  <2>3. Owed = pend.sz /\ Owed' = 0 /\ caller # "idle" /\ avail >= 0
    BY <2>1 DEF Owed, FitInv
  <2>4. DeviceMade(out) => next_dest + pend.sz <= req.dest - avail
    BY <2>1, <2>3 DEF FitInv
  <2>5. /\ Within(out', req.dest)
        /\ DeviceMade(out') => DeviceMade(out)
    <3>1. DeviceMade(out) /\ p.by = "hw" => p.at + p.sz <= req.dest
      BY <1>2, <2>2, <2>3, <2>4
    <3>2. QED  BY <1>2, <2>2, <3>1, WithinAppend DEF FitInv
  <2>6. DeviceMade(out') => next_dest' + Owed' <= req.dest - avail'
    BY <1>2, <2>1, <2>3, <2>4, <2>5
  <2>7. next_dest' = qz_out_len'
    BY <1>2, <2>1
  <2>8. QED  BY <1>1, <2>1, <2>3, <2>5, <2>6, <2>7 DEF FitInv, callVars
<1>9. CASE FinishMismatch \/ Finish
  <2>1. UNCHANGED <<req, lenVars, outVars, out>> /\ pcOut = "done"
    BY <1>9 DEF FinishMismatch, Finish, Joined, Return
  <2>2. QED  BY <1>1, <2>1, FitQuiet DEF Silent, lenVars, outVars
<1>10. CASE FinishSW
  <2>1. UNCHANGED <<req, outVars>> /\ pcOut = "done"
    BY <1>10 DEF FinishSW, Joined, Return
  <2>2. CASE UNCHANGED <<lenVars, out>>
    BY <1>1, <2>1, <2>2, FitQuiet DEF Silent, lenVars, outVars
  <2>3. CASE \E sz, p : /\ out' = Append(out, p) /\ p.by = "sw"
                        /\ next_dest' = next_dest + sz
                        /\ qz_out_len' = qz_out_len + sz
    <3>1. PICK p : /\ out' = Append(out, p) /\ p.by = "sw"
                   /\ next_dest' = qz_out_len'
      BY <1>2, <2>3
    <3>2. Within(out', req.dest)
      BY <1>2, <3>1, WithinAppend DEF FitInv
    <3>3. QED  BY <1>1, <2>1, <3>1, <3>2 DEF FitInv, outVars
  <2>4. QED  BY <1>10, <2>2, <2>3 DEF FinishSW, Piece
<1>11. CASE \E r \in Requests : Call(r)
  <2>1. PICK r \in Requests : Call(r)
    BY <1>11
  <2>2. pcOut = "done"
    BY <2>1 DEF Call, FitInv
  <2>3. CASE CallHW(r)
    <3>1. /\ out' = << >> /\ pcOut' = "start" /\ next_dest' = 0 /\ qz_out_len' = 0
          /\ caller' = "run"
      BY <2>3 DEF CallHW
    <3>2. Within(out', req'.dest)
      BY <3>1 DEF Within
    <3>3. QED  BY <1>1, <3>1, <3>2 DEF FitInv
  <2>4. CASE CallSW(r)
    <3>1. UNCHANGED <<lenVars, outVars>>
      BY <2>4 DEF CallSW
    <3>2. Within(out', req'.dest)
      <4>1. \/ out' = << >>
            \/ \E p : out' = <<p>> /\ p.by = "sw"
        <5>1. CASE \E sz \in SwRestSizes(r.n) :
                     out' = <<Piece(calls', 0, r.n, "sw", 0, sz, SwFinal(r))>>
          BY <5>1 DEF Piece
        <5>2. CASE \E cnt, sz :
                     out' = IF cnt = 0 THEN << >>
                            ELSE <<Piece(calls', 0, cnt, "sw", 0, sz, FALSE)>>
          <6>1. PICK cnt, sz :
                       out' = IF cnt = 0 THEN << >>
                              ELSE <<Piece(calls', 0, cnt, "sw", 0, sz, FALSE)>>
            BY <5>2
          <6>2. QED  BY <6>1 DEF Piece
        <5>3. QED  BY <2>4, <5>1, <5>2 DEF CallSW
      <4>2. QED  BY <4>1 DEF Within
    <3>3. QED  BY <1>1, <2>2, <3>1, <3>2 DEF FitInv, lenVars, outVars
  <2>5. CASE CallRefused(r)
    <3>1. UNCHANGED <<lenVars, outVars>> /\ out' = << >>
      BY <2>5 DEF CallRefused, sessVars
    <3>2. Within(out', req'.dest)
      BY <3>1 DEF Within
    <3>3. QED  BY <1>1, <2>2, <3>1, <3>2 DEF FitInv, lenVars, outVars
  <2>6. QED  BY <2>1, <2>3, <2>4, <2>5 DEF Call
<1>12. QED
  BY <1>3, <1>4, <1>5, <1>6, <1>7, <1>8, <1>9, <1>10, <1>11
  DEF Next, InNext, OutNext

\* The device has been given no more room than there is behind its pointer, or
\* the whole of a buffer's own output, which holds any chunk; unless a lent
\* destination is shorter than a header.
Inside(r) ==
    r.mem >= 0 => /\ r.room <= r.mem \/ r.mem = ChunkDestSz
                  /\ r.st = "ok" => r.sz - r.around <= r.mem

LentFits == TypeOK /\ \A r \in hw : Inside(r)

\* compBufferSetup: the room of a request against its memory.
LEMMA RoomInside ==
    ASSUME req.dest \in Nat, NEW k, DestMem(k) >= 0
    PROVE  DestRoom <= DestMem(k) \/ DestMem(k) = ChunkDestSz
<1>1. PICK d, h, c : d = req.dest /\ h = HeaderSz /\ c = ChunkDestSz
  OBVIOUS
<1>2. d \in Nat /\ h \in Nat /\ c \in Nat /\ h <= c
  <2>1. PICK sz \in Sizes : HdrSz + FtrSz <= sz /\ sz <= ChunkDestSz
    BY BoundsAssumption
  <2>2. HdrSz <= ChunkDestSz
    BY <2>1, BoundsAssumption
  <2>3. QED  BY <1>1, <2>2, Lengths, BoundsAssumption
<1>3. CASE "dest" \in lent[k]
  <2>1. DestMem(k) = d - h /\ d >= h
    BY <1>1, <1>2, <1>3 DEF DestMem
  <2>2. Minus(d, h) = d - h /\ Minus(c, h) = c - h
    BY <1>2, <2>1 DEF Minus
  <2>3. DestRoom = IF d > c THEN c - h ELSE d - h
    BY <1>1, <2>2 DEF DestRoom
  <2>4. QED  BY <1>2, <2>1, <2>3
<1>4. CASE "dest" \notin lent[k]
  BY <1>4 DEF DestMem
<1>. QED
  BY <1>3, <1>4

LEMMA LentFitsStep == LentFits /\ [Next]_vars => LentFits'
<1> SUFFICES ASSUME LentFits, [Next]_vars PROVE LentFits'
  OBVIOUS
<1>1. TypeOK /\ TypeOK' /\ hw \subseteq Answers /\ req.dest \in Nat
  BY TypeStep DEF LentFits, TypeOK, TypeDev, TypeCall, Requested
<1>2. CASE InSubmit
  <2>1. CASE hw' = hw
    BY <1>1, <2>1 DEF LentFits
  <2>2. CASE hw' = hw \cup {[slot |-> jIn, call |-> calls, seq |-> sseq[jIn],
                 st |-> "pending", sz |-> 0, room |-> DestRoom,
                 mem |-> DestMem(jIn), around |-> HeaderSz + FooterSz,
                 fin |-> HwFinal(sseq[jIn])]}
    <3> DEFINE a == [slot |-> jIn, call |-> calls, seq |-> sseq[jIn],
                     st |-> "pending", sz |-> 0, room |-> DestRoom,
                     mem |-> DestMem(jIn), around |-> HeaderSz + FooterSz,
                     fin |-> HwFinal(sseq[jIn])]
    <3>1. /\ hw' = hw \cup {a} /\ a.room = DestRoom
          /\ a.mem = DestMem(jIn) /\ a.st = "pending"
      BY <2>2
    <3> HIDE DEF a
    <3>2. Inside(a)
      BY <1>1, <3>1, RoomInside DEF Inside
    <3>3. QED  BY <1>1, <3>1, <3>2 DEF LentFits
  <2>3. QED  BY <1>2, <2>1, <2>2 DEF InSubmit
<1>3. CASE HwComplete
  <2>1. PICK r \in hw :
          \/ \E sz \in Sizes : /\ sz - r.around <= r.room
                               /\ hw' = (hw \ {r}) \cup {[r EXCEPT !.st = "ok", !.sz = sz]}
          \/ hw' = (hw \ {r}) \cup {[r EXCEPT !.st = "err"]}
    BY <1>3 DEF HwComplete
  <2>2. r \in Answers /\ Inside(r)
    BY <1>1, <2>1 DEF LentFits
  <2>3. CASE \E sz \in Sizes : /\ sz - r.around <= r.room
                               /\ hw' = (hw \ {r}) \cup {[r EXCEPT !.st = "ok", !.sz = sz]}
    <3>1. PICK sz \in Sizes : /\ sz - r.around <= r.room
                             /\ hw' = (hw \ {r}) \cup {[r EXCEPT !.st = "ok", !.sz = sz]}
      BY <2>3
    <3> DEFINE a == [r EXCEPT !.st = "ok", !.sz = sz]
    <3>2. /\ hw' = (hw \ {r}) \cup {a} /\ a.sz = sz /\ a.room = r.room
          /\ a.mem = r.mem /\ a.around = r.around
      BY <2>2, <3>1 DEF Answers
    <3> HIDE DEF a
    <3>3. PICK z, n, m, o, c : z = sz /\ n = r.around /\ m = r.mem /\ o = r.room
                               /\ c = ChunkDestSz
      OBVIOUS
    <3>4. /\ z \in Nat /\ n \in Nat /\ m \in Int /\ o \in Nat /\ c \in Nat
          /\ z - n <= o /\ z <= c
      BY <2>2, <3>1, <3>3, BoundsAssumption DEF Answers
    <3>5. m >= 0 => o <= m \/ m = c
      BY <2>2, <3>3 DEF Inside
    <3>6. m >= 0 => z - n <= m
      BY <3>4, <3>5
    <3>7. Inside(a)
      BY <3>2, <3>3, <3>5, <3>6 DEF Inside
    <3>8. QED  BY <1>1, <3>2, <3>7 DEF LentFits
  <2>4. CASE hw' = (hw \ {r}) \cup {[r EXCEPT !.st = "err"]}
    <3> DEFINE a == [r EXCEPT !.st = "err"]
    <3>1. /\ hw' = (hw \ {r}) \cup {a} /\ a.st = "err"
          /\ a.room = r.room /\ a.mem = r.mem
      BY <2>2, <2>4 DEF Answers
    <3> HIDE DEF a
    <3>2. Inside(a)
      BY <2>2, <3>1 DEF Inside
    <3>3. QED  BY <1>1, <3>1, <3>2 DEF LentFits
  <2>5. QED  BY <2>1, <2>3, <2>4
<1>4. CASE OutCallback
  BY <1>1, <1>4 DEF OutCallback, LentFits
<1>5. CASE \/ InLoop \/ InGetBuffer \/ InNoBuffer \/ InSetup \/ InUse
           \/ InCleanUp \/ InSWFallback \/ InSWPending \/ InSWCompress
           \/ InSWRespond \/ InAdvance \/ InErrExit
           \/ FatalError \/ Restarted \/ Rest \/ UNCHANGED vars
  <2>1. hw' = hw
    BY <1>5 DEF InLoop, InGetBuffer, InNoBuffer, InSetup, InUse, InCleanUp,
                InSWFallback, InSWPending, InSWCompress, InSWRespond, InAdvance,
                InErrExit, FatalError, Restarted, Rest, vars, devVars
  <2>2. QED  BY <1>1, <2>1 DEF LentFits
<1>6. CASE \/ OutStart \/ OutLoop \/ OutPolled \/ OutPollFail \/ OutScan
           \/ OutSkip \/ OutHandle \/ OutSW \/ OutCheck \/ OutBufError
           \/ OutEmit \/ OutRespond \/ OutErrExit \/ OutReset
  <2>1. hw' = hw
    BY <1>6 DEF OutStart, OutLoop, OutPolled, OutPollFail, OutScan, OutSkip,
                OutHandle, OutSW, OutCheck, OutBufError, OutEmit, OutRespond,
                OutErrExit, OutReset, devVars
  <2>2. QED  BY <1>1, <2>1 DEF LentFits
<1>7. CASE FinishMismatch \/ FinishSW \/ Finish \/ \E r \in Requests : Call(r)
  <2>1. hw' = hw
    BY <1>7 DEF FinishMismatch, FinishSW, Finish, Return, Call, CallHW, CallSW,
                CallRefused, devVars
  <2>2. QED  BY <1>1, <2>1 DEF LentFits
<1>8. QED
  BY <1>2, <1>3, <1>4, <1>5, <1>6, <1>7 DEF Next, InNext, OutNext

\* What the device writes lies in the memory behind its pointer, unless a lent
\* destination is shorter than a header (compBufferSetup), and no answer is
\* placed past the end of the destination (doCompressOut, compOutCheckDestLen):
\* for every destination, every number of buffers and every fault, the error
\* exit's reset included.
THEOREM DestinationKept == Spec => []FitsDestination
<1>1. Init => FitInv
  <2>1. ASSUME Init PROVE FitInv
    <3>1. Within(out, req.dest)
      BY <2>1 DEF Init, Within
    <3>2. QED  BY <2>1, <3>1, TypeInit DEF Init, FitInv
  <2>2. QED  BY <2>1
<1>2. Init => LentFits
  BY TypeInit DEF Init, LentFits
<1>3. FitInv /\ LentFits => FitsDestination
  BY DEF FitInv, LentFits, Inside, Within, FitsDestination
<1>4. QED
  BY <1>1, <1>2, <1>3, FitStep, LentFitsStep, PTL DEF Spec

-----------------------------------------------------------------------------
(* Framing, when every call is the last one of its stream or the format is *)
(* raw deflate.                                                            *)

Closing == Lasts \subseteq {TRUE} \/ Formats \subseteq {"raw"}

\* What WellFramed says of one piece of the call r.
Framed(p, r) ==
    p.by = "hw" => IF r.fmt = "raw"
                   THEN p.fin => r.last /\ p.chunk + p.cnt = r.n
                   ELSE ~p.open

\* The software stream is closed, or no piece of the device minds it.
NoneOpen(deflate, r) ==
    \/ deflate = "null" /\ r.last
    \/ Formats \subseteq {"raw"} /\ r.fmt = "raw"

\* No software stream stays open over an answer of the device.
FrameInv ==
    /\ TypeOK
    /\ req.fmt = "raw" => "raw" \in Formats
    /\ NoneOpen(deflate_stat, req)
    /\ \A i \in 1..Len(out) : Framed(out[i], req)

\* The answer that is written next was asked for by this call.
OwnFlush == "raw" \in Formats /\ pcOut = "emit" => res[jOut].fin = HwFinal(res[jOut].seq)

LEMMA FramedAppend ==
    ASSUME NEW s \in Seq(Pieces), NEW p, NEW r,
           \A i \in 1..Len(s) : Framed(s[i], r), Framed(p, r)
    PROVE  \A i \in 1..Len(Append(s, p)) : Framed(Append(s, p)[i], r)
<1> DEFINE t == Append(s, p)
<1>1. PICK n \in Nat : n = Len(s)
  OBVIOUS
<1>2. /\ Len(t) = n + 1 /\ t[n + 1] = p /\ \A i \in 1..n : t[i] = s[i]
  BY <1>1, OneMore
<1> HIDE DEF t
<1>3. ASSUME NEW i \in 1..(n + 1) PROVE Framed(t[i], r)
  <2>1. CASE i = n + 1
    BY <1>2, <2>1
  <2>2. CASE i # n + 1
    <3>1. i \in 1..n
      BY <1>1, <2>2
    <3>2. t[i] = s[i] /\ Framed(s[i], r)
      BY <1>1, <1>2, <3>1
    <3>3. QED  BY <3>2
  <2>3. QED  BY <2>1, <2>2
<1>4. QED  BY <1>2, <1>3 DEF t

\* What software writes is not an answer of the device, and leaves the stream
\* as it may be.
LEMMA SwFrame ==
    ASSUME NEW r, NEW ok \in BOOLEAN, NEW c, NEW k, NEW n, NEW a, NEW sz, NEW f,
           NoneOpen(deflate_stat, r)
    PROVE  /\ Framed(Piece(c, k, n, "sw", a, sz, f), r)
           /\ NoneOpen(SwStat(r, ok), r)
BY DEF Framed, Piece, SwStat, NoneOpen

LEMMA FrameStep == Closing /\ FrameInv /\ OwnFlush /\ [Next]_vars => FrameInv'
<1> SUFFICES ASSUME Closing, FrameInv, OwnFlush, [Next]_vars PROVE FrameInv'
  OBVIOUS
<1>1. TypeOK /\ TypeOK' /\ out \in Seq(Pieces)
  BY TypeStep DEF FrameInv, TypeOK
<1>2. CASE \/ InLoop \/ InGetBuffer \/ InNoBuffer \/ InSetup \/ InUse \/ InSubmit
           \/ InCleanUp \/ InSWFallback \/ InSWPending \/ InSWRespond \/ InAdvance
           \/ InErrExit \/ HwComplete \/ FatalError \/ Restarted \/ Rest
           \/ UNCHANGED vars
  <2>1. UNCHANGED <<req, deflate_stat, out>>
    BY <1>2 DEF InLoop, InGetBuffer, InNoBuffer, InSetup, InUse, InSubmit,
                InCleanUp, InSWFallback, InSWPending, InSWRespond, InAdvance,
                InErrExit, HwComplete, FatalError, Restarted, Rest, vars,
                sessVars, callVars
  <2>2. QED  BY <1>1, <2>1 DEF FrameInv
<1>3. CASE \/ OutStart \/ OutLoop \/ OutCallback \/ OutPolled \/ OutPollFail
           \/ OutScan \/ OutSkip \/ OutHandle \/ OutCheck \/ OutBufError
           \/ OutRespond \/ OutErrExit \/ OutReset \/ FinishMismatch \/ Finish
  <2>1. UNCHANGED <<req, deflate_stat, out>>
    BY <1>3 DEF OutStart, OutLoop, OutCallback, OutPolled, OutPollFail, OutScan,
                OutSkip, OutHandle, OutCheck, OutBufError, OutRespond,
                OutErrExit, OutReset, FinishMismatch, Finish, Return, sessVars,
                callVars
  <2>2. QED  BY <1>1, <2>1 DEF FrameInv
<1>4. CASE InSWCompress
  <2>1. req' = req
    BY <1>4 DEF InSWCompress, callVars
  <2>2. \E ok \in BOOLEAN : deflate_stat' = SwStat(req, ok)
    BY <1>4 DEF InSWCompress
  <2>3. \/ out' = out
        \/ \E sz : out' = Append(out, Piece(calls, seq, 1, "sw", next_dest, sz,
                                            SwFinal(req)))
    BY <1>4 DEF InSWCompress
  <2>4. NoneOpen(deflate_stat', req')
    BY <2>1, <2>2, SwFrame DEF FrameInv
  <2>5. \A i \in 1..Len(out') : Framed(out'[i], req)
    BY <1>1, <2>3, SwFrame, FramedAppend DEF FrameInv
  <2>6. QED  BY <1>1, <2>1, <2>4, <2>5 DEF FrameInv
<1>5. CASE OutSW
  <2>1. UNCHANGED <<req, out>>
    BY <1>5 DEF OutSW, callVars
  <2>2. \/ deflate_stat' = deflate_stat
        \/ \E ok \in BOOLEAN : deflate_stat' = SwStat(req, ok)
    BY <1>5 DEF OutSW
  <2>3. NoneOpen(deflate_stat', req')
    BY <2>1, <2>2, SwFrame DEF FrameInv
  <2>4. QED  BY <1>1, <2>1, <2>3 DEF FrameInv
<1>6. CASE OutEmit
  <2>1. UNCHANGED <<req, deflate_stat>>
    BY <1>6 DEF OutEmit, callVars
  <2>2. PICK r, a, c, s :
          out' = Append(out, IF pend.by = "hw"
                             THEN Piece(r.call, r.seq, 1, "hw", next_dest, pend.sz,
                                        r.fin)
                             ELSE Piece(c, s, 1, "sw", a, pend.sz, SwFinal(req)))
               /\ r = res[jOut]
    BY <1>6 DEF OutEmit
  <2>3. r.seq \in Nat /\ req.n \in Nat
    <3>1. jOut \in Slots
      BY <1>1, <1>6 DEF TypeOK, TypeOut, OutUpdates, OutEmit
    <3>2. QED  BY <1>1, <2>2, <3>1 DEF TypeOK, TypeStream, TypeCall, Answers, Requested
  <2>4. Framed(Piece(r.call, r.seq, 1, "hw", next_dest, pend.sz, r.fin), req)
    <3>1. PICK p : p = Piece(r.call, r.seq, 1, "hw", next_dest, pend.sz, r.fin)
      OBVIOUS
    <3>2. /\ p.chunk = r.seq /\ p.cnt = 1 /\ p.fin = r.fin
          /\ p.open = (deflate_stat = "inited")
      BY <3>1 DEF Piece
    <3>3. ASSUME req.fmt = "raw", r.fin PROVE req.last /\ r.seq + 1 = req.n
      <4>1. HwFinal(r.seq)
        BY <1>6, <2>2, <3>3 DEF OwnFlush, FrameInv, OutEmit
      <4>2. QED  BY <2>3, <3>3, <4>1 DEF HwFinal
    <3>4. req.fmt # "raw" => deflate_stat # "inited"
      BY DEF FrameInv, NoneOpen
    <3>5. Framed(p, req)
      BY <3>2, <3>3, <3>4 DEF Framed
    <3>6. QED  BY <3>1, <3>5
  <2>5. Framed(Piece(c, s, 1, "sw", a, pend.sz, SwFinal(req)), req)
    BY DEF Framed, Piece
  <2>6. \A i \in 1..Len(out') : Framed(out'[i], req)
    BY <1>1, <2>2, <2>4, <2>5, FramedAppend DEF FrameInv
  <2>7. QED  BY <1>1, <2>1, <2>6 DEF FrameInv
<1>7. CASE FinishSW
  <2>1. req' = req
    BY <1>7 DEF FinishSW, Return
  <2>2. \E ok \in BOOLEAN : deflate_stat' = SwStat(req, ok)
    BY <1>7 DEF FinishSW
  <2>3. \/ out' = out
        \/ \E n, sz : out' = Append(out, Piece(calls, qz_in_len, n, "sw", next_dest,
                                               sz, SwFinal(req)))
    BY <1>7 DEF FinishSW
  <2>4. NoneOpen(deflate_stat', req')
    BY <2>1, <2>2, SwFrame DEF FrameInv
  <2>5. \A i \in 1..Len(out') : Framed(out'[i], req)
    BY <1>1, <2>3, SwFrame, FramedAppend DEF FrameInv
  <2>6. QED  BY <1>1, <2>1, <2>4, <2>5 DEF FrameInv
<1>8. CASE \E r \in Requests : Call(r)
  <2>1. PICK r \in Requests : Call(r)
    BY <1>8
  <2>2. r.last \in Lasts /\ r.fmt \in Formats
    <3>1. PICK n \in 1..MaxChunks, d \in DestSizes, b \in SwBackups,
               f \in Formats, l \in Lasts, p \in Pins :
            r = [n |-> n, dest |-> d, sw_backup |-> b, fmt |-> f, last |-> l,
                 pin |-> p, single_thread |-> n <= ReqCntThrshold]
      BY DEF Requests
    <3>2. QED  BY <3>1
  <2>3. NoneOpen(deflate_stat, r)
    BY <2>2 DEF Closing, FrameInv, NoneOpen
  <2>4. CASE CallHW(r) \/ CallRefused(r)
    <3>1. req' = r /\ deflate_stat' = deflate_stat /\ out' = << >>
      BY <2>4 DEF CallHW, CallRefused, sessVars
    <3>2. \A i \in 1..Len(out') : Framed(out'[i], r)
      BY <3>1
    <3>3. QED  BY <1>1, <2>2, <2>3, <3>1, <3>2 DEF FrameInv
  <2>5. CASE CallSW(r)
    <3>1. req' = r /\ \E ok \in BOOLEAN : deflate_stat' = SwStat(r, ok)
      BY <2>5 DEF CallSW
    <3>2. \/ out' = << >>
          \/ \E p : out' = <<p>> /\ p.by = "sw"
      <4>1. CASE \E sz \in SwRestSizes(r.n) :
                   out' = <<Piece(calls', 0, r.n, "sw", 0, sz, SwFinal(r))>>
        BY <4>1 DEF Piece
      <4>2. CASE \E cnt, sz :
                   out' = IF cnt = 0 THEN << >>
                          ELSE <<Piece(calls', 0, cnt, "sw", 0, sz, FALSE)>>
        <5>1. PICK cnt, sz :
                     out' = IF cnt = 0 THEN << >>
                            ELSE <<Piece(calls', 0, cnt, "sw", 0, sz, FALSE)>>
          BY <4>2
        <5>2. QED  BY <5>1 DEF Piece
      <4>3. QED  BY <2>5, <4>1, <4>2 DEF CallSW
    <3>3. NoneOpen(deflate_stat', r)
      BY <2>3, <3>1, SwFrame
    <3>4. \A i \in 1..Len(out') : Framed(out'[i], r)
      BY <3>2 DEF Framed
    <3>5. QED  BY <1>1, <2>2, <3>1, <3>3, <3>4 DEF FrameInv
  <2>6. QED  BY <2>1, <2>4, <2>5 DEF Call
<1>9. QED
  BY <1>2, <1>3, <1>4, <1>5, <1>6, <1>7, <1>8 DEF Next, InNext, OutNext

-----------------------------------------------------------------------------
(* What a call leaves in the destination and reports, when the buffers are *)
(* never reset under it (NoReset).                                         *)

\* Every destination has room for all the chunks of a call, each as large as
\* a chunk may become (what qzMaxCompressedLength is for).
Above(m) == \A sz \in Sizes : sz <= m
Ample == \A d \in DestSizes : \E m \in Nat : Above(m) /\ MaxChunks * m <= d

\* The chunks that are in the destination and not yet counted in seq_in, or
\* the one that is counted and was dropped.
AheadOut == IF pcOut = "resp" THEN 1 ELSE IF pcOut = "buferr" THEN -1 ELSE 0
AheadIn  == IF pcIn = "swresp" THEN 1 ELSE 0

\* The chunks that doCompressIn has gone through.
ReqInv ==
    caller = "run" =>
        /\ req.n <= MaxChunks /\ req.dest \in DestSizes
        /\ seq <= req.n
        /\ pcIn # "done" => seq < req.n

\* While nothing was dropped, what is in the destination is what is counted.
CountInv ==
    caller = "run" =>
        /\ stop_submitting => stat # "OK"
        /\ pcIn = "done" => stop_submitting \/ seq = req.n
        /\ Ample \/ stat = "OK" => qz_in_len = seq_in + AheadOut + AheadIn

\* An answer belongs to the chunk its buffer carries.
AnswerInv ==
    /\ \A r \in hw : /\ r.call = calls /\ r.seq = sseq[r.slot]
                     /\ r.fin = HwFinal(r.seq)
                     /\ r.st = "ok" => r.sz \in Sizes
    /\ \A k \in Slots : Answered(k) =>
          /\ res[k].call = calls /\ res[k].seq = sseq[k]
          /\ res[k].fin = HwFinal(res[k].seq)
          /\ res[k].st = "ok" => res[k].sz \in Sizes
    /\ pcOut \in {"check", "emit"} => pend.sz \in Sizes

\* Nothing is lent when the application's memory is not pinned.
PinInv == ~req.pin => \A k \in Slots : lent[k] = {}

\* An ample destination is never found short.
RoomInv ==
    Ample /\ caller = "run" =>
        /\ stat # "BUF_ERROR" /\ pcOut # "buferr"
        /\ \A m \in Nat : Above(m) => next_dest <= qz_in_len * m
        /\ pcOut \notin {"start", "done"} => req.dest - avail <= next_dest + Owed

\* A gapless destination ends where the session says.
LastPiece == out[Len(out)]
EndsAt(in, dest) ==
    IF out = << >> THEN in = 0 /\ dest = 0
    ELSE /\ in = LastPiece.chunk + LastPiece.cnt
         /\ ~req.pin => dest = LastPiece.at + LastPiece.sz
EndInv == caller = "run" /\ InOrder => EndsAt(qz_in_len, next_dest)

CallInv ==
    /\ IInv /\ FitInv
    /\ ReqInv /\ CountInv /\ AnswerInv /\ PinInv /\ RoomInv /\ EndInv
    /\ Ample => InOrder
    /\ ReportsTruth

LEMMA RequestFact ==
    ASSUME NEW r \in Requests
    PROVE  /\ r.n \in 1..MaxChunks /\ r.dest \in DestSizes
           /\ r.last \in Lasts /\ r.fmt \in Formats
<1>1. PICK n \in 1..MaxChunks, d \in DestSizes, b \in SwBackups,
           f \in Formats, l \in Lasts, p \in Pins :
        r = [n |-> n, dest |-> d, sw_backup |-> b, fmt |-> f, last |-> l,
             pin |-> p, single_thread |-> n <= ReqCntThrshold]
  BY DEF Requests
<1>2. QED  BY <1>1

\* The types the steps below need.
LEMMA CallTypes ==
    ASSUME CallInv
    PROVE  /\ seq \in Nat /\ seq_in \in Nat /\ submitted \in Nat /\ processed \in Nat
           /\ next_dest \in Int /\ qz_in_len \in Int /\ avail \in Int
           /\ calls \in Nat /\ req \in Requested /\ pend.sz \in Nat
           /\ out \in Seq(Pieces) /\ stat \in Codes /\ ret.src_len \in Int
           /\ hw \subseteq Answers /\ res \in [Slots -> Answers]
           /\ sseq \in [Slots -> Nat] /\ jIn \in Slots
           /\ lent \in [Slots -> SUBSET {"src", "dest"}]
BY DEF CallInv, IInv, TypeOK, TypeCall, TypeSess, TypeStream, TypeIn, TypeOut, TypeDev

LEMMA ReqStep == ASSUME CallInv, [Next]_vars PROVE ReqInv'
<1>1. /\ seq \in Nat /\ req.n \in Nat /\ ReqInv
  BY CallTypes DEF CallInv, Requested
<1>2. CASE \E r \in Requests : Call(r)
  <2>1. PICK r \in Requests : Call(r)
    BY <1>2
  <2>2. r.n \in 1..MaxChunks /\ r.dest \in DestSizes
    BY RequestFact
  <2>3. CASE CallHW(r)
    <3>1. req' = r /\ seq' = 0
      BY <2>3 DEF CallHW
    <3>2. QED  BY <2>2, <3>1, BoundsAssumption DEF ReqInv
  <2>4. CASE CallSW(r) \/ CallRefused(r)
    BY <2>1, <2>4 DEF Call, CallSW, CallRefused, ReqInv
  <2>5. QED  BY <2>1, <2>3, <2>4 DEF Call
<1>3. CASE InAdvance
  <2>1. /\ pcIn = "adv" /\ UNCHANGED <<caller, req>> /\ seq' = seq + 1
        /\ pcIn' # "done" => seq + 1 # req.n
    BY <1>3 DEF InAdvance, callVars
  <2>2. QED  BY <1>1, <2>1 DEF ReqInv
<1>4. CASE FinishMismatch \/ FinishSW \/ Finish
  BY <1>4 DEF FinishMismatch, FinishSW, Finish, Return, ReqInv
<1>5. CASE \/ InLoop \/ InGetBuffer \/ InNoBuffer \/ InSetup \/ InUse \/ InSubmit
           \/ InCleanUp \/ InSWFallback \/ InSWPending \/ InSWCompress
           \/ InSWRespond \/ InErrExit
  <2>1. UNCHANGED <<caller, req, seq>> /\ pcIn # "done"
    BY <1>5 DEF InLoop, InGetBuffer, InNoBuffer, InSetup, InUse, InSubmit,
                InCleanUp, InSWFallback, InSWPending, InSWCompress, InSWRespond,
                InErrExit, callVars, sessVars, seqVars
  <2>2. QED  BY <1>1, <2>1 DEF ReqInv
<1>6. CASE OutNext \/ HwComplete \/ FatalError \/ Restarted \/ Rest \/ UNCHANGED vars
  <2>1. UNCHANGED <<caller, req, seq, pcIn>>
    BY <1>6 DEF OutNext, OutStart, OutLoop, OutCallback, OutPolled, OutPollFail,
                OutScan, OutSkip, OutHandle, OutSW, OutCheck, OutBufError, OutEmit,
                OutRespond, OutErrExit, OutReset, Respond, HwComplete, FatalError,
                Restarted, Rest, vars, callVars, sessVars, seqVars, inVars
  <2>2. QED  BY <1>1, <2>1 DEF ReqInv
<1>7. QED
  BY <1>2, <1>3, <1>4, <1>5, <1>6 DEF Next, InNext

LEMMA CountStep == ASSUME NoReset, CallInv, [Next]_vars PROVE CountInv'
<1>1. /\ seq \in Nat /\ seq_in \in Nat /\ qz_in_len \in Int /\ CountInv
      /\ pcOut \notin {"err", "reset"}
      /\ caller = "idle" => pcIn = "done" /\ pcOut = "done"
  BY CallTypes DEF CallInv, IInv, ControlInv
<1>2. CASE \E r \in Requests : Call(r)
  BY <1>2 DEF Call, CallHW, CallSW, CallRefused, CountInv, AheadIn, AheadOut
<1>3. CASE FinishMismatch \/ FinishSW \/ Finish
  BY <1>3 DEF FinishMismatch, FinishSW, Finish, Return, CountInv
<1>4. CASE \/ InLoop \/ InGetBuffer \/ InNoBuffer \/ InSetup \/ InUse \/ InSubmit
           \/ InCleanUp \/ InSWFallback \/ InSWPending
  <2>1. /\ UNCHANGED <<caller, req, seq, seq_in, stat, stop_submitting, qz_in_len, pcOut>>
        /\ pcIn \notin {"done", "swresp"} /\ pcIn' \notin {"done", "swresp"}
    BY <1>4 DEF InLoop, InGetBuffer, InNoBuffer, InSetup, InUse, InSubmit,
                InCleanUp, InSWFallback, InSWPending, callVars, sessVars, seqVars,
                flagVars, lenVars, outVars
  <2>2. QED  BY <1>1, <2>1 DEF CountInv, AheadIn, AheadOut
<1>5. CASE InSWCompress
  <2>1. /\ UNCHANGED <<caller, req, seq, seq_in, stat, stop_submitting, pcOut>>
        /\ pcIn = "swcomp" /\ qz_in_len' = qz_in_len + 1 /\ pcIn' = "swresp"
    BY <1>5 DEF InSWCompress, NoReset, callVars, seqVars, flagVars, outVars
  <2>2. AheadIn = 0 /\ AheadIn' = 1 /\ AheadOut' = AheadOut /\ AheadOut \in Int
    BY <2>1 DEF AheadIn, AheadOut
  <2>3. QED  BY <1>1, <2>1, <2>2 DEF CountInv
<1>6. CASE InSWRespond
  <2>1. /\ UNCHANGED <<caller, req, seq, stat, stop_submitting, qz_in_len, pcOut>>
        /\ pcIn = "swresp" /\ seq_in' = seq_in + 1 /\ pcIn' = "adv"
    BY <1>6 DEF InSWRespond, callVars, flagVars, lenVars, outVars
  <2>2. AheadIn = 1 /\ AheadIn' = 0 /\ AheadOut' = AheadOut /\ AheadOut \in Int
    BY <2>1 DEF AheadIn, AheadOut
  <2>3. QED  BY <1>1, <2>1, <2>2 DEF CountInv
<1>7. CASE InAdvance
  <2>1. /\ UNCHANGED <<caller, req, seq_in, stat, stop_submitting, qz_in_len, pcOut>>
        /\ pcIn = "adv" /\ seq' = seq + 1 /\ pcIn' # "swresp"
        /\ pcIn' = "done" => stop_submitting \/ seq + 1 = req.n
    BY <1>7 DEF InAdvance, callVars, lenVars, outVars
  <2>2. QED  BY <1>1, <2>1 DEF CountInv, AheadIn, AheadOut
<1>8. CASE InErrExit
  <2>1. /\ UNCHANGED <<caller, req, seq, seq_in, qz_in_len, pcOut>>
        /\ pcIn = "err" /\ stat' = "FAIL" /\ stop_submitting' /\ pcIn' = "done"
    BY <1>8 DEF InErrExit, callVars, seqVars, lenVars, outVars
  <2>2. AheadIn' = AheadIn /\ AheadOut' = AheadOut
    BY <2>1 DEF AheadIn, AheadOut
  <2>3. Ample => qz_in_len = seq_in + AheadOut + AheadIn \/ caller = "idle"
    BY <1>1, <2>1 DEF CountInv, CallInv, IInv, TypeOK, TypeCall
  <2>4. QED  BY <2>1, <2>2, <2>3 DEF CountInv
<1>9. CASE \/ OutStart \/ OutLoop \/ OutCallback \/ OutPolled \/ OutScan
           \/ OutHandle \/ OutSW
  <2>1. /\ UNCHANGED <<caller, req, seq, seq_in, stat, stop_submitting, qz_in_len, pcIn>>
        /\ pcOut \notin {"resp", "buferr"} /\ pcOut' \notin {"resp", "buferr"}
    <3>1. CASE OutStart \/ OutLoop \/ OutPolled \/ OutScan
      BY <1>1, <3>1 DEF OutStart, OutLoop, OutPolled, OutScan, callVars, sessVars,
                        seqVars, flagVars, lenVars, inVars
    <3>2. CASE OutCallback \/ OutHandle \/ OutSW
      BY <3>2 DEF OutCallback, OutHandle, OutSW, callVars, sessVars, seqVars,
                  flagVars, lenVars, inVars, outVars
    <3>3. QED  BY <1>9, <3>1, <3>2
  <2>2. QED  BY <1>1, <2>1 DEF CountInv, AheadIn, AheadOut
<1>10. CASE OutPollFail \/ OutErrExit \/ OutReset
  BY <1>1, <1>10 DEF OutPollFail, OutErrExit, OutReset, NoReset
<1>11. CASE OutSkip
  <2>1. UNCHANGED <<caller, req, seq, stat, stop_submitting, pcIn>> /\ stat = "BUF_ERROR"
    BY <1>11 DEF OutSkip, Respond, callVars, flagVars, inVars
  <2>2. caller = "run" => ~Ample
    BY <2>1 DEF CallInv, RoomInv
  <2>3. QED  BY <1>1, <2>1, <2>2 DEF CountInv
<1>12. CASE OutCheck
  <2>1. /\ UNCHANGED <<caller, req, seq, stat, stop_submitting, qz_in_len, pcIn>>
        /\ pcOut = "check"
        /\ \/ seq_in' = seq_in + 1 /\ pcOut' = "buferr"
           \/ seq_in' = seq_in /\ pcOut' = "emit"
    BY <1>12 DEF OutCheck, Respond, callVars, seqVars, flagVars, lenVars, inVars
  <2>2. AheadIn' = AheadIn /\ AheadIn \in Int /\ AheadOut = 0
        /\ AheadOut' = IF pcOut' = "buferr" THEN -1 ELSE 0
    BY <2>1 DEF AheadIn, AheadOut
  <2>3. QED  BY <1>1, <2>1, <2>2 DEF CountInv
<1>13. CASE OutBufError
  <2>1. /\ UNCHANGED <<caller, req, seq>> /\ stat' = "BUF_ERROR" /\ pcOut = "buferr"
    BY <1>13 DEF OutBufError, callVars, seqVars
  <2>2. caller = "run" => ~Ample
    BY <2>1 DEF CallInv, RoomInv
  <2>3. stop_submitting'
    BY <1>13 DEF OutBufError
  <2>4. QED  BY <2>1, <2>2, <2>3 DEF CountInv
<1>14. CASE OutEmit
  <2>1. /\ UNCHANGED <<caller, req, seq, seq_in, stat, stop_submitting, pcIn>>
        /\ pcOut = "emit" /\ pcOut' = "resp" /\ qz_in_len' = qz_in_len + 1
    BY <1>14 DEF OutEmit, callVars, seqVars, flagVars, inVars
  <2>2. AheadOut = 0 /\ AheadOut' = 1 /\ AheadIn' = AheadIn /\ AheadIn \in Int
    BY <2>1 DEF AheadIn, AheadOut
  <2>3. QED  BY <1>1, <2>1, <2>2 DEF CountInv
<1>15. CASE OutRespond
  <2>1. /\ UNCHANGED <<caller, req, seq, stat, stop_submitting, qz_in_len, pcIn>>
        /\ pcOut = "resp" /\ pcOut' = "loop" /\ seq_in' = seq_in + 1
    BY <1>15 DEF OutRespond, Respond, callVars, flagVars, lenVars, inVars
  <2>2. AheadOut = 1 /\ AheadOut' = 0 /\ AheadIn' = AheadIn /\ AheadIn \in Int
    BY <2>1 DEF AheadIn, AheadOut
  <2>3. QED  BY <1>1, <2>1, <2>2 DEF CountInv
<1>16. CASE HwComplete \/ FatalError \/ Restarted \/ Rest \/ UNCHANGED vars
  <2>1. UNCHANGED <<caller, req, seq, seq_in, stat, stop_submitting, qz_in_len, pcIn, pcOut>>
    BY <1>16 DEF HwComplete, FatalError, Restarted, Rest, vars, callVars, sessVars,
                 seqVars, flagVars, lenVars, inVars, outVars
  <2>2. QED  BY <1>1, <2>1 DEF CountInv, AheadIn, AheadOut
<1>17. QED
  BY <1>2, <1>3, <1>4, <1>5, <1>6, <1>7, <1>8, <1>9, <1>10, <1>11, <1>12, <1>13,
     <1>14, <1>15, <1>16 DEF Next, InNext, OutNext

LEMMA PinStep == ASSUME NoReset, CallInv, [Next]_vars PROVE PinInv'
<1>1. /\ PinInv /\ lent \in [Slots -> SUBSET {"src", "dest"}] /\ jIn \in Slots
      /\ pcOut \notin {"err", "reset"}
  BY CallTypes DEF CallInv, IInv, ControlInv
<1>2. ASSUME req' = req, NEW j, NEW v, lent' = [lent EXCEPT ![j] = v],
             ~req.pin /\ j \in Slots => v \subseteq lent[j]
      PROVE  PinInv'
  BY <1>1, <1>2 DEF PinInv
<1>3. CASE InSetup
  <2>1. PICK v : /\ lent' = [lent EXCEPT ![jIn] = v]
                 /\ v = (IF req.pin THEN lent[jIn] \cup {"src"} ELSE lent[jIn] \ {"src"})
                          \cup (IF req.pin /\ seq = 0 THEN {"dest"} ELSE {})
    BY <1>3 DEF InSetup
  <2>2. ~req.pin => v \subseteq lent[jIn]
    BY <2>1
  <2>3. req' = req
    BY <1>3 DEF InSetup, callVars
  <2>4. QED  BY <1>2, <2>1, <2>2, <2>3
<1>4. CASE InCleanUp
  <2>1. req' = req /\ lent' = [lent EXCEPT ![jIn] = {}]
    BY <1>4 DEF InCleanUp, callVars
  <2>2. QED  BY <1>2, <2>1
<1>5. CASE OutSkip \/ OutRespond \/ OutEmit
  <2>1. /\ req' = req
        /\ \E v : lent' = [lent EXCEPT ![jOut] = v] /\ v \subseteq lent[jOut]
    BY <1>5 DEF OutSkip, OutRespond, OutEmit, Respond, callVars
  <2>2. QED  BY <1>2, <2>1
<1>6. CASE OutCheck
  <2>1. /\ req' = req
        /\ lent' = lent \/ lent' = [lent EXCEPT ![jOut] = {}]
    BY <1>6 DEF OutCheck, Respond, callVars, streamVars
  <2>2. QED  BY <1>1, <1>2, <2>1 DEF PinInv
<1>7. CASE \E r \in Requests : Call(r)
  <2>1. caller = "idle" /\ lent' = lent
    BY <1>7 DEF Call, CallHW, CallSW, CallRefused, streamVars
  <2>2. \A k \in Slots : lent[k] = {}
    BY <2>1 DEF CallInv, IInv, ControlInv, LentInv, InHolds
  <2>3. QED  BY <2>1, <2>2 DEF PinInv
<1>8. CASE \/ InLoop \/ InGetBuffer \/ InNoBuffer \/ InUse \/ InSubmit
           \/ InSWFallback \/ InSWPending \/ InSWCompress \/ InSWRespond
           \/ InAdvance \/ InErrExit
  <2>1. UNCHANGED <<req, lent>>
    BY <1>8 DEF InLoop, InGetBuffer, InNoBuffer, InUse, InSubmit, InSWFallback,
                InSWPending, InSWCompress, InSWRespond, InAdvance, InErrExit,
                callVars, sessVars, streamVars
  <2>2. QED  BY <1>1, <2>1 DEF PinInv
<1>9. CASE \/ OutStart \/ OutLoop \/ OutCallback \/ OutPolled \/ OutScan
           \/ OutHandle \/ OutSW \/ OutBufError
  <2>1. UNCHANGED <<req, lent>>
    BY <1>9 DEF OutStart, OutLoop, OutCallback, OutPolled, OutScan, OutHandle,
                OutSW, OutBufError, callVars, streamVars
  <2>2. QED  BY <1>1, <2>1 DEF PinInv
<1>10. CASE OutPollFail \/ OutErrExit \/ OutReset
  BY <1>1, <1>10 DEF OutPollFail, OutErrExit, OutReset, NoReset
<1>11. CASE \/ FinishMismatch \/ FinishSW \/ Finish \/ HwComplete \/ FatalError
            \/ Restarted \/ Rest \/ UNCHANGED vars
  <2>1. UNCHANGED <<req, lent>>
    BY <1>11 DEF FinishMismatch, FinishSW, Finish, Return, HwComplete, FatalError,
                 Restarted, Rest, vars, callVars, streamVars
  <2>2. QED  BY <1>1, <2>1 DEF PinInv
<1>12. QED
  BY <1>3, <1>4, <1>5, <1>6, <1>7, <1>8, <1>9, <1>10, <1>11
  DEF Next, InNext, OutNext

\* A step that brings no answer and gives no buffer to another chunk.
LEMMA AnswerFrame ==
    ASSUME AnswerInv, UNCHANGED <<calls, req, res, sseq, hw>>,
           \A k \in Slots : Answered(k)' => Answered(k),
           pcOut' \in {"check", "emit"} => pend'.sz \in Sizes
    PROVE  AnswerInv'
<1>1. \A k : HwFinal(k)' = HwFinal(k)
  BY DEF HwFinal
<1>2. \A r \in hw' : /\ r.call = calls' /\ r.seq = sseq'[r.slot]
                     /\ r.fin = HwFinal(r.seq)'
                     /\ r.st = "ok" => r.sz \in Sizes
  BY <1>1 DEF AnswerInv
<1>3. \A k \in Slots : Answered(k)' =>
          /\ res'[k].call = calls' /\ res'[k].seq = sseq'[k]
          /\ res'[k].fin = HwFinal(res[k].seq)'
          /\ res'[k].st = "ok" => res'[k].sz \in Sizes
  <2>1. SUFFICES ASSUME NEW k \in Slots, Answered(k)
                 PROVE  /\ res'[k].call = calls' /\ res'[k].seq = sseq'[k]
                        /\ res'[k].fin = HwFinal(res[k].seq)'
                        /\ res'[k].st = "ok" => res'[k].sz \in Sizes
    OBVIOUS
  <2>2. HwFinal(res[k].seq)' = HwFinal(res[k].seq)
    BY DEF HwFinal
  <2>3. QED  BY <2>1, <2>2 DEF AnswerInv
<1>4. QED  BY <1>2, <1>3 DEF AnswerInv

\* Only the callback answers.
LEMMA AnswerStages ==
    ASSUME IInv, [Next]_vars, ~OutCallback, ~OutReset
    PROVE  \A k \in Slots : Answered(k)' => Answered(k)
<1>1. /\ src1 \in [Slots -> Int] /\ src2 \in [Slots -> Int]
      /\ sink1 \in [Slots -> Int] /\ sink2 \in [Slots -> Int]
      /\ jIn \in Slots /\ TypeStream
  BY DEF IInv, TypeOK, TypeStream, TypeIn
<1>2. CASE InGetBuffer
  <2>1. PICK j \in Slots : Unused(j) /\ src1' = [src1 EXCEPT ![j] = @ + 1]
    BY <1>2 DEF InGetBuffer, FirstUnused
  <2>2. UNCHANGED <<src2, sink1, sink2>>
    BY <1>2 DEF InGetBuffer
  <2>3. /\ src1'[j] = src1[j] + 1
        /\ \A k \in Slots \ {j} : src1'[k] = src1[k]
    BY <1>1, <2>1
  <2>4. ~Answered(j)'
    <3>1. src2'[j] = src1[j] /\ src1[j] \in Int
      BY <1>1, <2>1, <2>2 DEF Unused
    <3>2. src1'[j] # src2'[j]
      BY <2>3, <3>1
    <3>3. QED  BY <3>2 DEF Answered
  <2>5. QED  BY <2>2, <2>3, <2>4, SlotFrame
<1>3. CASE InUse
  <2>1. PICK j \in Slots : j = jIn
    BY <1>1
  <2>2. src2' = [src2 EXCEPT ![j] = @ + 1] /\ UNCHANGED <<src1, sink1, sink2>>
    BY <1>3, <2>1 DEF InUse
  <2>3. /\ src2'[j] = src2[j] + 1
        /\ \A k \in Slots \ {j} : src2'[k] = src2[k]
    BY <1>1, <2>2
  <2>4. src1[j] = src2[j] + 1 /\ src2[j] = sink1[j]
    BY <1>3, <2>1 DEF InUse, IInv, CursorInv, InHolds
  <2>5. ~Answered(j)'
    BY <1>1, <2>2, <2>3, <2>4 DEF Answered
  <2>6. QED  BY <2>2, <2>3, <2>5, SlotFrame
<1>4. CASE InCleanUp
  <2>1. PICK j \in Slots : j = jIn
    BY <1>1
  <2>2. /\ src1' = [src1 EXCEPT ![j] = @ - 1] /\ src2' = [src2 EXCEPT ![j] = @ - 1]
        /\ UNCHANGED <<sink1, sink2>>
    BY <1>4, <2>1 DEF InCleanUp
  <2>3. /\ src1'[j] = src1[j] - 1
        /\ \A k \in Slots \ {j} : src1'[k] = src1[k] /\ src2'[k] = src2[k]
    BY <1>1, <2>2
  <2>4. InFlight(j)
    BY <1>4, <2>1 DEF InCleanUp, IInv, CursorInv, InHolds
  <2>5. ~Answered(j)'
    BY <1>1, <2>2, <2>3, <2>4 DEF Answered, InFlight
  <2>6. QED  BY <2>2, <2>3, <2>5, SlotFrame
<1>5. CASE OutSkip \/ OutCheck \/ OutRespond
  <2>1. /\ UNCHANGED <<src1, src2, sink1>>
        /\ sink2' = sink2 \/ sink2' = [sink2 EXCEPT ![jOut] = @ + 1]
        /\ OutUpdates
    BY <1>5 DEF OutSkip, OutCheck, OutRespond, Respond, streamVars, cursorVars,
                OutUpdates
  <2>2. jOut \in Slots /\ Answered(jOut)
    BY <2>1, OutBusy
  <2>3. CASE sink2' = sink2
    BY <2>1, <2>3 DEF Answered
  <2>4. CASE sink2' = [sink2 EXCEPT ![jOut] = @ + 1]
    <3>1. \A k \in Slots \ {jOut} : Answered(k)' => Answered(k)
      BY <1>1, <2>1, <2>4 DEF Answered
    <3>2. QED  BY <2>2, <3>1
  <2>5. QED  BY <2>1, <2>3, <2>4
<1>6. CASE \/ InLoop \/ InNoBuffer \/ InSetup \/ InSubmit \/ InSWFallback
           \/ InSWPending \/ InSWCompress \/ InSWRespond \/ InAdvance \/ InErrExit
  <2>1. UNCHANGED cursorVars
    BY <1>6 DEF InLoop, InNoBuffer, InSetup, InSubmit, InSWFallback, InSWPending,
                InSWCompress, InSWRespond, InAdvance, InErrExit, streamVars
  <2>2. QED  BY <2>1, StageFrame
<1>7. CASE \/ OutStart \/ OutLoop \/ OutPolled \/ OutPollFail \/ OutScan \/ OutHandle
           \/ OutSW \/ OutBufError \/ OutEmit \/ OutErrExit
  <2>1. UNCHANGED cursorVars
    BY <1>7 DEF OutStart, OutLoop, OutPolled, OutPollFail, OutScan, OutHandle,
                OutSW, OutBufError, OutEmit, OutErrExit, streamVars
  <2>2. QED  BY <2>1, StageFrame
<1>8. CASE \/ FinishMismatch \/ FinishSW \/ Finish \/ HwComplete \/ FatalError
           \/ Restarted \/ Rest \/ UNCHANGED vars \/ \E r \in Requests : Call(r)
  <2>1. UNCHANGED cursorVars
    BY <1>8 DEF FinishMismatch, FinishSW, Finish, Return, HwComplete, FatalError,
                Restarted, Rest, vars, streamVars, Call, CallHW, CallSW, CallRefused
  <2>2. QED  BY <2>1, StageFrame
<1>9. QED
  BY <1>2, <1>3, <1>4, <1>5, <1>6, <1>7, <1>8 DEF Next, InNext, OutNext

LEMMA AnswerStep == ASSUME NoReset, CallInv, [Next]_vars PROVE AnswerInv'
<1>1. /\ IInv /\ AnswerInv /\ DeviceInv /\ CursorInv /\ TypeStream
      /\ hw \subseteq Answers /\ jIn \in Slots
      /\ sseq \in [Slots -> Nat] /\ res \in [Slots -> Answers]
      /\ pcOut \notin {"err", "reset"}
  BY CallTypes DEF CallInv, IInv, ControlInv, TypeOK
<1>2. \A k \in Slots : Answered(k)' /\ ~OutCallback => Answered(k)
  BY <1>1, AnswerStages DEF OutReset
<1>3. CASE \/ InLoop \/ InGetBuffer \/ InNoBuffer \/ InUse \/ InCleanUp
           \/ InSWFallback \/ InSWPending \/ InSWCompress \/ InSWRespond
           \/ InAdvance \/ InErrExit
  <2>1. UNCHANGED <<calls, req, res, sseq, hw, pcOut, pend>>
    BY <1>3 DEF InLoop, InGetBuffer, InNoBuffer, InUse, InCleanUp, InSWFallback,
                InSWPending, InSWCompress, InSWRespond, InAdvance, InErrExit,
                callVars, streamVars, outVars, devVars
  <2>2. ~OutCallback
    BY <2>1 DEF OutCallback
  <2>3. QED  BY <1>1, <1>2, <2>1, <2>2, AnswerFrame DEF AnswerInv
<1>4. CASE \/ OutStart \/ OutLoop \/ OutPolled \/ OutPollFail \/ OutScan
           \/ OutBufError \/ OutErrExit
  <2>1. UNCHANGED <<calls, req, res, sseq, hw, cursorVars>> /\ pcOut' \notin {"check", "emit"}
    BY <1>4 DEF OutStart, OutLoop, OutPolled, OutPollFail, OutScan, OutBufError,
                OutErrExit, callVars, streamVars, devVars
  <2>2. QED  BY <1>1, <2>1, AnswerFrame, StageFrame
<1>5. CASE OutSkip \/ OutCheck \/ OutRespond \/ OutEmit
  <2>1. /\ UNCHANGED <<calls, req, res, sseq, hw>> /\ pcOut # "poll"
        /\ pcOut' \in {"check", "emit"} => pcOut = "check" /\ pend' = pend
    BY <1>5 DEF OutSkip, OutCheck, OutRespond, OutEmit, Respond, callVars,
                streamVars, devVars
  <2>2. QED  BY <1>1, <1>2, <2>1, AnswerFrame DEF AnswerInv, OutCallback
<1>6. CASE OutHandle
  <2>1. /\ UNCHANGED <<calls, req, res, sseq, hw, cursorVars>> /\ pcOut = "handle"
        /\ pcOut' \in {"check", "emit"} =>
              res[jOut].st = "ok" /\ pend'.sz = res[jOut].sz
    BY <1>6 DEF OutHandle, callVars, streamVars, devVars
  <2>2. jOut \in Slots /\ Answered(jOut)
    BY <1>1, <2>1, OutBusy DEF OutUpdates
  <2>3. QED  BY <1>1, <2>1, <2>2, AnswerFrame, StageFrame DEF AnswerInv
<1>7. CASE OutSW
  <2>1. UNCHANGED <<calls, req, res, sseq, hw, cursorVars>>
    BY <1>7 DEF OutSW, callVars, streamVars, devVars
  <2>2. pcOut' = "err" \/ \E sz \in Sizes : pend' = [by |-> "sw", sz |-> sz]
    BY <1>7 DEF OutSW
  <2>3. pcOut' \in {"check", "emit"} => pend'.sz \in Sizes
    BY <2>2
  <2>4. QED  BY <1>1, <2>1, <2>3, AnswerFrame, StageFrame
<1>8. CASE InSetup
  <2>1. PICK j \in Slots : j = jIn
    BY <1>1
  <2>2. /\ UNCHANGED <<calls, req, res, hw, cursorVars, pcOut, pend>> /\ pcIn = "setup"
        /\ \A k \in Slots \ {j} : sseq'[k] = sseq[k]
    BY <1>1, <1>8, <2>1 DEF InSetup, callVars, outVars, devVars
  <2>3. src1[j] = src2[j] + 1 /\ InHolds(j) /\ src2[j] \in Int
    BY <1>1, <2>1, <2>2 DEF CursorInv, InHolds, TypeStream
  <2>4. ~Answered(j)
    BY <2>3 DEF Answered
  <2>5. \A r \in hw : r.slot \in Slots \ {j}
    BY <1>1, <2>3 DEF DeviceInv, Answers
  <2>6. \A k \in Slots : Answered(k)' => k \in Slots \ {j} /\ Answered(k)
    BY <2>2, <2>4, StageFrame
  <2>7. QED  BY <1>1, <2>2, <2>5, <2>6 DEF AnswerInv, HwFinal
<1>9. CASE InSubmit
  <2>1. UNCHANGED <<calls, req, res, sseq, cursorVars, pcOut, pend>>
    BY <1>9 DEF InSubmit, callVars, outVars, streamVars
  <2>2. \A r \in hw' : \/ r \in hw
                       \/ /\ r.call = calls /\ r.seq = sseq[r.slot] /\ r.st = "pending"
                          /\ r.fin = HwFinal(r.seq)
    BY <1>9 DEF InSubmit
  <2>3. QED  BY <1>1, <2>1, <2>2, StageFrame DEF AnswerInv, HwFinal
<1>10. CASE OutCallback
  <2>1. /\ UNCHANGED <<calls, req, sseq, src1, src2, sink2, pcOut>> /\ pcOut = "poll"
    BY <1>10 DEF OutCallback, callVars, outVars
  <2>2. PICK r \in hw :
          /\ hw' = hw \ {r} /\ res' = [res EXCEPT ![r.slot] = r]
          /\ sink1' = IF InFlight(r.slot) THEN [sink1 EXCEPT ![r.slot] = @ + 1]
                      ELSE sink1
    BY <1>10 DEF OutCallback
  <2>3. PICK j \in Slots : j = r.slot
    BY <1>1 DEF Answers
  <2>4. /\ res'[j] = r
        /\ \A k \in Slots \ {j} : res'[k] = res[k] /\ sink1'[k] = sink1[k]
    BY <1>1, <2>2, <2>3 DEF TypeStream
  <2>5. \A k \in Slots \ {j} : Answered(k)' => Answered(k)
    BY <2>1, <2>4, SlotFrame
  <2>6. /\ r.call = calls /\ r.seq = sseq[j] /\ r.fin = HwFinal(r.seq)
        /\ r.st = "ok" => r.sz \in Sizes
    BY <1>1, <2>3 DEF AnswerInv
  <2>7. \A k \in Slots : Answered(k)' =>
          /\ res'[k].call = calls' /\ res'[k].seq = sseq'[k]
          /\ res'[k].fin = HwFinal(res'[k].seq)
          /\ res'[k].st = "ok" => res'[k].sz \in Sizes
    BY <1>1, <2>1, <2>4, <2>5, <2>6 DEF AnswerInv
  <2>8. QED  BY <1>1, <2>1, <2>2, <2>7 DEF AnswerInv, HwFinal
<1>11. CASE HwComplete
  <2>1. UNCHANGED <<calls, req, res, sseq, cursorVars, pcOut, pend>>
    BY <1>11 DEF HwComplete, callVars, outVars, streamVars
  <2>2. PICK r \in hw :
          \/ \E sz \in Sizes : hw' = (hw \ {r}) \cup {[r EXCEPT !.st = "ok", !.sz = sz]}
          \/ hw' = (hw \ {r}) \cup {[r EXCEPT !.st = "err"]}
    BY <1>11 DEF HwComplete
  <2>3. r \in Answers
    BY <1>1
  <2>4. PICK q : /\ hw' = (hw \ {r}) \cup {q}
                 /\ q.call = r.call /\ q.seq = r.seq /\ q.slot = r.slot
                 /\ q.fin = r.fin
                 /\ q.st = "ok" => q.sz \in Sizes
    <3>1. CASE \E sz \in Sizes :
                 hw' = (hw \ {r}) \cup {[r EXCEPT !.st = "ok", !.sz = sz]}
      <4>1. PICK sz \in Sizes :
                   hw' = (hw \ {r}) \cup {[r EXCEPT !.st = "ok", !.sz = sz]}
        BY <3>1
      <4>2. PICK q : q = [r EXCEPT !.st = "ok", !.sz = sz]
        OBVIOUS
      <4>3. /\ q.call = r.call /\ q.seq = r.seq /\ q.slot = r.slot /\ q.sz = sz
              /\ q.fin = r.fin
        BY <2>3, <4>2, ZenonT(30) DEF Answers
      <4>4. QED  BY <4>1, <4>2, <4>3
    <3>2. CASE hw' = (hw \ {r}) \cup {[r EXCEPT !.st = "err"]}
      <4>1. PICK q : q = [r EXCEPT !.st = "err"]
        OBVIOUS
      <4>2. /\ q.call = r.call /\ q.seq = r.seq /\ q.slot = r.slot /\ q.st = "err"
              /\ q.fin = r.fin
        BY <2>3, <4>1, ZenonT(30) DEF Answers
      <4>3. QED  BY <3>2, <4>1, <4>2
    <3>3. QED  BY <2>2, <3>1, <3>2
  <2>5. QED  BY <1>1, <2>1, <2>4, StageFrame DEF AnswerInv, HwFinal
<1>12. CASE \E r \in Requests : Call(r)
  <2>1. /\ caller = "idle" /\ UNCHANGED <<res, sseq, hw, cursorVars>>
        /\ pcOut' \in {"start", pcOut}
    BY <1>12 DEF Call, CallHW, CallSW, CallRefused, streamVars, devVars, outVars
  <2>2. \A k \in Slots : Unused(k)
    BY <1>1, <2>1 DEF IInv, ControlInv
  <2>3. \A k \in Slots : ~Answered(k)' /\ ~InFlight(k)
    BY <1>1, <2>1, <2>2, Stages, StageFrame
  <2>4. hw' = {}
    BY <1>1, <2>1, <2>3 DEF DeviceInv, Answers
  <2>5. pcOut' \notin {"check", "emit"}
    BY <1>1, <2>1 DEF IInv, ControlInv
  <2>6. QED  BY <2>3, <2>4, <2>5 DEF AnswerInv
<1>13. CASE \/ FinishMismatch \/ FinishSW \/ Finish \/ FatalError \/ Restarted \/ Rest
            \/ UNCHANGED vars
  <2>1. UNCHANGED <<calls, req, res, sseq, hw, cursorVars, pcOut, pend>>
    BY <1>13 DEF FinishMismatch, FinishSW, Finish, Return, FatalError, Restarted,
                 Rest, vars, callVars, streamVars, outVars, devVars
  <2>2. QED  BY <1>1, <2>1, AnswerFrame, StageFrame DEF AnswerInv
<1>14. CASE OutReset
  BY <1>1, <1>14 DEF OutReset
<1>15. QED
  BY <1>3, <1>4, <1>5, <1>6, <1>7, <1>8, <1>9, <1>10, <1>11, <1>12, <1>13, <1>14
  DEF Next, InNext, OutNext

-----------------------------------------------------------------------------
(* The room in an ample destination.                                       *)

LEMMA OneMoreProduct ==
    ASSUME NEW q \in Int, NEW m \in Int
    PROVE  (q + 1) * m = q * m + m
OBVIOUS

LEMMA ProductMonotone ==
    ASSUME NEW q \in Int, NEW n \in Int, NEW m \in Nat, q <= n
    PROVE  q * m <= n * m
<1>1. PICK d \in Nat : n = q + d
  <2>1. n - q \in Nat /\ n = q + (n - q)
    OBVIOUS
  <2>2. QED  BY <2>1
<1>2. (q + d) * m = q * m + d * m
  OBVIOUS
<1>3. d * m \in Nat
  OBVIOUS
<1>4. q * m \in Int
  OBVIOUS
<1>5. QED  BY <1>1, <1>2, <1>3, <1>4

\* A step that writes nothing and takes no room.
LEMMA RoomQuiet ==
    ASSUME RoomInv, UNCHANGED <<req, next_dest, qz_in_len>>,
           caller' = "run" => caller = "run" /\ pcOut' # "buferr",
           stat' = "BUF_ERROR" => stat = "BUF_ERROR",
           pcOut' \notin {"start", "done"} =>
               pcOut \notin {"start", "done"} /\ avail' = avail /\ Owed' = Owed
    PROVE  RoomInv'
BY DEF RoomInv

\* A chunk of sz more in the destination.
LEMMA RoomPiece ==
    ASSUME NEW sz \in Sizes, NEW q \in Int, NEW e \in Int,
           \A m \in Nat : Above(m) => e <= q * m
    PROVE  \A m \in Nat : Above(m) => e + sz <= (q + 1) * m
<1> SUFFICES ASSUME NEW m \in Nat, Above(m) PROVE e + sz <= (q + 1) * m
  OBVIOUS
<1>1. sz \in Nat /\ sz <= m
  BY BoundsAssumption DEF Above
<1>2. PICK p \in Int : p = q * m
  OBVIOUS
<1>3. (q + 1) * m = p + m
  BY <1>2, OneMoreProduct
<1>4. e <= p
  BY <1>2
<1>5. e + sz <= p + m
  BY <1>1, <1>4
<1>6. QED  BY <1>3, <1>5

\* compOutCheckDestLen never finds an ample destination too short.
LEMMA RoomEnough ==
    ASSUME CallInv, Ample, pcOut = "check"
    PROVE  avail - pend.sz >= 0
<1>1. /\ qz_in_len \in Int /\ seq_in \in Nat /\ seq \in Nat /\ req.n \in Nat
      /\ next_dest \in Int /\ avail \in Int /\ req.dest \in Nat
      /\ MaxChunks \in Nat /\ pend.sz \in Sizes
  BY CallTypes, BoundsAssumption DEF CallInv, AnswerInv, Requested
<1>2. /\ ~InUpdates /\ caller = "run"
      /\ seq_in < seq \/ (pcIn = "adv" /\ seq_in = seq)
  BY OutBusy DEF CallInv, OutUpdates
<1>3. /\ seq <= req.n /\ req.n <= MaxChunks /\ req.dest \in DestSizes
      /\ pcIn = "adv" => seq < req.n
  BY <1>2 DEF CallInv, ReqInv
<1>4. qz_in_len = seq_in
  <2>1. AheadOut = 0 /\ AheadIn = 0
    BY <1>2 DEF AheadOut, AheadIn, InUpdates
  <2>2. qz_in_len = seq_in + AheadOut + AheadIn
    BY <1>2 DEF CallInv, CountInv
  <2>3. QED  BY <1>1, <2>1, <2>2
<1>5. PICK m \in Nat : Above(m) /\ MaxChunks * m <= req.dest
  BY <1>3 DEF Ample
<1>6. /\ next_dest <= qz_in_len * m
      /\ req.dest - avail <= next_dest
  BY <1>1, <1>2, <1>5 DEF CallInv, RoomInv, Owed
<1>7. qz_in_len + 1 <= MaxChunks
  BY <1>1, <1>2, <1>3, <1>4
<1>8. (qz_in_len + 1) * m <= MaxChunks * m
  BY <1>1, <1>5, <1>7, ProductMonotone
<1>9. (qz_in_len + 1) * m = qz_in_len * m + m
  BY <1>1, <1>5, OneMoreProduct
<1>10. pend.sz <= m
  BY <1>1, <1>5 DEF Above
<1>11. PICK d, a, e, s, p, q :
         /\ d = req.dest /\ a = avail /\ e = next_dest /\ s = pend.sz
         /\ p = qz_in_len * m /\ q = MaxChunks * m
  OBVIOUS
<1>12. /\ d \in Int /\ a \in Int /\ e \in Int /\ s \in Int /\ p \in Int /\ q \in Int
       /\ q <= d /\ e <= p /\ d - a <= e /\ p + m <= q /\ s <= m
  <2>1. pend.sz \in Int
    BY CallTypes
  <2>2. qz_in_len * m \in Int /\ MaxChunks * m \in Int
    BY <1>1
  <2>3. QED  BY <1>1, <1>5, <1>6, <1>8, <1>9, <1>10, <1>11, <2>1, <2>2
<1>13. a - s >= 0
  BY <1>12
<1>14. QED  BY <1>11, <1>13

LEMMA RoomStep == ASSUME NoReset, CallInv, [Next]_vars PROVE RoomInv'
<1>1. /\ RoomInv /\ FitInv /\ next_dest \in Int /\ qz_in_len \in Int /\ avail \in Int
      /\ req.dest \in Nat /\ pend.sz \in Nat /\ Sizes \subseteq Nat
      /\ pcOut \notin {"err", "reset"}
      /\ caller = "idle" => pcOut = "done"
      /\ caller = "run" => pcOut # "buferr" \/ ~Ample
  BY CallTypes, BoundsAssumption DEF CallInv, IInv, ControlInv, Requested, RoomInv
<1>2. CASE \/ InLoop \/ InGetBuffer \/ InNoBuffer \/ InSetup \/ InUse \/ InSubmit
           \/ InCleanUp \/ InSWFallback \/ InSWPending \/ InSWRespond \/ InAdvance
           \/ InErrExit \/ HwComplete \/ FatalError \/ Restarted \/ Rest
           \/ UNCHANGED vars
  <2>1. /\ UNCHANGED <<caller, req, next_dest, qz_in_len, pcOut, avail, pend>>
        /\ stat' \in {stat, "FAIL"}
    BY <1>2 DEF InLoop, InGetBuffer, InNoBuffer, InSetup, InUse, InSubmit,
                InCleanUp, InSWFallback, InSWPending, InSWRespond, InAdvance,
                InErrExit, HwComplete, FatalError, Restarted, Rest, vars, sessVars,
                callVars, lenVars, outVars, flagVars
  <2>2. Owed' = Owed
    BY <2>1 DEF Owed
  <2>3. QED  BY <1>1, <2>1, <2>2, RoomQuiet DEF RoomInv
<1>3. CASE \/ OutLoop \/ OutCallback \/ OutPolled \/ OutScan \/ OutHandle \/ OutSW
           \/ OutRespond
  <2>1. /\ UNCHANGED <<caller, req, next_dest, qz_in_len, stat, avail>>
        /\ pcOut \notin {"start", "done", "emit"} /\ pcOut' \notin {"emit", "buferr"}
    BY <1>3 DEF OutLoop, OutCallback, OutPolled, OutScan, OutHandle, OutSW,
                OutRespond, Respond, sessVars, callVars, lenVars, outVars, flagVars
  <2>2. Owed = 0 /\ Owed' = 0
    BY <2>1 DEF Owed
  <2>3. QED  BY <1>1, <2>1, <2>2, RoomQuiet
<1>4. CASE OutSkip
  <2>1. UNCHANGED <<caller, stat>> /\ stat = "BUF_ERROR"
    BY <1>4 DEF OutSkip, callVars, flagVars
  <2>2. QED  BY <1>1, <2>1 DEF RoomInv
<1>5. CASE OutBufError
  BY <1>1, <1>5 DEF OutBufError, RoomInv, callVars
<1>6. CASE OutPollFail \/ OutErrExit \/ OutReset
  BY <1>1, <1>6 DEF OutPollFail, OutErrExit, OutReset, NoReset
<1>7. CASE OutStart
  <2>1. /\ UNCHANGED <<caller, req, next_dest, qz_in_len, stat>>
        /\ avail' = req.dest - qz_out_len /\ pcOut' = "loop"
    BY <1>7 DEF OutStart, sessVars, callVars, lenVars, flagVars
  <2>2. Owed' = 0 /\ qz_out_len = next_dest
    BY <1>1, <2>1 DEF Owed, FitInv
  <2>3. req.dest - avail' <= next_dest + 0
    BY <1>1, <2>1, <2>2
  <2>4. QED  BY <1>1, <2>1, <2>2, <2>3 DEF RoomInv
<1>8. CASE OutCheck
  <2>1. /\ UNCHANGED <<caller, req, next_dest, qz_in_len, stat, pend>>
        /\ pcOut = "check" /\ avail' = avail - pend.sz
        /\ avail - pend.sz >= 0 => pcOut' = "emit"
    BY <1>1, <1>8 DEF OutCheck, callVars, lenVars, flagVars
  <2>2. SUFFICES ASSUME Ample, caller = "run" PROVE RoomInv'
    BY <2>1 DEF RoomInv
  <2>3. pcOut' = "emit"
    BY <2>1, <2>2, RoomEnough
  <2>4. Owed = 0 /\ Owed' = pend.sz
    BY <2>1, <2>3 DEF Owed
  <2>5. req.dest - avail <= next_dest
    BY <1>1, <2>1, <2>2, <2>4 DEF RoomInv
  <2>6. PICK d, a, e, s : d = req.dest /\ a = avail /\ e = next_dest /\ s = pend.sz
    OBVIOUS
  <2>7. d \in Int /\ a \in Int /\ e \in Int /\ s \in Int /\ d - a <= e
    BY <1>1, <2>5, <2>6
  <2>8. d - (a - s) <= e + s
    BY <2>7
  <2>9. req.dest - avail' <= next_dest + Owed'
    BY <2>1, <2>4, <2>6, <2>8
  <2>10. QED  BY <1>1, <2>1, <2>2, <2>3, <2>9 DEF RoomInv
<1>9. CASE OutEmit
  <2>1. /\ UNCHANGED <<caller, req, stat, avail>> /\ pcOut = "emit" /\ pcOut' = "resp"
        /\ next_dest' = next_dest + pend.sz /\ qz_in_len' = qz_in_len + 1
    BY <1>9 DEF OutEmit, callVars, flagVars
  <2>2. SUFFICES ASSUME Ample, caller = "run" PROVE RoomInv'
    BY <2>1 DEF RoomInv
  <2>3. pend.sz \in Sizes
    BY <2>1 DEF CallInv, AnswerInv
  <2>4. \A m \in Nat : Above(m) => next_dest' <= qz_in_len' * m
    <3>1. \A m \in Nat : Above(m) => next_dest <= qz_in_len * m
      BY <1>1, <2>2 DEF RoomInv
    <3>2. QED  BY <1>1, <2>1, <2>3, <3>1, RoomPiece
  <2>5. Owed = pend.sz /\ Owed' = 0
    BY <2>1 DEF Owed
  <2>6. req.dest - avail <= next_dest + pend.sz
    BY <2>1, <2>2, <2>5 DEF CallInv, RoomInv
  <2>7. next_dest + pend.sz = next_dest' + Owed'
    BY <1>1, <2>1, <2>5
  <2>8. stat # "BUF_ERROR"
    BY <1>1, <2>2 DEF RoomInv
  <2>9. QED  BY <2>1, <2>4, <2>6, <2>7, <2>8 DEF RoomInv
<1>10. CASE InSWCompress
  <2>1. /\ UNCHANGED <<caller, req, stat, avail, pcOut, pend>>
        /\ \E sz \in Sizes : /\ next_dest' = next_dest + sz
                             /\ qz_in_len' = qz_in_len + 1
    BY <1>10 DEF InSWCompress, NoReset, callVars, flagVars, outVars
  <2>2. PICK sz \in Sizes : /\ next_dest' = next_dest + sz
                            /\ qz_in_len' = qz_in_len + 1
    BY <2>1
  <2>3. SUFFICES ASSUME Ample, caller = "run" PROVE RoomInv'
    BY <2>1 DEF RoomInv
  <2>4. \A m \in Nat : Above(m) => next_dest' <= qz_in_len' * m
    <3>1. \A m \in Nat : Above(m) => next_dest <= qz_in_len * m
      BY <1>1, <2>3 DEF RoomInv
    <3>2. QED  BY <1>1, <2>2, <3>1, RoomPiece
  <2>5. Owed' = Owed /\ Owed \in Int /\ sz \in Nat
    BY <1>1, <2>1 DEF Owed
  <2>6. pcOut' \notin {"start", "done"} => req.dest - avail <= next_dest' + Owed
    <3>1. SUFFICES ASSUME pcOut \notin {"start", "done"}
                   PROVE  req.dest - avail <= next_dest' + Owed
      BY <2>1
    <3>2. req.dest - avail <= next_dest + Owed
      BY <1>1, <2>3, <3>1 DEF RoomInv
    <3>3. PICK d, a, e, o : d = req.dest /\ a = avail /\ e = next_dest /\ o = Owed
      OBVIOUS
    <3>4. d \in Int /\ a \in Int /\ e \in Int /\ o \in Int /\ d - a <= e + o
      BY <1>1, <2>5, <3>2, <3>3
    <3>5. d - a <= e + sz + o
      BY <2>5, <3>4
    <3>6. QED  BY <2>2, <3>3, <3>5
  <2>7. QED  BY <1>1, <2>1, <2>3, <2>4, <2>5, <2>6 DEF RoomInv
<1>11. CASE FinishMismatch \/ FinishSW \/ Finish
  BY <1>11 DEF FinishMismatch, FinishSW, Finish, Return, RoomInv
<1>12. CASE \E r \in Requests : Call(r)
  <2>1. PICK r \in Requests : Call(r)
    BY <1>12
  <2>2. CASE CallHW(r)
    <3>1. /\ stat' = "OK" /\ pcOut' = "start" /\ next_dest' = 0 /\ qz_in_len' = 0
      BY <2>2 DEF CallHW
    <3>2. \A m \in Nat : 0 <= 0 * m
      OBVIOUS
    <3>3. QED  BY <3>1, <3>2 DEF RoomInv
  <2>3. CASE CallSW(r) \/ CallRefused(r)
    <3>1. caller' = "idle"
      BY <2>1, <2>3 DEF Call, CallSW, CallRefused
    <3>2. QED  BY <3>1 DEF RoomInv
  <2>4. QED  BY <2>1, <2>2, <2>3 DEF Call
<1>13. QED
  BY <1>2, <1>3, <1>4, <1>5, <1>6, <1>7, <1>8, <1>9, <1>10, <1>11, <1>12
  DEF Next, InNext, OutNext

-----------------------------------------------------------------------------
(* The chain of the pieces and what a call reports of it.                  *)

Chained(s, c, pin) ==
    \A i \in 1..Len(s) :
        /\ s[i].call = c
        /\ s[i].chunk = IF i = 1 THEN 0 ELSE s[i-1].chunk + s[i-1].cnt
        /\ ~pin => s[i].at = IF i = 1 THEN 0 ELSE s[i-1].at + s[i-1].sz

Ends(s, pin, in, dest) ==
    IF Len(s) = 0 THEN in = 0 /\ dest = 0
    ELSE /\ in = s[Len(s)].chunk + s[Len(s)].cnt
         /\ ~pin => dest = s[Len(s)].at + s[Len(s)].sz

LEMMA InOrderIsChained == InOrder <=> Chained(out, calls, req.pin)
BY DEF InOrder, Chained

LEMMA EndsAtIsEnds ==
    ASSUME TypeOK, NEW in, NEW dest
    PROVE  /\ EndsAt(in, dest) <=> Ends(out, req.pin, in, dest)
           /\ out = << >> <=> Len(out) = 0
BY DEF TypeOK, EndsAt, Ends, LastPiece

\* A chain is continued by the piece that begins where it ends.
LEMMA ChainedAppend ==
    ASSUME NEW s \in Seq(Pieces), NEW p, NEW c, NEW pin, NEW in, NEW dest,
           Ends(s, pin, in, dest)
    PROVE  Chained(Append(s, p), c, pin) <=>
               /\ Chained(s, c, pin)
               /\ p.call = c /\ p.chunk = in /\ (~pin => p.at = dest)
<1> DEFINE t == Append(s, p)
<1>1. PICK n \in Nat : n = Len(s)
  OBVIOUS
<1>2. /\ Len(t) = n + 1 /\ t[n + 1] = p /\ \A i \in 1..n : t[i] = s[i]
  BY <1>1, OneMore
<1> HIDE DEF t
<1>3. \A i \in 1..n : i \in 1..(n + 1) /\ (i # 1 => i - 1 \in 1..n)
  BY <1>1
<1>4. /\ n + 1 \in 1..(n + 1)
      /\ n + 1 = 1 => in = 0 /\ (~pin => dest = 0)
      /\ n + 1 # 1 => /\ in = t[n].chunk + t[n].cnt
                      /\ ~pin => dest = t[n].at + t[n].sz
  <2>1. n + 1 \in 1..(n + 1)
    BY <1>1
  <2>2. CASE n = 0
    BY <1>1, <2>1, <2>2 DEF Ends
  <2>3. CASE n # 0
    <3>1. n \in 1..n /\ n + 1 # 1
      BY <1>1, <2>3
    <3>2. t[n] = s[n]
      BY <1>2, <3>1
    <3>3. QED  BY <1>1, <2>1, <2>3, <3>1, <3>2 DEF Ends
  <2>4. QED  BY <2>2, <2>3
<1>5. n + 1 - 1 = n
  BY <1>1
<1>6. ASSUME Chained(t, c, pin)
      PROVE  /\ Chained(s, c, pin)
             /\ p.call = c /\ p.chunk = in /\ (~pin => p.at = dest)
  <2>1. ASSUME NEW i \in 1..n
        PROVE  /\ s[i].call = c
               /\ s[i].chunk = IF i = 1 THEN 0 ELSE s[i-1].chunk + s[i-1].cnt
               /\ ~pin => s[i].at = IF i = 1 THEN 0 ELSE s[i-1].at + s[i-1].sz
    <3>1. /\ t[i].call = c
          /\ t[i].chunk = IF i = 1 THEN 0 ELSE t[i-1].chunk + t[i-1].cnt
          /\ ~pin => t[i].at = IF i = 1 THEN 0 ELSE t[i-1].at + t[i-1].sz
      BY <1>2, <1>3, <1>6 DEF Chained
    <3>2. t[i] = s[i] /\ (i # 1 => t[i-1] = s[i-1])
      BY <1>2, <1>3
    <3>3. QED  BY <3>1, <3>2
  <2>2. Chained(s, c, pin)
    BY <1>1, <2>1 DEF Chained
  <2>3. /\ t[n + 1].call = c
        /\ t[n + 1].chunk = IF n + 1 = 1 THEN 0 ELSE t[n].chunk + t[n].cnt
        /\ ~pin => t[n + 1].at = IF n + 1 = 1 THEN 0 ELSE t[n].at + t[n].sz
    BY <1>2, <1>4, <1>5, <1>6 DEF Chained
  <2>4. QED  BY <1>2, <1>4, <2>2, <2>3
<1>7. ASSUME Chained(s, c, pin), p.call = c, p.chunk = in, ~pin => p.at = dest
      PROVE  Chained(t, c, pin)
  <2>1. ASSUME NEW i \in 1..(n + 1)
        PROVE  /\ t[i].call = c
               /\ t[i].chunk = IF i = 1 THEN 0 ELSE t[i-1].chunk + t[i-1].cnt
               /\ ~pin => t[i].at = IF i = 1 THEN 0 ELSE t[i-1].at + t[i-1].sz
    <3>1. CASE i = n + 1
      BY <1>2, <1>4, <1>5, <1>7, <3>1
    <3>2. CASE i # n + 1
      <4>1. i \in 1..n
        BY <1>1, <3>2
      <4>2. /\ s[i].call = c
            /\ s[i].chunk = IF i = 1 THEN 0 ELSE s[i-1].chunk + s[i-1].cnt
            /\ ~pin => s[i].at = IF i = 1 THEN 0 ELSE s[i-1].at + s[i-1].sz
        BY <1>1, <1>7, <4>1 DEF Chained
      <4>3. t[i] = s[i] /\ (i # 1 => t[i-1] = s[i-1])
        BY <1>2, <1>3, <4>1
      <4>4. QED  BY <4>2, <4>3
    <3>3. QED  BY <3>1, <3>2
  <2>2. QED  BY <1>2, <2>1 DEF Chained
<1>8. QED  BY <1>6, <1>7 DEF t

\* What is in front of the last piece of a chain is a chain.
LEMMA ChainedFront ==
    ASSUME NEW s \in Seq(Pieces), NEW p, NEW c, NEW pin,
           Chained(Append(s, p), c, pin)
    PROVE  Chained(s, c, pin)
<1>1. \E in, dest : Ends(s, pin, in, dest)
  <2>1. CASE Len(s) = 0
    BY <2>1 DEF Ends
  <2>2. CASE Len(s) # 0
    BY <2>2 DEF Ends
  <2>3. QED  BY <2>1, <2>2
<1>2. QED  BY <1>1, ChainedAppend

\* The last piece is where the chain ends.
LEMMA EndsAppend ==
    ASSUME NEW s \in Seq(Pieces), NEW p, NEW pin, NEW in, NEW dest,
           in = p.chunk + p.cnt, ~pin => dest = p.at + p.sz
    PROVE  Ends(Append(s, p), pin, in, dest) /\ Len(Append(s, p)) # 0
<1>1. PICK n \in Nat : n = Len(s)
  OBVIOUS
<1>2. Len(Append(s, p)) = n + 1 /\ Append(s, p)[n + 1] = p /\ n + 1 # 0
  BY <1>1, OneMore
<1>3. QED  BY <1>2 DEF Ends

\* A piece more in the destination of the running call.
LEMMA Written ==
    ASSUME CallInv, TypeOK', caller = "run", NEW p,
           out' = Append(out, p), UNCHANGED <<calls, req>>
    PROVE  /\ InOrder' => /\ InOrder
                          /\ p.chunk = qz_in_len /\ (~req.pin => p.at = next_dest)
           /\ /\ InOrder /\ p.call = calls
              /\ p.chunk = qz_in_len /\ (~req.pin => p.at = next_dest)
              => InOrder'
<1>1. TypeOK /\ out \in Seq(Pieces)
  BY DEF CallInv, IInv, TypeOK
<1>2. InOrder' <=> Chained(Append(out, p), calls, req.pin)
  BY DEF InOrder, Chained
<1>3. InOrder <=> Chained(out, calls, req.pin)
  BY InOrderIsChained
<1>4. InOrder' => InOrder
  BY <1>1, <1>2, <1>3, ChainedFront
<1>5. InOrder => Ends(out, req.pin, qz_in_len, next_dest)
  BY <1>1, EndsAtIsEnds DEF CallInv, EndInv
<1>6. InOrder => (InOrder' <=> /\ InOrder /\ p.call = calls
                               /\ p.chunk = qz_in_len /\ (~req.pin => p.at = next_dest))
  BY <1>1, <1>2, <1>3, <1>5, ChainedAppend
<1>7. QED  BY <1>4, <1>6

\* The report of a call, from where its destination ends.
LEMMA Reported ==
    ASSUME TypeOK', ret'.rc = "OK" => ret'.src_len = req'.n,
           \/ ret'.src_len = 0
           \/ InOrder' => Ends(out', req'.pin, ret'.src_len, ret'.dest_len)
    PROVE  ReportsTruth'
<1>1. out' # << >> <=> Len(out') # 0
  BY DEF TypeOK
<1>2. ret'.src_len \in Int
  BY DEF TypeOK, TypeCall
<1>3. QED  BY <1>1, <1>2 DEF Ends, ReportsTruth

\* What the last part of CallInv says of a step.
Told == EndInv' /\ (Ample => InOrder') /\ ReportsTruth'

\* A step that writes nothing and reports nothing.
LEMMA QuietTold ==
    ASSUME CallInv,
           UNCHANGED <<caller, calls, req, ret, out, qz_in_len, next_dest>>
    PROVE  Told
BY DEF CallInv, Told, EndInv, EndsAt, LastPiece, InOrder, ReportsTruth

\* A step that puts one more chunk into the destination.
LEMMA PieceTold ==
    ASSUME CallInv, TypeOK', caller = "run", NEW p, out' = Append(out, p),
           UNCHANGED <<caller, calls, req>>,
           p.cnt = 1, qz_in_len' = qz_in_len + 1, next_dest' = next_dest + p.sz,
           Ample => /\ p.call = calls /\ p.chunk = qz_in_len
                    /\ ~req.pin => p.at = next_dest
    PROVE  Told
<1>1. Ample => InOrder'
  BY Written DEF CallInv
<1>2. EndInv'
  <2>1. SUFFICES ASSUME InOrder' PROVE EndsAt(qz_in_len, next_dest)'
    BY DEF EndInv
  <2>2. p.chunk = qz_in_len /\ (~req.pin => p.at = next_dest)
    BY <2>1, Written
  <2>3. out \in Seq(Pieces)
    BY DEF CallInv, IInv, TypeOK
  <2>4. Ends(out', req'.pin, qz_in_len', next_dest')
    BY <2>2, <2>3, EndsAppend
  <2>5. out' = << >> <=> Len(out') = 0
    BY DEF TypeOK
  <2>6. QED  BY <2>4, <2>5 DEF Ends, EndsAt, LastPiece
<1>3. ReportsTruth'
  BY DEF ReportsTruth
<1>4. QED  BY <1>1, <1>2, <1>3 DEF Told

LEMMA ToldStep == ASSUME NoReset, CallInv, [Next]_vars PROVE Told
<1>1. /\ TypeOK /\ TypeOK' /\ IInv /\ CountInv /\ ControlInv
      /\ seq \in Nat /\ seq_in \in Nat /\ qz_in_len \in Int /\ next_dest \in Int
      /\ req.n \in Nat /\ pend.sz \in Nat /\ out \in Seq(Pieces)
      /\ caller \in {"idle", "run"} /\ pcOut \notin {"err", "reset"}
      /\ caller = "idle" => pcIn = "done" /\ pcOut = "done"
      /\ Ample /\ caller = "run" => pcOut # "buferr"
  BY CallTypes, TypeStep
  DEF CallInv, IInv, ControlInv, Requested, RoomInv, TypeOK, TypeCall
<1>2. CASE \/ InLoop \/ InGetBuffer \/ InNoBuffer \/ InSetup \/ InUse \/ InSubmit
           \/ InCleanUp \/ InSWFallback \/ InSWPending \/ InSWRespond \/ InAdvance
           \/ InErrExit \/ HwComplete \/ FatalError \/ Restarted \/ Rest
           \/ UNCHANGED vars
  <2>1. UNCHANGED <<callVars, lenVars, out>>
    BY <1>2 DEF InLoop, InGetBuffer, InNoBuffer, InSetup, InUse, InSubmit,
                InCleanUp, InSWFallback, InSWPending, InSWRespond, InAdvance,
                InErrExit, HwComplete, FatalError, Restarted, Rest, vars, sessVars
  <2>2. QED  BY <2>1, QuietTold DEF callVars, lenVars
<1>3. CASE \/ OutStart \/ OutLoop \/ OutCallback \/ OutPolled \/ OutScan \/ OutSkip
           \/ OutHandle \/ OutSW \/ OutCheck \/ OutBufError \/ OutRespond
  <2>1. UNCHANGED <<callVars, lenVars, out>>
    BY <1>3 DEF OutStart, OutLoop, OutCallback, OutPolled, OutScan, OutSkip,
                OutHandle, OutSW, OutCheck, OutBufError, OutRespond, sessVars
  <2>2. QED  BY <2>1, QuietTold DEF callVars, lenVars
<1>4. CASE OutPollFail \/ OutErrExit \/ OutReset
  BY <1>1, <1>4 DEF OutPollFail, OutErrExit, OutReset, NoReset
<1>5. CASE InSWCompress
  <2>1. /\ pcIn = "swcomp" /\ UNCHANGED <<callVars>>
        /\ \E sz \in Sizes :
             /\ out' = Append(out, Piece(calls, seq, 1, "sw", next_dest, sz,
                                         SwFinal(req)))
             /\ next_dest' = next_dest + sz /\ qz_in_len' = qz_in_len + 1
    BY <1>5 DEF InSWCompress, NoReset
  <2>2. PICK p : /\ out' = Append(out, p)
                 /\ p.call = calls /\ p.chunk = seq /\ p.cnt = 1 /\ p.at = next_dest
                 /\ next_dest' = next_dest + p.sz /\ qz_in_len' = qz_in_len + 1
    BY <2>1 DEF Piece
  <2>3. caller = "run" /\ pcIn # "swresp"
    BY <1>1, <2>1
  <2>4. Ample => seq = qz_in_len
    <3>1. SUFFICES ASSUME Ample PROVE seq = qz_in_len
      OBVIOUS
    <3>2. seq = seq_in
      BY <1>1, <2>1 DEF ControlInv
    <3>3. pcOut # "resp"
      BY <1>1, <2>1, OutBusy DEF OutUpdates, InUpdates
    <3>4. AheadOut = 0 /\ AheadIn = 0
      BY <1>1, <2>3, <3>1, <3>3 DEF AheadOut, AheadIn
    <3>5. qz_in_len = seq_in + AheadOut + AheadIn
      BY <1>1, <2>3, <3>1 DEF CountInv
    <3>6. QED  BY <1>1, <3>2, <3>4, <3>5
  <2>5. QED  BY <1>1, <2>1, <2>2, <2>3, <2>4, PieceTold DEF callVars
<1>6. CASE OutEmit
  <2>1. /\ pcOut = "emit" /\ UNCHANGED callVars
        /\ next_dest' = next_dest + pend.sz /\ qz_in_len' = qz_in_len + 1
    BY <1>6 DEF OutEmit
  <2>2. /\ jOut \in Slots /\ Answered(jOut) /\ sseq[jOut] = seq_in /\ caller = "run"
        /\ ~InUpdates
    BY <1>1, <2>1, OutBusy DEF OutUpdates, ControlInv, Ready
  <2>3. res[jOut].call = calls /\ res[jOut].seq = seq_in
    BY <2>2 DEF CallInv, AnswerInv
  <2>4. ~req.pin => "dest" \notin lent[jOut]
    BY <2>2 DEF CallInv, PinInv
  <2>5. PICK p : /\ out' = Append(out, p)
                 /\ p = IF pend.by = "hw"
                        THEN Piece(res[jOut].call, res[jOut].seq, 1, "hw", next_dest,
                                   pend.sz, res[jOut].fin)
                        ELSE Piece(calls, sseq[jOut], 1, "sw",
                                   next_dest + (IF "dest" \in lent[jOut]
                                                THEN HeaderSz ELSE 0),
                                   pend.sz, SwFinal(req))
    BY <1>6 DEF OutEmit
  <2>6. /\ p.call = calls /\ p.chunk = seq_in /\ p.cnt = 1 /\ p.sz = pend.sz
        /\ ~req.pin => p.at = next_dest
    <3>1. CASE pend.by = "hw"
      BY <2>3, <2>5, <3>1 DEF Piece
    <3>2. CASE pend.by # "hw"
      <4>1. /\ p.call = calls /\ p.chunk = sseq[jOut] /\ p.cnt = 1 /\ p.sz = pend.sz
            /\ p.at = next_dest + (IF "dest" \in lent[jOut] THEN HeaderSz ELSE 0)
        BY <2>5, <3>2 DEF Piece
      <4>2. ~req.pin => p.at = next_dest
        BY <1>1, <2>4, <4>1
      <4>3. QED  BY <2>2, <4>1, <4>2
    <3>3. QED  BY <3>1, <3>2
  <2>7. Ample => seq_in = qz_in_len
    <3>1. AheadOut = 0 /\ AheadIn = 0
      BY <2>1, <2>2 DEF AheadOut, AheadIn, InUpdates
    <3>2. Ample => qz_in_len = seq_in + AheadOut + AheadIn
      BY <1>1, <2>2 DEF CountInv
    <3>3. QED  BY <1>1, <3>1, <3>2
  <2>8. QED  BY <1>1, <2>1, <2>2, <2>5, <2>6, <2>7, PieceTold DEF callVars
<1>7. CASE FinishMismatch
  <2>1. Joined /\ seq # seq_in
    BY <1>7 DEF FinishMismatch
  <2>2. seq <= seq_in /\ seq_in <= seq
    BY <1>1, <2>1 DEF Joined, ControlInv, IInv, SeqInv
  <2>3. QED  BY <1>1, <2>1, <2>2
<1>8. CASE Finish
  <2>1. /\ Joined /\ seq = seq_in /\ caller' = "idle" /\ UNCHANGED <<calls, req, out>>
        /\ ret' = [rc |-> stat, src_len |-> qz_in_len, dest_len |-> next_dest]
    BY <1>8 DEF Finish, Return
  <2>2. ret'.rc = stat /\ ret'.src_len = qz_in_len /\ ret'.dest_len = next_dest
    BY <2>1
  <2>3. stat = "OK" => qz_in_len = req.n
    <3>1. SUFFICES ASSUME stat = "OK" PROVE qz_in_len = req.n
      OBVIOUS
    <3>2. caller = "run" /\ AheadOut = 0 /\ AheadIn = 0 /\ pcIn = "done"
      BY <2>1 DEF Joined, AheadOut, AheadIn
    <3>3. qz_in_len = seq_in + AheadOut + AheadIn /\ seq = req.n
      BY <1>1, <3>1, <3>2 DEF CountInv
    <3>4. QED  BY <1>1, <2>1, <3>2, <3>3
  <2>4. InOrder' <=> InOrder
    BY <2>1 DEF InOrder
  <2>5. InOrder => Ends(out, req.pin, qz_in_len, next_dest)
    BY <1>1, <2>1, EndsAtIsEnds DEF CallInv, EndInv, Joined
  <2>6. ReportsTruth'
    BY <1>1, <2>1, <2>2, <2>3, <2>4, <2>5, Reported
  <2>7. QED  BY <2>1, <2>4, <2>6 DEF Told, EndInv, CallInv
<1>9. CASE FinishSW
  <2>1. /\ Joined /\ stat # "OK" /\ caller' = "idle" /\ UNCHANGED <<calls, req>>
        /\ ret' = [rc |-> stat', src_len |-> qz_in_len', dest_len |-> next_dest']
    BY <1>9 DEF FinishSW, Return, NeedsSW
  <2>2. ret'.rc = stat' /\ ret'.src_len = qz_in_len' /\ ret'.dest_len = next_dest'
    BY <2>1
  <2>3. caller = "run"
    BY <2>1 DEF Joined
  <2>4. CASE UNCHANGED <<lenVars, stat, out>>
    <3>1. InOrder' <=> InOrder
      BY <2>1, <2>4 DEF InOrder
    <3>2. InOrder => Ends(out, req.pin, qz_in_len, next_dest)
      BY <1>1, <2>3, EndsAtIsEnds DEF CallInv, EndInv
    <3>3. ReportsTruth'
      BY <1>1, <2>1, <2>2, <2>4, <3>1, <3>2, Reported DEF lenVars
    <3>4. QED  BY <2>1, <3>1, <3>3 DEF Told, EndInv, CallInv
  <2>5. CASE \E sz \in SwRestSizes(req.n - qz_in_len) :
               /\ out' = Append(out, Piece(calls, qz_in_len, req.n - qz_in_len, "sw",
                                           next_dest, sz, SwFinal(req)))
               /\ qz_in_len' = qz_in_len + (req.n - qz_in_len)
               /\ next_dest' = next_dest + sz
    <3>1. PICK p : /\ out' = Append(out, p)
                   /\ p.call = calls /\ p.chunk = qz_in_len
                   /\ p.cnt = req.n - qz_in_len /\ p.at = next_dest
                   /\ qz_in_len' = qz_in_len + (req.n - qz_in_len)
                   /\ next_dest' = next_dest + p.sz
      BY <2>5 DEF Piece
    <3>2. InOrder => InOrder'
      BY <1>1, <2>1, <2>3, <3>1, Written
    <3>3. Ends(out', req'.pin, qz_in_len', next_dest')
      BY <1>1, <3>1, EndsAppend
    <3>4. qz_in_len' = req'.n
      BY <1>1, <2>1, <3>1
    <3>5. ReportsTruth'
      BY <1>1, <2>2, <3>3, <3>4, Reported
    <3>6. QED  BY <2>1, <3>2, <3>5 DEF Told, EndInv, CallInv
  <2>6. QED  BY <1>9, <2>4, <2>5 DEF FinishSW
<1>10. CASE \E r \in Requests : Call(r)
  <2>1. PICK r \in Requests : Call(r)
    BY <1>10
  <2>2. CASE CallHW(r)
    <3>1. /\ caller' = "run" /\ out' = << >> /\ qz_in_len' = 0 /\ next_dest' = 0
      BY <2>2 DEF CallHW
    <3>2. InOrder'
      BY <3>1 DEF InOrder
    <3>3. QED  BY <3>1, <3>2 DEF Told, EndInv, EndsAt, ReportsTruth
  <2>3. CASE CallRefused(r)
    <3>1. /\ caller' = "idle" /\ out' = << >> /\ req' = r
          /\ ret' = [rc |-> "NO_INST", src_len |-> 0, dest_len |-> 0]
      BY <2>1, <2>3 DEF Call, CallRefused
    <3>2. InOrder'
      BY <3>1 DEF InOrder
    <3>3. ret'.rc # "OK" /\ ret'.src_len = 0
      BY <3>1
    <3>4. ReportsTruth'
      BY <1>1, <3>3, Reported
    <3>5. QED  BY <3>1, <3>2, <3>4 DEF Told, EndInv
  <2>4. CASE CallSW(r)
    <3>1. caller' = "idle" /\ req' = r
      BY <2>1, <2>4 DEF Call, CallSW
    <3>2. CASE \E sz \in SwRestSizes(r.n) :
                 /\ out' = <<Piece(calls', 0, r.n, "sw", 0, sz, SwFinal(r))>>
                 /\ ret' = [rc |-> "OK", src_len |-> r.n, dest_len |-> sz]
      <4>1. PICK p : /\ out' = <<p>> /\ p.call = calls' /\ p.chunk = 0 /\ p.at = 0
                     /\ p.cnt = r.n
                     /\ ret'.src_len = r.n /\ ret'.dest_len = p.sz
        BY <3>2 DEF Piece
      <4>2. InOrder'
        BY <4>1 DEF InOrder
      <4>3. Len(out') = 1 /\ out'[1] = p
        BY <4>1
      <4>4. r.n = 0 + r.n /\ p.sz = 0 + p.sz
        BY <1>1, <3>1, <4>1, <4>3 DEF TypeOK, TypeCall, Requested, Pieces
      <4>5. Ends(out', req'.pin, ret'.src_len, ret'.dest_len)
        BY <4>1, <4>3, <4>4 DEF Ends
      <4>6. ReportsTruth'
        BY <1>1, <3>1, <4>1, <4>5, Reported
      <4>7. QED  BY <3>1, <4>2, <4>6 DEF Told, EndInv
    <3>3. CASE \E cnt \in Nat : \E sz \in SwRestSizes(cnt) :
                 /\ out' = IF cnt = 0 THEN << >>
                           ELSE <<Piece(calls', 0, cnt, "sw", 0, sz, FALSE)>>
                 /\ ret' = [rc |-> "FAIL", src_len |-> cnt, dest_len |-> sz]
      <4>1. PICK cnt \in Nat : \E sz \in SwRestSizes(cnt) :
                 /\ out' = IF cnt = 0 THEN << >>
                           ELSE <<Piece(calls', 0, cnt, "sw", 0, sz, FALSE)>>
                 /\ ret' = [rc |-> "FAIL", src_len |-> cnt, dest_len |-> sz]
        BY <3>3
      <4>2. CASE cnt = 0
        <5>1. out' = << >> /\ ret'.src_len = 0 /\ ret'.rc # "OK"
          BY <4>1, <4>2
        <5>2. InOrder'
          BY <5>1 DEF InOrder
        <5>3. ReportsTruth'
          BY <1>1, <5>1, Reported
        <5>4. QED  BY <3>1, <5>2, <5>3 DEF Told, EndInv
      <4>3. CASE cnt # 0
        <5>1. PICK p : /\ out' = <<p>> /\ p.call = calls' /\ p.chunk = 0 /\ p.at = 0
                       /\ p.cnt = cnt
                       /\ ret'.src_len = cnt /\ ret'.dest_len = p.sz
                       /\ ret'.rc # "OK"
          BY <4>1, <4>3 DEF Piece
        <5>2. InOrder'
          BY <5>1 DEF InOrder
        <5>3. Len(out') = 1 /\ out'[1] = p
          BY <5>1
        <5>4. cnt = 0 + cnt /\ p.sz = 0 + p.sz
          BY <1>1, <5>1, <5>3 DEF TypeOK, Pieces
        <5>5. Ends(out', req'.pin, ret'.src_len, ret'.dest_len)
          BY <5>1, <5>3, <5>4 DEF Ends
        <5>6. ReportsTruth'
          BY <1>1, <5>1, <5>5, Reported
        <5>7. QED  BY <3>1, <5>2, <5>6 DEF Told, EndInv
      <4>4. QED  BY <4>2, <4>3
    <3>4. (IF r.fmt = "lz4" THEN {0} ELSE 0..(r.n - 1)) \subseteq Nat
      BY RequestFact
    <3>5. ASSUME NEW cnt \in IF r.fmt = "lz4" THEN {0} ELSE 0..(r.n - 1),
                 \E sz \in SwRestSizes(cnt) :
                     /\ out' = IF cnt = 0 THEN << >>
                               ELSE <<Piece(calls', 0, cnt, "sw", 0, sz, FALSE)>>
                     /\ ret' = [rc |-> "FAIL", src_len |-> cnt, dest_len |-> sz]
          PROVE  Told
      BY <3>3, <3>4, <3>5
    <3>6. QED  BY <2>4, <3>2, <3>5 DEF CallSW
  <2>5. QED  BY <2>1, <2>2, <2>3, <2>4 DEF Call
<1>11. QED
  BY <1>2, <1>3, <1>4, <1>5, <1>6, <1>7, <1>8, <1>9, <1>10
  DEF Next, InNext, OutNext

LEMMA CallInvInit == Init => CallInv
<1> SUFFICES ASSUME Init PROVE CallInv
  OBVIOUS
<1>1. IInv /\ TypeOK
  BY InvInit DEF IInv
<1>2. /\ caller = "idle" /\ calls = 0 /\ hw = {} /\ out = << >>
      /\ pcOut = "done"
      /\ \A k \in Slots : ~Answered(k) /\ lent[k] = {}
  BY DEF Init, Answered
<1>3. FitInv
  <2>1. Within(out, req.dest)
    BY <1>2 DEF Within
  <2>2. QED  BY <1>1, <2>1 DEF Init, FitInv
<1>4. InOrder /\ ReportsTruth
  BY <1>2 DEF InOrder, ReportsTruth
<1>5. QED
  BY <1>1, <1>2, <1>3, <1>4
  DEF CallInv, ReqInv, CountInv, AnswerInv, PinInv, RoomInv, EndInv

LEMMA CallInvStep == NoReset /\ CallInv /\ [Next]_vars => CallInv'
<1> SUFFICES ASSUME NoReset, CallInv, [Next]_vars PROVE CallInv'
  OBVIOUS
<1>1. IInv' /\ FitInv'
  BY InvStep, FitStep DEF CallInv
<1>2. ReqInv' /\ CountInv' /\ AnswerInv' /\ PinInv' /\ RoomInv'
  BY ReqStep, CountStep, AnswerStep, PinStep, RoomStep
<1>3. EndInv' /\ (Ample => InOrder') /\ ReportsTruth'
  BY ToldStep DEF Told
<1>4. QED  BY <1>1, <1>2, <1>3 DEF CallInv, Ample

\* The chunks of a call are in the destination in order, without a gap or a
\* repetition, whichever of the device, the two software fallbacks and the
\* caller compressed each of them (doCompressIn, doCompressOut,
\* compInSWFallback, compOutSWFallback), when the destination is ample.
THEOREM OrderKept == ASSUME NoReset, Ample PROVE Spec => []InOrder
<1>1. CallInv => InOrder
  BY DEF CallInv
<1>2. CallInv /\ [Next]_vars => CallInv'
  BY CallInvStep
<1>3. QED
  BY <1>1, <1>2, CallInvInit, PTL DEF Spec

\* What qzCompressCrcExt reports is what it did, whatever the destination: the
\* consumed chunks are those in the destination, QZ_OK means all of them, and
\* dest_len ends the last one.
THEOREM TruthReported == ASSUME NoReset PROVE Spec => []ReportsTruth
<1>1. CallInv => ReportsTruth
  BY DEF CallInv
<1>2. CallInv /\ [Next]_vars => CallInv'
  BY CallInvStep
<1>3. QED
  BY <1>1, <1>2, CallInvInit, PTL DEF Spec

\* The pieces of a call make one well-formed result, whoever compressed them
\* and whatever failed, for every sequence of calls that close their streams; of
\* a raw stream only when no answer can outlive its call.
THEOREM WellFramedResult ==
    ASSUME Closing, NoReset \/ "raw" \notin Formats
    PROVE  Spec => []WellFramed
<1>1. Init => FrameInv
  <2>1. ASSUME Init PROVE FrameInv
    <3>1. /\ deflate_stat = "null" /\ req.last /\ req.fmt = "gzip" /\ out = << >>
      BY <2>1 DEF Init, NoRequest
    <3>2. QED  BY <2>1, <3>1, TypeInit DEF FrameInv, NoneOpen
  <2>2. QED  BY <2>1
<1>2. FrameInv => WellFramed
  BY DEF FrameInv, Framed, WellFramed
<1>3. CASE "raw" \notin Formats
  <2>1. FrameInv /\ [Next]_vars => FrameInv'
    BY <1>3, FrameStep DEF OwnFlush
  <2>2. QED  BY <1>1, <1>2, <2>1, PTL DEF Spec
<1>4. CASE NoReset
  <2>1. CallInv => OwnFlush
    <3>1. ASSUME CallInv, pcOut = "emit"
          PROVE  res[jOut].fin = HwFinal(res[jOut].seq)
      <4>1. jOut \in Slots /\ Answered(jOut)
        BY <3>1, OutBusy DEF CallInv, OutUpdates
      <4>2. QED  BY <3>1, <4>1 DEF CallInv, AnswerInv
    <3>2. QED  BY <3>1 DEF OwnFlush
  <2>2. FrameInv /\ CallInv /\ [Next]_vars => FrameInv' /\ CallInv'
    BY <1>4, <2>1, FrameStep, CallInvStep
  <2>3. QED  BY <1>1, <1>2, <2>2, CallInvInit, PTL DEF Spec
<1>5. QED  BY <1>3, <1>4

==============================================================================

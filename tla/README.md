# TLA+ models of QATzip

QATzip compresses and decompresses buffers with Intel QuickAssist devices and
falls back to software when a device is missing, busy or dead. Its core is two
pipelines of two threads each that share session counters and per-buffer
cursors without a lock, on top of a driver that answers in any order. Around
them lie an asynchronous API with two more threads, a process-wide part that
opens devices and hands out instances, a stream API, a memory layer and the
data formats. The models in this directory cover all of these. TLC checks them
on small instances; TLAPS proves the main safety properties for every number of
buffers, threads, instances, requests, frames, bytes and calls.

## 1. Inventory

| Part | Source | State | Operations | Hard behaviour | What makes it correct |
|---|---|---|---|---|---|
| Synchronous compression | `qatzip.c` 1483–2097, `qatzip_utils.c` 1034–1206, `qatzip_sw.c` 581–790 | `QzSess_T` (seq, seq_in, submitted, processed, flags, lengths), `QzCpaStream_T` (src1, src2, sink1, sink2, seq, lent pointers) | qzCompress*, doCompressIn, doCompressOut, dcCallback | two threads without a lock, answers out of order, refused and failed requests, device death, short destinations | output complete, in order and contiguous; true report; buffers returned; the call returns |
| Decompression | `qatzip.c` 2103–2671, `qatzip_utils.c` 1209–1532, `qatzip_sw.c` 300–580, 792–890 | the same, plus swapped buffer pointers and the software inflate stream | qzDecompress*, doDecompressIn/Out, checkHeader | as above; in one thread alternating batches; foreign, corrupt and truncated members; a member spread over two calls | as above; no pointer left swapped; `end_of_stream` true |
| Asynchronous API | `qatzip.c` 3103–4196 | request queue, per-request progress, previous request of the polling thread | qzCompress2, qzDecompress2, AsyncReqConsumeJob, Async*In/Out | three threads, direction switches, per-request errors, shutdown | each accepted request called back exactly once, in order, with a true report |
| Request ring | `qatzip_utils.c` 1673–1823 | four indices, places | enqueue, dequeue, clear | lock-free, indices wrap | bounded FIFO |
| Process and devices | `qatzip.c` 132–207, 455–840, 2748–2800 | `g_process`, init status, `g_lock` | qzInit, qzClose, stopQat | concurrent initialisation, retry after failure | sessions find the device they were promised; failed starts are retried |
| Instances | `qatzip.c` 245–453, 846–1474 | lock and heartbeat per instance, its memory and CPA session | qzGrabInstance, qzReleaseInstance, qzSetupHW, qzUpdateCpaSession | test-and-set among threads, events at any time, hand-over between sessions | one holder per instance, who finds it ready |
| Session set-up | `qatzip.c` 1118–1345, `qatzip_utils.c` 343–830 | session parameters, the shared default | qzSetupSession*, qzSetDefaults*, qzGetDefaults* | defaults read without their lock, five structures over one | an implicit session can be made and is what the default says |
| Stream API | `qatzip_stream.c` | pending input and output, buffer lists | qzCompressStream, qzDecompressStream, qzEndStream | partial progress over calls | nothing lost or repeated; the stream gets through |
| Memory | `qatzip_mem.c`, `qatzip_page_table.h`, `qatzip_stream.c` 60–380 | page table, pool of stream buffers | qzMalloc, qzFree, initStream, streamBufferFree | lookups without the lock, lists shared by threads | one owner per buffer, freed once to its own allocator |
| Data formats and bounds | `qatzip_gzip.c`, `qatzip_lz4.c`, `qatzip_utils.c` 845–1030, 1209–1470, `qatzip.c` 2930–3000 | – | header and footer generators, checkHeader, footer searches, qzMaxCompressedLength | look-alike bytes, foreign frames, truncation, integer arithmetic | what was written is found again, inside the bounds |
| Software codecs | `qatzip_sw.c` 77–695 | deflate_stat and inflate_stat of the session | qzSWCompress, qzSWDecompressMulti | streams kept open between calls | members well formed |
| Latency-sensitive mode, counters, tools, tests, xxhash | `qatzip_utils.c` 1556–1616, `qatzip_counter.c`, `utils/`, `test/`, `xxhash.c` | – | – | statistics, I/O, third party | not modelled |

The application calls the session API; a pipeline grabs an instance, cuts the
source into chunks or members, and talks to the driver through
`cpaDcCompressData2`, `cpaDcDecompressData` and `icp_sal_DcPollInstance`, which
runs `dcCallback`. The driver's event thread writes an instance's heartbeat.
The asynchronous API queues requests for a consumer thread that drives the same
stream buffers, with a polling thread of its own. The stream API buffers its
input and output around the synchronous calls. `PROJECT.json` lists the hazards
of this code line by line.

## 2. Modules

| Module | Role |
|---|---|
| `QzCompress` | the synchronous compression pipeline, its properties and the inductive invariant |
| `QzDecompress` | the synchronous decompression pipeline |
| `Qz..._proofs` | the theorems about a module and their inductive invariants: `QzCompress`, `QzDecompress`, `QzAsync`, `QzRing`, `QzProcess`, `QzSession`, `QzStream`; `QzData_proofs` has those about `QzMem` and `QzFormat` |
| `QzAsync` | the asynchronous API over an abstract request queue |
| `QzRing`, `QzQueue` | the request ring and the bounded FIFO it implements, which is the queue of `QzAsync` |
| `QzProcess` | initialisation, sessions and instances of several threads |
| `QzSession` | session parameters and the process-wide default |
| `QzStream` | the stream API's pending input and output |
| `QzMem` | qzMalloc, the page table and the pool of stream buffers |
| `QzFormat` | headers, footers, header checks and the output bound |
| `MC...` | instances for TLC: sets of sources, requests, parameters, and symmetry |

The `.cfg` files of `QzCompress`, `QzRing` and `QzStream` need no MC module: the
constants are numbers and small sets. Operators whose name says what is wrong
with them (`ReadyWithoutSeq`, `FreeEntriesOfHead`, `LZ4HeaderGenWithSizeSwapped`,
...) are faulty variants of their neighbours, used to see that the properties
notice; no specification refers to them.

### QzCompress

State. The variables carry the names of the fields of `QzSess_T` and
`QzCpaStream_T` (`stat` is `thd_sess_stat`, `sseq` the `seq` of a stream buffer,
`avail` is `dest_avail_len`, `lent` the pair `src_need_reset`,
`dest_need_reset`). `pcIn`/`jIn` and `pcOut`/`jOut` are the control points of
the two threads. `hw` is the set of requests the driver holds. `out` is a
history of the pieces written to the destination: which chunk of which call,
by whom, where, how long, and whether it closes the stream.

Actions. `Call` is qzCompressCrcExt up to the start of the threads, `Finish*` the
part behind the join. `In*` are the steps of doCompressIn with compBufferSetup,
compInBufferCleanUp and compInSWFallback; `Out*` those of doCompressOut with
dcCallback, compOutCheckDestLen, compOut*Respond and compOutSWFallback.
`HwComplete`, `FatalError` and `Restarted` are the device and dcEventCallback.
A step is one access to shared state; where several accesses form one step, the
comment at the action says why no other thread can tell. With at most
`req_cnt_thrshold` chunks the second thread is not created and doCompressOut
starts after doCompressIn has ended (`single_thread`).

Abstraction. The source is counted in chunks of `hw_buff_sz`, the destination in
units; a chunk compresses to any of `Sizes`, header (`HdrSz`) and footer
(`FtrSz`) included, and `ChunkDestSz` is DEST_SZ of a chunk. The room told to
the device is the destination or `ChunkDestSz` less the header as compBufferSetup
computes it, in unsigned ints, which wrap at `UIntSz`; a request also carries
how much memory there is behind the pointer the device writes to (`mem`). One
instance is modelled; that none can be grabbed or set up is a fault. A call of
one chunk may be shorter than `input_sz_thrshold` and then goes to software.
When its room runs out, the software compressor fails. Memory accesses are
sequentially consistent. Left out, since no property depends on them: crc32,
`polling_idx` and sleeping, `last_processed`, `total_in`/`total_out`, LZ4S
post-processing and the latency-sensitive branch; also parameter errors and
failed initialisation, which return before anything is changed.

### QzDecompress

The shape of `QzCompress`, with what decompression adds: a source is a sequence
of members of several kinds (intact, corrupt, truncated, without a header), so
`CheckHeader` decides per member between device, software and stop; claiming a
buffer swaps its data pointers (`swapDataBuffer`) and every path must swap them
back; a single thread alternates In and Out in batches; the software inflate
stream of the session survives a call that ends inside a member. One unit of
plain text is one unit of source, and the destination is modelled unit by unit,
so a gap, a repetition or garbage shows. It is followed by `HwBuffSz` units that
the code must not touch, which is what `FitsDestination` looks at. An
end-to-end claim needs a format that says where a member ends: `OkIsComplete`
leaves out zlib and raw deflate, where the device is given the whole source and
takes one stream of it.

### QzAsync

`Submit` and the queue are qzCompress2 and qzDecompress2; `C*` the consumer
thread, `In*` AsyncCompressIn and AsyncDeCompressIn called by it, `Out*` the
polling thread of the current direction. `obj` holds the request objects, which
are freed by their callback; `results` records what each callback said. From
the first answer that is dropped (`dropped`) the code may forget requests or
call them back twice, and the properties claim nothing (see below).

### QzRing and QzQueue

One step per access to the four indices, the places and the semaphore. The
indices are numbers modulo `Modulus` (2^32 in the code) and `Entries` is the
difference read as an `int`. There is one producer, because a session belongs to
one thread (`README.md` of the repository, line 171) and the code enqueues with
`is_single_producer = 1`. The exit of that thread (AsyncCtrlDestructor) ends the
consumer, which clears the ring. What the consumer does with a request is the
subject of `QzAsync`.

The refinement mapping takes a request into the abstract queue when the
producer's tail moves, and out of it when the consumer has read its place; from
then until the consumer's tail moves it is `held`. That is why `QzQueue` may
reject a request while `Len(queue) = Capacity - 1`: the place is still occupied.

### QzProcess

Threads initialise, set up sessions, use an instance, tear down and close, while
the device fails to start, loses instances and restarts. `Init*` are the steps
of qzInit under and outside `g_lock`, with its BACKOUT path; `Grab*` the
test-and-set rounds of qzGrabInstance, where the capabilities and the heartbeat
are read in one step and the lock is taken in the next, so that an instance may
be lost or taken in between; `SetupHW` and `UpdateCpaSession` the first set-up
and the hand-over of an instance, whose sub-steps may fail. What is done to an
instance under its lock is one action. Two details of these are left out: tests
of the wrong pointer in getInstMem (`qatzip.c` 1056, 1085), with which a failed
allocation of that buffer ends the process instead of the set-up, and the
plain free() of memory from qzMalloc when qzUpdateCpaSession cannot initialise
the new session (1466); no property here sees the allocator. Discovery of devices and the
heartbeat polling thread are abstracted to their outcomes.

### QzSession

A parameter structure is a record of the fields the code treats differently.
`Check`, `Set` and `Get` exist for each of the five public structures; the
default is read and written under its lock except for `data_fmt`, and those
reads are steps of their own. `Use` is the rest of a call: the override by a
zlib default, the check of the format and what the footer will hold.

### QzStream

The stream is a row of bytes; the codec turns a byte into a number of tokens
that name it, as far as they fit. `call` holds the locals of the call under way,
`strm` and `buf` the state that survives it. The application is the loop of a
program that copies a file.

### QzMem

An address is a number, a page a few of them. qzMalloc's steps are the test of
`g_table_init`, the initialisation under the lock, the driver's allocation and
the registration page by page; qzFree chooses the deallocator by a lookup
without the lock. `todo` is the set of pages a registration has still to store,
the lowest first. The pool's lists are changed under their locks, one action
each, and the steps of initStream and qzEndStream interleave between them. The
destructor's walk over the two lists is the operator `FreedAll`: it frees the
nodes one after the other, so the second of two nodes with one buffer finds it
gone. The levels of the radix tree are abstracted to the set of registered
pages.

### QzFormat

Memory is sparse: a map from offsets to the structures that begin there, with the
real sizes in bytes. Streams are written by the generators, or by another
program, cut to any length, and read back by isQATProcessable, checkHeader,
findStdGzipFooter and findLZ4Footer. Checksums are not computed.

## 3. Properties and runs

| Run | Instance | Shows |
|---|---|---|
| `compress_fallback` | 2 buffers, threshold 1, up to 3 chunks, 2 calls; grab, submission, retry and job faults, one device death with optional restart | `UpdatesExclusive`: the two threads never update the counters at once; `InOrder`, `WellFramed`: the destination holds the chunks in order, contiguous, in closed members; `BuffersReturned`, `NoFlowError`: the cursors of a buffer always tell its state, and every buffer comes back; `TypeOK` |
| `compress_errors` | 1 call; header of 2, footer of 1, chunks of 4; destinations of 1, shorter than a header, and 5, room for one chunk; raw and gzip, pinned or not, with and without backup, all faults, one death | `ReportsTruth`, `FitsDestination` on every error exit, `CallReturns` under fairness |
| `decompress` | 2 buffers, threshold 1, 5 sources, 4 modes, 2 calls, destination 3; submission, retry, poll and software faults, one death | `ReportsTruth`, `FitsDestination`, `BuffersRestored`, `OkIsComplete`, `EndOfStreamTrue`, and `CallReturns` under fairness |
| `async` | 2 buffers, queue of 2, 3 requests, 5 loads: busy, troubled, without backup, dropping answers, poll failing; exit at any moment | `CalledBackOnce`, `OnlyLiveUsed`, `CallbackTrue`, `CalledInOrder`; under fairness `EveryCalledBack`, `ShutdownCompletes` |
| `ring` | 2 places, 4 requests, indices modulo 6 | `NeverOverwritten`, that `QzRing` implements `QzQueue` (`IsBoundedFIFO`), and `Consumed` under fairness |
| `process` | 2 threads with different parameters, 2 instances, 6 keys, 5 calls, 1 event | `LocksOwned`, `UsedReady`, `DeviceForSession`, `RetriedInTime`, and `CallReturns` under fairness |
| `session` | 2 threads, 9 parameter sets, 2 changes of the default, 3 other calls | `DefaultsUsable`, `FooterTrue`, `ImplicitFormat` |
| `stream` | 9 bytes, buffers of 4, five piece sizes, two room sizes, four expansions, 2 streams | `Conveyed`; `Arrives` under fairness |
| `mem` | 2 threads, pages of 2 addresses, 4 driver and 1 heap addresses, blocks of 1 and 2, free list of 1, 3 calls, 1 fault | `OneOwner`, `FreedOnce`, `PinnedEnds` |
| `format` | all data formats, up to 3 frames, 5 kinds of foreign frames, truncated anywhere between and inside frames, 3 rooms | `FindsFrames`, `ReadsAll`, `BoundHolds` |

Bounds. Two buffers and three chunks are the least with which a pipeline is full
and a chunk waits for a buffer, answers overtake each other, a buffer is reused,
and a software chunk lies between hardware chunks. Two calls show what one
leaves to the next. One chunk exercises `single_thread`. One death with restart
lets the heartbeat change between any two steps and back. Three requests over
two buffers let a request end while one is under way and one waits, and let the
direction change twice. Six indices for two places let the ring wrap at every
offset. Two threads over two instances compete for one and for both, and five
calls are initialisation, set-up and use by both; six keys are more than these
calls can use up. Unsigned ints modulo 64 wrap at a difference below 0 and at
nothing else that the runs add up. A stream buffer of four with pieces from one to nine meets
every relation of piece, room left and buffer. Blocks of one and two addresses
over pages of two make blocks that share a page, fill one and straddle two.

Deadlock is checked except where the system may stop: `process` and `mem` (the
process exits), `session` (bounded calls), `stream` (the streams are complete),
`format` (a stream is read once).

Fairness. `FairSpec` of `QzCompress` and `QzDecompress` assumes weak fairness of
both threads (POSIX scheduling; both loops poll with bounded sleeps), of the
device's answers (the driver answers every accepted request, with a dummy answer
when the device is dead; the comment at `qatzip.c` 1665 relies on it) and of the
caller after the join. Nothing is assumed of the application or of the events. A
retry that never ends is excluded by `MAX_NUM_RETRY`, not by fairness.
`QzAsync` assumes the same of the consumer, the polling thread, the device and
the join; `QzRing` that the consumer is scheduled and that a submission that has
reserved its place goes on; `QzProcess` that a thread inside a call takes its
next step; `QzStream` that the application's loop goes on, which is what the
loop of a copying program does.

### Disagreements between the code and its documentation

| Run | Property | What happens |
|---|---|---|
| `gap_race` | `InOrder` | a chunk that does not fit is counted (`qatzip_utils.c` 1200) before `stop_submitting` is set; the fallback of the other thread slips in between and compresses the next chunk behind the gap |
| `stream_flush` | `Conveyed` | output and input are both pending; once the pending output has been drained with room to spare, new input is copied over input that has not been processed (`qatzip_stream.c` 496). A second way there is the loop itself: an iteration that only flushes leaves `copy_more` at 1, and the next one copies (507) |

### Where the passing runs stop

`ReportsTruth` of `compress_errors` compares lengths only when the chunks are in
order, since that instance reaches the gap of `gap_race`.

These are cases in which the code does not give what the property says; the
passing runs, or the property itself, leave out exactly what triggers them.
Constants that are given here reproduce the case.

Compression.
* The error exit of doCompressOut zeroes the cursors of all buffers, also under a
  half-made claim (`qatzip.c` 1761): a buffer is lost. `BuffersReturned` with
  `DestSizes = {1}`, `MaxChunks = 2`.
* An answer that arrives after the error exit is taken by the next call (1758).
  `InOrder` with two calls, `Sizes = {2, 3}`, `DestSizes = {2, 9}` and job faults
  only; it may close a raw stream in its middle (`WellFramed` with two calls, no
  backup, `Formats = {"raw"}`, job faults).
* In a pinned destination the software output of a failed zero-copy request lies
  one header too far (`Pins = {TRUE}` with `job` in `Faults`); `InOrder` checks
  contiguity and `ReportsTruth` the length only for unpinned destinations.
* A middle chunk in software closes a raw stream, and with `last = 0` leaves a
  gzip member open (`qatzip_sw.c` 728). `WellFramed` speaks of device pieces, and
  the runs with a failing device use `last = 1`.
* compInSWFallback gives a chunk room for DEST_SZ of it (`qatzip_sw.c` 702), not
  what is left, and does not reduce `dest_avail_len`. The part of
  `FitsDestination` about placed pieces stops at the first such chunk.
  `FallbackFits` states what `qatzip.h` 1198 ("Length of destination buffer")
  leads one to expect of it; it is false with `DestSizes = {5, 9}`,
  `Formats = {"gzip"}`, the other constants as in `CompressFallback.cfg`.
* The room told to the device is the destination less the header in unsigned
  arithmetic (`qatzip_utils.c` 1094) and wraps for a destination shorter than a
  header. If that is pinned, the device writes to it (1117-1123), and beyond its
  length, before compOutCheckDestLen looks. The part of `FitsDestination` about
  what the device writes leaves it out; `ShortDestinationKept` does not, and is
  false with the constants of `CompressErrors.cfg`. Longer destinations, and all that
  are not lent, are covered: then the device writes to memory of the library.

Decompression.
* The counterpart of `gap_race` at `qatzip_utils.c` 1526–1527 for a corrupt
  member: `ReportsTruth` covers corrupt sources with a single thread only.
* The error exit of doDecompressOut never swaps the pointers back
  (`qatzip.c` 2400); `BuffersRestored` excludes it (`erred`).
* A block of the 4-byte format does not say how long its plain text is, so
  checkHeader assumes a full buffer (`qatzip_utils.c` 1285) and doDecompressIn
  moves on by it (`qatzip.c` 2232). With two threads, a block that turns out
  shorter and a fallback to software behind it, decompInSWFallback writes at
  that place (`qatzip_sw.c` 792) while `dest_len` counts what was produced: the
  destination has a hole, and its end lies beyond `dest_len`, which `qatzip.h`
  describes as the number of bytes produced. `ReportsTruth` with the mode
  `<<"4b", {}>>` and the source of members `<<1, 1, 2>>` shows it; `MCModes` has
  no 4-byte mode, and the theorems that speak of the destination exclude it.

Asynchronous API.
* From the first dropped answer (a failed job without software, a short
  destination, a wrong checksum, a failed poll) requests may be forgotten or
  called back twice (3273–3330, 3926): nothing is claimed once `dropped` is set.
* Requests queued when the owning thread exits are freed without a callback.
* A request may be called back twice, and used after it was freed, with no answer
  dropped: decompOutProcessedRespond increments `seq_in` (`qatzip_utils.c` 1473)
  before AsyncDecompressOut looks at the request's `req_in_len`. When the device
  dies, decompInSWFallback of the consumer (`qatzip_sw.c` 821) may see
  `seq = seq_in` in between, decompress the last member and call back the
  complete request (`qatzip.c` 3519-3522); the polling thread then finds it
  complete as well. One request of two members is enough: `CalledBackOnce` with a
  load of `D(<<"ok", "ok">>, 2)`, faults `{"event"}`, a window of 1 and
  `sw_backup`. The two threads' `processed++` may also lose an update there. The
  loads of `MCAsync` with a dying device have requests of one member, and one at
  a time.
* With zlib, decompOutCheckSum sets `last_submitted` at the end of a request's
  source (1504), and the polling thread may leave while the consumer goes on; all
  loads have `zlib` FALSE.

Streams.
* `stream` offers rooms of 1 and of 30: pending output then never leaves room to
  spare in the call that drains it, which is what `stream_flush` needs.

Process, session, memory.
* Every failed qzInit uses up a pthread key (676); with `Keys = 2` in
  `Process.cfg` the retries stop and `RetriedInTime` fails.
* A zlib default turns every session into a zlib one without changing its device
  session (1916, 2493), and `zlib_format` never goes back to 0: the exception of
  `FooterTrue`.
* initStream, when its second buffer fails, frees the first but leaves its node
  in the used list, which is freed again at exit (`qatzip_stream.c` 348): the
  constraint `Explored` of `MCMem`.
* `PinnedEnds` is about the first and the last page of a block, the first being
  the one by which qzMemFindAddr knows the pointer qzMalloc returned; of the
  pages between them nothing can be claimed. qzMemRegAddr takes a block for
  registered when its ends are in the table (`qatzip_mem.c` 132), and pages left
  by two shorter blocks are enough: `PinnedWhole` is false with `PageSz = 1`,
  `DriverMem = 3`, `Sizes = {1, 3}` in `Mem.cfg`. qzMemUnRegAddr does nothing,
  so driver and heap must never serve the same page, which the model assumes.

Formats.
* outputFooterGen has no case for DEFLATE_4B and writes an uncounted eight-byte
  footer that the next header overwrites, or that lies behind the end
  (`qatzip_utils.c` 975–995).
* A plain gzip stream has no lengths; `FindsFrames` asks for standard headers,
  no look-alike in the data and no truncation there.

## 4. Proofs

Every theorem holds for all values of the constants that satisfy the named
assumptions of the module; the bounds on calls and faults are constants too, so
it holds for runs of any length. A run of TLC shows the same property on a small
instance.

| Theorem | Property | Under |
|---|---|---|
| `TypeCorrect` | `TypeOK` | every fault |
| `Exclusion`, `Returned`, `NoFlow` | `UpdatesExclusive`, `BuffersReturned`, `NoFlowError` | `NoReset` |
| `DestinationKept` | `FitsDestination` | every fault |
| `WellFramedResult` | `WellFramed` | `Closing`; for raw deflate `NoReset` |
| `OrderKept` | `InOrder` | `NoReset`, `Ample` |
| `TruthReported` | `ReportsTruth` | `NoReset` |
| `BuffersComeBack` | `BuffersRestored` | its own condition |
| `DestinationRespected` | `FitsDestination` of `QzDecompress` | `~erred` |
| `ReportsAreTrue`, `OkIsHonest`, `EndOfStreamIsTrue` | `ReportsTruth`, `OkIsComplete`, `EndOfStreamTrue` of `QzDecompress` | `~erred`, not the 4-byte format |
| `CallbacksHappenOnce`, `RequestsOutliveUse`, `CallbacksInOrder` | `CalledBackOnce`, `OnlyLiveUsed`, `CalledInOrder` | `Offloaded` |
| `CallbacksAreTrue` | `CallbackTrue` | `Offloaded`, until an answer is dropped |
| `NoOverwriting` | `NeverOverwritten` | |
| `RingRefinesQueue` | `IsBoundedFIFO` | |
| `InstanceLocks`, `InstanceReady`, `DeviceOpen` | `LocksOwned`, `UsedReady`, `DeviceForSession` | |
| `TriedAgain` | `RetriedInTime` | while a pthread key is left |
| `DefaultsAccepted`, `FooterChecksum`, `ImplicitSessionFormat` | `DefaultsUsable`, `FooterTrue`, `ImplicitFormat` | |
| `StreamConveys` | `Conveyed` | `InputSpared` |
| `BuffersOwned`, `FreedExactlyOnce` | `OneOwner`, `FreedOnce` | |
| `DriverBlocksPinned` | `PinnedEnds` | |
| `FramesFound` | `FindsFrames` | |
| `BoundKept`, `AllRead` | `BoundHolds`, `ReadsAll` | `Stored` |

Each rests on an inductive invariant, itself a theorem (`ProtocolInvariant`,
`PipelineInvariant`, `RingInvariant`, `ProcessInvariant`, `SessionInvariant`,
`MemInvariant`) or a lemma pair, and the step lemmas treat one action each. The
assumptions:

* `NumBuffAssumption`, `ThrsholdAssumption`, `BoundsAssumption` of `QzCompress`:
  at least one buffer, numbers are naturals.
* `DecompressAssumption` of `QzDecompress`: the same, and a source is a sequence
  of members with a positive size.
* `AsyncAssumption` of `QzAsync`: at least one buffer and a place in the queue; a
  load is a record of what an application can ask, and a source has at least one
  chunk or member (qzCompress2 and qzDecompress2 of an empty source are not
  modelled).
* `RingAssumption`: the range of the indices is a multiple of the capacity (2^32
  and `DEFAULT_ASYNC_QUEUE_SIZE`, 1024, in the code) and leaves room for a
  difference of `Capacity + 1` below half of it, where the code reads it as an
  `int`; the null request is not a request.
* `ProcessConstants`, `SessionConstants`, `StreamConstants`, `MemConstants`: the
  numbers are naturals, thresholds unsigned, sizes positive; what an application
  offers is a parameter record of the API it calls; the driver's addresses end
  at a page boundary, so that driver and heap share no page.
* `FormatConstants` of `QzFormat`: the formats are those of the library, a chunk
  is at most `HwBuffSz`, and that is at least 1024 (`QZ_HW_BUFF_MIN_SZ`).

### The compression pipeline

`NoReset` says that doCompressOut's error exit cannot be reached: polls and
software do not fail, the backup is enabled, and every destination has room for
one chunk. The assumption is needed: the lost buffer and the late answer of
section 3 refute the conclusions without it. Refused submissions, failed jobs,
device deaths, destinations too short for the whole result, pinned memory and
all formats are covered.

`UpdatesExclusive` is not inductive. When doCompressIn finds `seq = seq_in` it may
start; that doCompressOut then has nothing to match needs that no buffer carries
a request with number `seq_in`. `IInv` therefore ties together

* `CursorInv`: each buffer is free, held by doCompressIn, in flight or answered,
  and its cursors say which;
* `DeviceInv`: the driver has one request per buffer in flight and none of a
  buffer that is held;
* `SeqInv`: requests under way carry different numbers from `seq_in` to
  `seq - 1`; `processed = seq_in`, `submitted = seq` up to the step in which a
  software chunk is counted;
* `LentInv`: memory of the application stays with a buffer only while it
  carries a request;
* `ControlInv`: what each control point implies, in particular that
  doCompressOut works on a buffer only while it is the one that matches.

From `SeqInv`, `seq = seq_in` leaves no carrying buffer (`AllFree`), and with
`ControlInv` doCompressOut cannot be in its update section (`OutBusy`).

`FitsDestination` needs no condition, not even that the threads exclude each
other; a lent destination shorter than a header is left out by the property
itself (section 3). `LentFits` is its first half: the room of a request is at
most the memory behind the pointer, because the room does not wrap when the
destination holds a header, and because the buffers of the library hold
DEST_SZ. `FitInv` is the second and follows the room: as long as only the device
has written, `next_dest` plus the piece that compOutCheckDestLen has let through
(`Owed`) is at most what `dest_avail_len` says is used. The first software piece of
doCompressIn breaks this, and the property claims nothing from there on.

`WellFramedResult` is for applications that close their streams, or use raw
deflate (`Closing`); with `last = 0` a software piece leaves a gzip member open
(section 3). `FrameInv` adds that no software stream is open between calls.
For gzip and lz4 that is enough, through resets and late answers. A raw answer
carries the flush flag of the call that asked for it: that the piece with the
flag is the last one of this call needs `AnswerInv`, hence `NoReset`, and a late
answer is a counterexample without it.

`CallInv` is what a call leaves behind, on top of `IInv` and `FitInv`:

* `ReqInv`, `CountInv`: doCompressIn ends with all the chunks or with
  `stop_submitting` and an error; the chunks in the destination are those in
  `seq_in`, up to the one being counted, as long as nothing was dropped;
* `AnswerInv`, `PinInv`: an answer belongs to this call and to the chunk its
  buffer carries, so the piece doCompressOut writes is chunk `seq_in`, and it is
  written to `next_dest` unless memory is lent;
* `RoomInv`: an ample destination is never found short (`RoomEnough`);
* `EndInv`: a gapless destination ends at `qz_in_len` and `next_dest`.

`OrderKept` needs `Ample`, room for every chunk at its largest, as
`qzMaxCompressedLength` gives: with less, `gap_race` is a counterexample. Without
`NoReset` the late answer of section 3 is one. `TruthReported` holds for every
destination, since the property claims the lengths only for gapless
destinations; that QZ_OK means all the chunks rests on `stop_submitting` never
being set with `stat = QZ_OK`.
The instance of `compress_fallback` satisfies all three assumptions;
`compress_errors` checks `ReportsTruth` outside `NoReset` too, for one call.

### The decompression pipeline

The error exit of doDecompressOut frees the stream buffers while the driver
still works on them, and afterwards nothing ties an answer to a request. Every
statement here is therefore about a process that has not taken that exit:
`erred` is the history variable of the model that says so, and
`PipelineInvariant` is `Spec => [](~erred => Inv)`. Everything else is covered:
refused and failed requests, corrupt, truncated and foreign members, device
deaths, short destinations, pinned memory, both threads and one.

`Inv` is the protocol.

* `SlotInv`: each stream buffer is unused, held by doDecompressIn, in flight or
  answered, its cursors say which, and the driver has one request of it exactly
  in flight;
* `SeqInv`: the requests under way, in flight or answered (`Live`), carry each of
  the numbers from `seq_in` to the next to be given once. doDecompressIn falls
  back to software only when `seq = seq_in`, hence with none under way;
* `LastInv`: doDecompressOut of two threads never leaves before doDecompressIn.
  It compares `seq` with `seq_in` without a lock, between the submission of the
  last member and the increment of `seq`, when they may be anything: what saves
  the loop is that nothing is left of the source then;
* `WholeInv`: a zlib or raw stream is one request;
* `PtrInv`: the data pointers of a buffer are lent exactly while it is in use, so
  an unused buffer has its own (`BuffersComeBack`);
* `SpaceInv`: requests under way lie one behind the other between what has been
  counted and the place of the next, in the source and in the destination;
* `FitInv`: what lies behind the destination has not been touched. It rests on
  `SpaceInv`: the room of each request ends inside the destination.

`ExactInv` is about the text, and needs `Inv`.

* `ChainInv`: the requests are not only in order but touch, from `in_len` and
  `out_len` of the session to the place of the next one. This holds while the
  counters can be trusted (`Trusted`): a corrupt answer is taken off without
  being counted, and from there on they cannot, until the batch of a single
  thread has ended. It never holds for the 4-byte format (section 3), which
  `ExactInv` leaves out;
* `LentInv`, `PrefixInv`: what the device has written into lent memory stays
  there until it is counted, and what has been counted is in the destination, in
  order. For two threads this needs a source without a corrupt member, as the
  property does;
* `StatInv`, `DoneInv`: what a failure of one thread does to the other, and why
  doDecompressIn has returned;
* `FailInv`: a status that sends the caller to the fallback behind the join leaves
  something of source and destination to work on, and a stream given whole to
  the device has not been counted before;
* `EosInv`: an inflate stream that is open has seen no end yet, and then nothing
  is in flight and no further request is submitted. `end_of_stream` is set by
  three places (both fallbacks and doDecompressOut), and the last one to count
  anything must be the last one to set it;
* `TruthInv`, `CompleteInv`, `EndInv`: the three properties.

`FailInv` and `EosInv` were found by looking for what the steps of the properties
lack; TLC checked them on the instance of `decompress`, and on gzip, raw and zlib
with failing jobs and with `stop_decompression_stream_end`, before they were
proved.

The members of a source end where a recursive function (`EndOf`) says. What it
computes is proved by a least counterexample: `NatLeast`, that every set of
naturals that is not empty has a least element, follows from the library's
theorem that the subset ordering of finite sets is well-founded.

### The asynchronous API

`Offloaded` is a condition on the loads: the consumer never has to decompress
in software and never gives a request up. Members have headers and fit the
device and the destination, submissions are accepted, the device does not die
and, when decompression jobs fail, software does not stand in. The double
callback of section 3 is why: with two threads that both complete a request the
conclusions are false. Left in are any number of requests, buffers, chunks and
members, in both directions, without an instance for any time, with failing
jobs and polls, wrong checksums, destinations too short for a compression, and
an exit of the application at any step. `Busy`, `Dropping` and `Unpolled` of
`MCAsync` satisfy it.

`IndInv` is `~dropped => Inv`: the first dropped answer ends what is claimed, as
in the properties. A unit that has been submitted and not taken off is a ticket
(`Tickets`): which request, which unit, in which slot, with which number.

* `SlotInv`: cursors, device and jobs of a slot agree;
* `SeqInv`: the numbers from `seq_in` to `seq` are exactly those of the tickets,
  once each. Between the submission and the tail of the loop `seq` lags behind;
  `NextSeq` says what it will be;
* `CountInv`: `processed` is `seq_in`, but for the moment between the two in
  decompression; the polling thread has left only when everything submitted was
  answered. So the reset of the counters at a change of direction meets no
  ticket;
* `QueueInv`: the consumer is at request `Taken`, and the queue holds the
  requests behind it in order;
* `LengthInv`: a request is called back once, is live until then, and `in_len`
  says how much of its output is there;
* `OrderInv`, `HeadInv`, `TailInv`: the tickets in the order of their numbers are
  consecutive units of consecutive requests; the first follows what has been
  delivered, the last is where the consumer is. `IdleInv` says the same when
  there is none.

An answer with number `seq_in` is therefore the next unit of the oldest request
that has not been called back, which gives order and contents at once; that
the polling thread takes a request for complete when the lengths agree is right
because its last unit is the last ticket of the request. `OnlyLiveUsed` follows:
the request of a ticket has not been called back (`TicketInv`).
TLC checked the whole invariant on loads of this kind before it was proved.

### The request ring

`NeverOverwritten` speaks of one place; that it is empty when the producer writes
it depends on where the two pairs of indices stand, and they wrap. `RInv` counts
the distances modulo `Modulus`: from the oldest request that has not been read
(`First`) on, the places are, in this order, the queued requests, the one being
written or published, and empty ones, `Capacity` in all (`HoldsInv`); head and
tail of an end differ by one exactly while that end is at work (`ProdInv`,
`ConsInv`); and the distances never exceed the capacity (`BoundInv`).

For the refinement, `RingRefinesQueue` shows that a step maps to a step of
`QzQueue` or to a stutter: publishing the tail appends to the queue, reading a
place takes its head, and everything else leaves the abstract state as it is.
That a rejection is allowed follows from `BoundInv`. The mapped initial state is
the abstract one.

### Process, instances and sessions

The hint to use hardware is taken from `g_process` under `g_lock`, but used
without it. `PInv` says why that is sound: only the holder of the lock changes
what qzInit builds, and only while the status is not OK (`OpenInv`); once OK, it
stays OK until the destructor, which runs when no call is under way
(`SessInv`). Of an instance only the lock's holder changes more than the
heartbeat (`InstInv`, `ReadyInv`), so what it has set up is still there when it
uses the instance. `WaitInv` and `TryInv` relate the retry counter to the calls
since the last attempt.

`TriedAgain` is `Spec => [](g.keys > 0 => RetriedInTime)`. The condition is the
pthread key that each failed qzInit uses up (section 3): without a key no attempt
is made.

`DInv` says that the default can be set up through each of the five structures
(`Usable`), that a thread inside a call has read such a default (`CallInv`), and
that while no zlib default was ever set each session's checksum agrees with its
format (`SumInv`). It is preserved because every function that writes the default
has checked what it writes and leaves the other fields alone.

### Streams

`Sound` says where the pending input lies in the input buffer at each control
point, and that what the application received and what is pending in the output
buffer are together the tokens of the bytes up to `n`, while the pending input
is the bytes from `n + 1` on; that is the invariant of a loop over a buffer that
is shifted, refilled and drained at different control points. It claims nothing
after a call has failed.

`InputSpared` excludes the steps of `stream_flush` and no others: copying new
input onto pending input after the pending output has been drained in the same
call. It holds in every state of the run `stream`. `StreamConveys` is
`Spec /\ []InputSpared => []Conveyed`.

### Memory

The invariant follows the addresses. A thread has some for itself (`Priv`: the
application's block, the block qzMalloc has just obtained) and some of the pool
(`Strm`: the buffers of its stream, the one it has just taken). Those of two
threads are disjoint (`Apart`), the first are live and in no list, the second in
the used list and large enough (`Local`), the lists are disjoint and name live
blocks (`PoolOK`), and every live block is held or listed (`Covered`). The table
holds only pages of the driver, and the first page of each of its blocks that is
not just being registered (`TableOK`, `Registered`), so a lookup without the
lock chooses the right deallocator. `MInv` claims nothing once a half made set-up
was undone, as the properties do (section 3).

`PinnedEnds` says the same of the last page: when qzMemRegAddr stores nothing,
both ends are known already, and otherwise the pages from the first on are
stored before the block is handed out, the last one among them. It holds for
blocks of any size. That the pages between are known does not follow, and
the false `PinnedWhole` says it (section 3).

### Data formats

`FInv` describes memory from the writer's side and a call from the reader's.

* `Layout`: frames lie one behind the other from 0 to `len` and each is what its
  writer makes of it (`FrameOf`): the header, the blocks of an LZ4 frame and the
  footer are in memory at their places, and nothing else in the frame is a
  structure, but a look-alike in the payload of a plain gzip member. The 4-byte
  format leaves one uncounted footer behind the end (section 3; `Footers`);
* `Writers`: which frames a session of each format can hold. With a first frame
  of another program qzDecompress changes the format of the session, so this is
  not a matter of `fmt` alone;
* `Reading`: in the streams for which the property claims it (`Regular`), the
  position is where as many frames end as have been delivered, each with the
  sizes that were written.

A step of the reader works out the sizes of the frame at its position
(`SizesExact`): from the extra field, from the next plain header, or by
walking over LZ4 blocks. The walk is a recursive function; that
it stops at the end of the frame, and not before, is proved along the blocks
(`LZ4Footer`), of which a frame of the model has at most two. `MinOfPair` and its
neighbours relate `Min` of `FiniteSetsExt` to the least structure behind a header.

`BoundHolds` compares a sum over all chunks with a bound that counts one header
and footer only. `Expansion` is the inductive form: eight times the output is at
most nine times the plain text as long as every chunk was full, and at most 640
more with a short last one, and 640 is what the bound adds in any case. A full
chunk has 1024 bytes or more, so an eighth of it pays for the header, the footer
and the headers of its stored blocks. What the device may produce is a constant of
the model, so the theorem needs `Stored`: not more than the plain text and five
bytes for each stored block (65535 bytes at most) begun. Without such a limit no
bound can hold. `AllRead` needs the same, because checkHeader leaves to the software
a frame that is larger than the buffer (`DestSz`); frames that the session
wrote are never refused for their size. The outputs of the run `format` satisfy
`Stored`.

The points at which an application cuts a stream (`Cuts`) are a choice of the
model; the proof uses only that they lie inside the stream.

### Only model-checked

* Liveness (`CallReturns`, `Consumed`, `EveryCalledBack`, `ShutdownCompletes`,
  `Arrives`) is out of the prover's reach.
* `QzDecompress` after the error exit of doDecompressOut and, for what is in the
  destination, with the 4-byte format: there the properties fail or claim less
  (section 3).
* `QzAsync` outside `Offloaded`: the run checks refused submissions, device
  deaths, members without a header and software decompression by the consumer
  with one request of one unit at a time, which is where they hold (section 3).

## 5. Not modelled, and what is left

* The latency-sensitive mode chooses between two paths that are both modelled, by
  averages of measured times; no property depends on which.
* Counters, debug lists, logging and the printing of statistics.
* `xxhash.c` (third party), crc values, and the codecs: zlib, lz4 and the device
  are external and modelled by their outcomes.
* LZ4S post-processing, a callback of the application on a finished chunk.
* Discovery of devices and their capabilities, and the heartbeat polling thread:
  an instance comes up or not, and its heartbeat changes at any time.
* The output bounds of a session, which add what the driver computes.
* The command-line tools and the 7z archive layout (file I/O around the library),
  the public headers (declarations) and the test programs.

Worth doing next: an abstract specification of a call (a prefix of the chunks,
in order) that both pipelines implement; `QzAsync` with software decompression by
the consumer, for requests of one member.

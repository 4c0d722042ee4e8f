# umdgw: a verification project in TLA+

umdgw is a market data gateway in C++ on Boost.Asio. It connects to an upstream
gateway of the exchange, logs on, decodes the binary frames it receives, and is
meant to hand messages between threads through lock-free pipes. This directory
holds TLA+ models of its parts, TLC configurations that check them, and proofs
checked by TLAPS. Line numbers refer to the files in src/src/.

## 1. Inventory

| Component | Source | State | Operations |
|---|---|---|---|
| Queue | spsc_queue.hpp:160-342 | `w_item_`, `f_item_` (writer), `r_item_` (reader), `contention_` (atomic, shared) | Init, Write, Unwrite, Flush, CheckRead, Read, Probe |
| Storage of the queue | spsc_queue.hpp:20-158 | a list of chunks, three cursors, `spare_chunk_` (atomic, shared) | Init, Front, Back, Push, Unpush, Pop, destructor |
| Pipe | pipe.hpp, pipe.cpp | two queues, `terminated_`, `peer_terminated_`, `peer_`, listener, mutex, condition | CreatePipePair, Write (two), Unwrite, CheckRead, Read, Terminate, Releasemessage_t, Recyclemessage_t, destructor |
| Message allocator | message.hpp, message_allocator.* | 18 free lists, the idle queue, `enable_recycle_` | Init, Allocate, Release, Recycle, ConsumeIdleQueue, destructor |
| Session | szBinary_input_service.*, service.hpp | input buffer, counters, last receive time, decoder, encoder | init, run, connect, read, write and timer handlers, message handler, logon, logout, heartbeat |
| Socket wrapper | socket.hpp, socket_t.cpp | the asio socket, a map of timers, remote endpoint | init, connect, bind, async_read, async_write, setTimer, cancelTimer, close, one handler each |
| Decoder | szBinary_decoder.hpp | HEAD/BODY/TAIL, body size, bytes collected | decode, consume, reset, checksum |
| Encoder | szBinary_encoder.hpp | two buffers and which of them waits and which is written | encode, flush, reset |
| io_service pool, context | io_service_pool.*, ctx.* | services, threads, round-robin index | run, stop, getNextService, createSocket |
| Others | wire.hpp, memory_allocator.hpp, message_define.hpp, config.hpp, main.cpp, output stubs | none, or used by nothing | conversions, Ensure, main |

How they interact. The session owns a socket, and the socket holds the session:
each asynchronous completion runs a handler of the socket, which drops aborted
operations and calls the handler of the session; the session's handlers start
the next operations. All of that runs on the one thread of the session's
io_service; the first doConnect runs on the main thread before that thread
exists. Read bytes go to the decoder, which calls the session back for every
frame. A pipe has two ends on two threads; each direction is a queue, and a
writer wakes the reading end through `peer_`. Each end owns an allocator, and
the other end gives messages back through the allocator's idle queue, again a
queue of the same class. Pipes are not yet created by any other code of the
repository; they are modelled by what their interface permits.

What is hard, and what makes each part correct:

- Queue: two threads, one atomic word, and a plain store where the code argues
  that the other thread is asleep. Correct when it is a FIFO channel with an
  atomic flush and no lost wakeup.
- Storage: memory is freed by one thread and reused by the other. Correct when
  each chunk has one owner and no reused address confuses a comparison; malloc
  can fail in Init and in the middle of a write.
- Pipe: condition variable and listener beside a lock-free queue; termination
  in band. Correct when no reader sleeps on a message, and the end of the stream
  is the end of it.
- Allocator: messages change owner across threads, back and forth, while either
  end may be destroyed; size classes by bit tricks. Correct when each message is
  in one place, goes back to the list it came from, and has the room asked for.
- Pair of pipes: the two ends refer to each other and only Terminate breaks the
  cycle. Correct when one Terminate frees both, and no call meets an end that
  is gone.
- Session and socket: completions of a closed connection, timers whose handler
  is already queued, errors reported twice. Correct when the session is never
  stranded, reconnects after each loss, and leaves a healthy connection alone.
- Decoder: arbitrary chunking, and errors in the middle of a chunk.
- Encoder: two buffers, reused while a write that is not copied is outstanding.
  Correct when the server gets whole messages, the logon first.

The complete list of hazards, each at its line, is in PROJECT.json.

## 2. Plan

| Order | Module | Composes | Abstract view | State |
|---|---|---|---|---|
| 1 | SpscQueue | - | Channel | checked, proved |
| 2 | ChunkedSpscQueue | BatchQueue | SpscQueue, Channel | checked, proved |
| 3 | Pipe | SpscQueue | Channel | checked, proved |
| 4 | InputSession | AsioSocket | a link that is up, down, or being set up | checked, proved |
| 5 | Decoder | - | a stream of frames | checked, proved |
| 6 | PipePair | MessageAllocator | ownership of messages and of the two ends | checked, proved |
| 7 | WritePath | Encoder, InputSession | what the peer of a connection is sent | checked, proved |
| 8 | SessionLink | InputSession | the link of a session, with the refinement proved | next |
| 9 | Heartbeat, with a clock | session's timers | the peer never waits longer than a bound | later |

"Proved" means every safety property a run checks; liveness is checked by TLC.

## 3. Modules and code

Eleven modules model code, one states what a queue promises, three configure
TLC and eight hold proofs.

`Channel` is the abstract queue: staged items, committed items, taken items and
whether the reader sleeps. It knows nothing of slots or pointers.

`SpscQueue` is spsc_queue.hpp:160-342 over an unbounded array of slots. One
action is one access to `contention_` with the thread-local work around it.
Write, Unwrite, Prefetch (the part of CheckRead that asks the shared word) and
Pop are one step each. Flush is FlushCas, and FlushStore when the
compare-and-swap failed, so everything the reader can do happens between the
two. The compare-and-swap's effect on its `expected` argument (w_item becomes
NULL) is kept.

`BatchQueue` is spsc_queue.hpp:20-158: a heap (a function on the allocated
addresses), cursors, the spare chunk. malloc may return any free address. Push
and Pop are split at their atomic exchange. `ChunkedSpscQueue` puts the queue's
operations on top, with the addresses the program compares; its history
variable `accepted` and the field `first` of a chunk say which position an
address stands for. malloc may fail where the code calls it: in Push (PushFails)
and in Init (InitFails), whose result SpscQueue::Init ignores. Then every cursor
and pointer is NULL (the position in a chunk that is null is not told apart), the
comparisons of the code find the queue empty, and a Write stores through null:
WriteToNull, after which the program is gone (`crashed`). The runs with a failing
malloc therefore do not check deadlock. `MCChunkedSpscQueue` adds the symmetry of addresses.

`Pipe` is one direction of pipe.cpp. The queue is an instance of `SpscQueue`
whose steps are taken by the two program counters `writer` and `reader`. The
mutex is held by the reader in "checking" and "checkingAgain"; the writer takes
it only for notify_all, one step. Read has its three timeouts (none, a
positive one, negative), spurious wakeups and late notifications. `parts` and
`result` are history. Both overloads of Write are the action Write.

`AsioSocket` is socket_t.cpp with the io_service below it. Calls of the program
(SetTimer, CancelTimer, AsyncRead, AsyncWrite, AsyncConnect) are operators from
one state of the socket to the next, because a handler makes several of them.
What Boost.Asio, the kernel and the peer do is the action Environment. Each
operation is reported once, in a FIFO queue that one thread works off. A
completion that is queued is not taken back by a cancel or a close; it is
delivered late. `current` (history) says whether a completion belongs to the
connection of now; the program has no such information.

`InputSession` is szBinary_input_service.cpp: each handler is an action that
takes the head of the queue. handleRead alone is three actions (HandleRead,
HandleMessage for every frame the decoder reports, DoRead), because network
events are queued while it runs. Aborted completions are dropped (Drop), as the
four handlers of socket_t do. NoDelayFails is the path of connnectHandle that
destroys the socket and reports success; the process ends there (link "null"),
so the run that includes it does not check deadlock. ReconnectUnresolved is a
connect whose address cannot be resolved, which calls handleConnect at once.

`MessageAllocator` is message_allocator.cpp with the messages on the heap. A
free list is a sequence; the idle queue is the Channel that SpscQueue
implements, so Recycle, which writes and flushes, is one step. Allocate is one
step when it finds a free list filled, and else several, one for each message
ConsumeIdleQueue takes, because the other thread recycles meanwhile. The size
class is computed as the code does it: bits set below the highest one, the
multiplication in 32 bits, the table. A message of class i gets
2^(start + index + 1) bytes (message_allocator.cpp:70); the comment on the
lists (message_allocator.hpp:52) gives half of that, which would be too small
and is the mutant of MessageFits. The class is the first one whose messages are
larger than what is asked for (FirstClassAbove): 64 gets 128 bytes, though the
messages of class 0 have 64.

`PipePair` puts it between two ends: Write, Unwrite, Read, Terminate,
Releasemessage_t, Recyclemessage_t and the application letting go of an end,
each by the thread of that end, in both directions. What Pipe shows in detail
(the queue's steps, waiting, the listener) is atomic here, or left out.
Terminate is two steps, for the other thread may run between the flush of the
null message and the release of `peer_`. An end is destroyed by the step that
drops the last reference (Gone), with its queue, its lists, and the other end if
only this one held it. A call through a null pointer or on a deleted queue sets
`fault`, and nothing follows it. Held says which messages each end has in which
place: its queue, its idle queue, its free lists, allocated and not sent, read
and not given back, or leaked: pipe_t's destructor deletes the queue and not the
messages in it (`leaked` is history). `MCPipePair` adds the symmetry of messages and
of ends, which nothing in the module tells apart, and compares the size class
with its definition next to every power of two.

`Encoder` is szBinary_encoder.hpp as operators on its state. A buffer is its
memory and its size, for `clear` leaves the bytes. encode appends to the wait
buffer, but converts the header and sums the bytes at its beginning: with
another message in the buffer the new one would be left in host order. That this
does not happen is a consequence of flush behind every encode, not assumed.

`WritePath` is what the session sends: the instance S of InputSession, each of
whose steps here also does what it does to the encoder and the writes. A write
points into a buffer; the kernel takes it part by part (two parts), from the
memory as it is then. A write may get between the parts of another one, because
async_write is a series of async_write_some, each of which waits in the socket's
queue. `wire` is what the peer was sent on this connection; `later` counts the
messages encoded since a write was started. `MCWritePath` has a view for TLC
without what no later step and no property reads.

`Decoder` is szBinary_decoder.hpp. A byte is its position in the stream; a frame
is the length in its header and whether its checksum is right. At a position
where no frame begins the decoder may find any length and any checksum. `fresh`
and `handled` are history.

## 4. Runs

| Run | Module, cfg | Properties | Bounds | States |
|---|---|---|---|---|
| spsc_queue | SpscQueue | TypeOK, ReaderSlotIsSettled, SleeperConsumedAll, StoreIsUncontended, ImplementsChannel, FlushedIsRead | 2 items, 5 slots | 10,491 |
| chunked_queue | MCChunkedSpscQueue, ChunkedSpscQueue.cfg | TypeOK, EveryChunkHasOneOwner, ImplementsSpscQueue | chunks of 2, 4 addresses, 6 items | 165,125 |
| malloc_failure | MCChunkedSpscQueue, MallocFailure.cfg | EveryChunkHasOneOwner, IntegrityHolds, ReadIsInOrder | 5 items, malloc may fail | 317,257 |
| init_failure | MCChunkedSpscQueue, InitFailure.cfg | InitializedIsUsable (violated) | 4 items, malloc may fail | stops at the violation |
| lost_write | MCChunkedSpscQueue, LostWrite.cfg | AcceptedIsKept (violated) | 4 items, malloc may fail | stops at the violation |
| pipe | Pipe | TypeOK, NoLostWakeup, ActivationIsNotLost, EndIsTheEnd, BlockedReadReturns, TimedReadReturns | 2 messages, 3 writes and the terminator | 107,471 |
| partial_message | Pipe, PartialMessage.cfg | EndFollowsAWholeMessage (violated) | 2 messages | stops at the violation |
| input_session | InputSession | TypeOK, NeverStranded, InputBufferHasOneUser, HealthyIsKept, LoggedOnIsWatched, LossIsRepaired, LogoutIsFollowed | queue 3, 1 frame per chunk, 2 writes | 251,219 |
| decoder | Decoder | TypeOK, FramesAreHandled, DecodeReturns | head 2, tail 2, bodies up to 2, 3 frames, chunks up to 6 | 84,358 |
| pipe_pair | MCPipePair, PipePair.cfg | TypeOK, EveryMessageHasOneOwner, MessageFits, StaleWasRead, FaultsOnlyAfterTerminate, OneTerminateFreesThePair | 3 messages, capacities 63, 64 and one too big to be kept | 792,289 |
| recycle_after_terminate | MCPipePair, RecycleAfterTerminate.cfg | ReadIsRecyclable (violated) | 3 messages, 2 capacities | stops at the violation |
| write_path | MCWritePath, WritePath.cfg | TypeOK, OutstandingIsIntact, WireIsWhole, LogonComesFirst | queue 2, 1 frame, 2 writes, 5 sends | 1,566,357 |

What they show.

- spsc_queue: in all interleavings the queue is a channel with an atomic flush.
  A message becomes visible as a whole, a sleeping reader missed nothing, and
  the plain store after a failed compare-and-swap overwrites nothing. Five slots
  are enough for two messages of two items with Unwrite, Flush and a prefetched
  item in flight at the same time; the theorems drop the bound.
- chunked_queue: recycling chunks through the spare place, and through free and
  malloc, changes nothing about that: the address queue implements the queue of
  positions. Each chunk has one owner and the destructor frees each once.
  Chunks of two slots reach every boundary (N = 256 in pipe.hpp); six items
  fill three chunks, so every chunk is retired, spared, taken and linked again.
- malloc_failure: when malloc fails in a Push nothing is corrupted or leaked, and
  what is read was written, in order and once. When it fails in Init, nothing gets
  into the queue, and only then can the program crash.
- init_failure: it does crash then. The comment says that Init may fail; it never
  reports that, and the first Write goes through a null pointer (finding).
- lost_write: an item Write accepted can be lost, although the comments say
  that Write "may fail on memory allocation": it never does (finding). The item
  of the Write whose Push fails keeps its slot; the Write behind it is the one
  that is lost.
- pipe: no reader waits for a message that was already flushed, no listener misses the
  activation, the end of the stream comes last.
- partial_message: Terminate flushes an unfinished message, which the comment of
  Write excludes (finding).
- input_session: whatever is queued in whatever order, the session has something
  outstanding that makes it go on; the heartbeat timer of a logged-on session
  runs. HealthyIsKept and InputBufferHasOneUser state the exceptions the code
  has: a completion of an earlier connection, or a heartbeat timer that outlived
  it, may tear the new connection down, and may start a second read into
  inputBuffer_, because no handler knows which connection it is called for. They
  also state that nothing else does. A queue of three holds a timer's expiry, an
  error and an aborted completion together; the theorems drop the bounds. Every
  loss leads to a new attempt, and so does every logout, unless the server goes on sending logouts for ever: each sets the reconnect
  timer anew (szBinary_input_service.cpp:207-211). Without that exception TLC
  finds the session that is logged out time and again and stays as it is. One
  frame per chunk lets the chunks follow each other with every mix of messages.
- decoder: each frame is handled once, in order, as soon as it is complete, for
  every way of cutting the stream. After a checksum error the decoder is back
  in step only if that chunk ended where a frame ends; FramesAreHandled says
  exactly that much. TypeOK bounds what is read and collected.
- pipe_pair: whatever the two threads do, each message is in one place, is freed
  once, and comes back to the allocator and the list it was taken from; it has
  room for what it was asked for; and old contents in a free list come from a
  message that was read at the other end (Release clears a message, the way
  through the idle queue does not). One Terminate is enough to free both ends.
  An end that is not terminated never meets a peer or a queue that is gone; one
  that is can, in Unwrite and Recyclemessage_t, which do not look (hazards).
  63 and 64 are on either side of the first class; three messages allow one in
  each direction, one recycled and one allocated meanwhile. Allocate waits when
  all three addresses are in use: that is the bound, not the code.
- recycle_after_terminate: an end that terminates while it holds messages it has
  read has no peer to give them back to, though pipe.hpp:65-66 asks for it
  (finding).
- write_path: a buffer that the socket sends from is left alone until the second
  message after it. On a connection where no write was started behind another
  one the server gets whole, well encoded messages, the logon first and once.
  The exceptions are the code's: nothing waits for a write before the next one
  (`overlapped`), so a heartbeat may get between the parts of another message or
  reuse its buffer; and a heartbeat timer or a completion left over from an
  earlier connection may send or report on this one (`disturbed`). Two writes
  outstanding reach the overlap, a third the reuse of a buffer; five sends see
  the logon, heartbeats before and behind it, and a write cut by a failure.

Each property has a mutant, an operator with a plausible bug that stands before
the operator it replaces; with it TLC finds the property violated.

## 5. Fairness

- SpscQueue: a Flush that has begun ends (no loop, no lock), and the reader
  polls, as message_allocator_t::ConsumeIdleQueue does. No fairness on Write.
- Pipe: a thread inside a call goes on; nobody is obliged to call. The wait
  with a positive timeout ends; spurious wakeups are allowed, not required.
- InputSession: the io_service's thread runs queued handlers (weak fairness); an
  attempt to connect ends, a read on a connection that is not up fails, and an
  armed reconnect timer expires unless it is set anew. Those three are strongly
  fair because the bound on the queue disables them from time to time. Setting a
  timer anew cancels it and starts its three seconds again (socket_t.cpp:146-151),
  so what is fair is the expiry or a logout that postpones it (Postponed): a
  server that keeps logging the session out can put the expiry off for ever. The
  error handlers set the timer anew as well, but are not among the excuses, for
  without logouts they cannot do so for ever. Reads are started only by a read
  that succeeded, connects only by the timer's own expiry. Writes are started by
  the heartbeat timer too, and a handler that is queued may set that timer again
  after an error has cancelled it; but its three seconds then began after those
  of the reconnect timer, which expires first. The model has no clock to know
  that. Strong fairness on Reconnect says that the configured address, a literal
  one, is not unresolvable for ever. A connection that is up owes nothing.
- Decoder: decode is a loop; it takes its next turn.
- PipePair and WritePath state safety only. What must happen on a pipe and in the
  session is stated where its steps are modelled.

## 6. Proofs

TLAPS proves the following for all values of the constants, from the named
assumptions of the modules.

| Theorem | Statement |
|---|---|
| SpscQueueProofs!TypeCorrect | Spec => []TypeOK |
| SpscQueueProofs!SlotsAreDisjoint | Spec => []ReaderSlotIsSettled |
| SpscQueueProofs!SleeperMissedNothing | Spec => []SleeperConsumedAll |
| SpscQueueProofs!StoreOverwritesNothing | Spec => StoreIsUncontended |
| SpscQueueProofs!QueueImplementsChannel | Spec => ImplementsChannel |
| ChunkedProofs!TypeCorrect | Spec => []TypeOK |
| ChunkedProofs!IntegrityIsKept | Spec => []IntegrityHolds |
| ChunkedProofs!OrderIsKept | Spec => []ReadIsInOrder |
| ChunkedProofs!ChunksAreOwned | Spec => []EveryChunkHasOneOwner |
| ChunkedProofs!ChunkedImplementsPositions | Spec => ImplementsSpscQueue, if ~MallocMayFail |
| ChunkedProofs!ChunkedImplementsChannel | Spec => ImplementsChannel (of the positions), if ~MallocMayFail |
| PipeProofs!TypeCorrect | Spec => []TypeOK |
| PipeProofs!NoWakeupIsLost | Spec => []NoLostWakeup |
| PipeProofs!NoActivationIsLost | Spec => []ActivationIsNotLost |
| PipeProofs!EndOfStreamIsLast | Spec => []EndIsTheEnd |
| PipeProofs!PipeImplementsChannel | Spec => ImplementsChannel (of its queue) |
| InputSessionProofs!TypeCorrect | Spec => []TypeOK |
| InputSessionProofs!SessionGoesOn | Spec => []NeverStranded |
| InputSessionProofs!LogonIsWatched | Spec => []LoggedOnIsWatched |
| InputSessionProofs!BufferHasOneUser | Spec => []InputBufferHasOneUser |
| InputSessionProofs!HealthyConnectionIsKept | Spec => HealthyIsKept |
| DecoderProofs!TypeCorrect | Spec => []TypeOK |
| DecoderProofs!EveryFrameIsHandled | Spec => []FramesAreHandled |
| PipePairProofs!NoFaultBeforeTerminate | Spec => []FaultsOnlyAfterTerminate |
| PipePairProofs!CycleIsBroken | Spec => []OneTerminateFreesThePair |
| MessageProofs!AllocateFindsTheClass | for capacities up to 2^22 the code's size class is the first with messages larger than that |
| MessageProofs!PairTypes | Spec => []TypeOK |
| MessageProofs!OneOwner | Spec => []EveryMessageHasOneOwner |
| MessageProofs!MessagesFit | Spec => []MessageFits |
| MessageProofs!OnlyReadIsStale | Spec => []StaleWasRead |
| WritePathProofs!TypeCorrect | Spec => []TypeOK |
| WritePathProofs!BuffersSuffice | Spec => []OutstandingIsIntact |
| WritePathProofs!PeerGetsWholeMessages | Spec => []WireIsWhole |
| WritePathProofs!LogonIsFirst | Spec => []LogonComesFirst |

SpscQueue. The properties are not inductive: they do not say what the shared
word holds while the reader is awake. The invariant IInv adds that the word is
w_item or NULL (WordIsTail), that NULL means everything flushed was consumed,
that a Flush between its two steps has left NULL in both and has something to
publish (StorePending, StoreHasWork), and how the positions are ordered
(PositionsOrdered: begin <= r_item <= Flushed <= f_item <= Back). The
refinement maps each step to a step of Channel: Write to Stage, Unwrite to
Unstage, a successful FlushCas and FlushStore to Commit, Pop to Take, a Prefetch
that finds nothing to FallAsleep, a failed FlushCas and any other Prefetch to a
stutter. Lemmas about slices of a sequence carry it.

Chunked queue. The invariant has two halves. StorageInv is about the chunks: each
chunk of the list knows its neighbours, starts N positions after its
predecessor, and lies between the chunk of `begin` and that of `end`; whatever
is spare or in somebody's hand is outside. Hence two addresses of the list stand
for the same position only if they are the same address (PlacesDiffer), and no
operation moves a position between the cursors (Moved). QueueInv is about the
queue: its pointers are addresses of the list, in the order begin, flushed,
f_item, back, and what lies between the cursors is what was written. It is the
order that makes recycling safe, for a chunk that is retired lies before `begin`
and one that is freed or reused in no list. Neither half mentions the history of
an address: a pointer that was left behind would contradict the order. The owner
property walks the list from `begin` by recursion. That the recursive function
exists, that each stage is a walk without repetition and that a walk of as many
stages as there are chunks has reached `end` (a pigeonhole over Chunks) gives
EveryChunkHasOneOwner. For the refinement an address comparison of the program
is the comparison of the positions (Comparisons); each action is the one of the
same name over positions, a Write that needs another chunk takes effect when the
chunk is linked (WriteLink), PopDone stutters. With malloc failing an item may
be lost, so the refinement assumes that it does not; types, owners,
IntegrityHolds and ReadIsInOrder are proved either way. A queue that got no memory
in Init is a case of its own (Empty): each of its steps leaves it empty or is the
crash. For ReadIsInOrder the
invariant is that an increasing map takes each position to the item accepted
for it (Came). A Push that fails has moved `back` up to `end`, so its own item has
a position, but the Write behind it, whether it finds memory or not, fills
a slot that `back` does not pass, and the next one overwrites it.
ChunkedImplementsChannel composes the refinement with the one of SpscQueueProofs.

Pipe. The queue's invariant holds of the pipe's queue, for each step of the pipe
is a step of the queue or leaves it alone (StepOfQueue). To it PipeInv adds that
a reader that waits, or that left with nothing, went to sleep on the shared word
or has an announcement coming (WaiterSleeps, DrainedSleeps), and that the null
message is the last one and what was read is a prefix of what was written
(NullIsLast, GotIsPrefix, EndWasRead). StepOfQueue also makes the queue's
refinement one of the pipe.

InputSession. The conjunction of the types and the two invariants is inductive.
The argument: a handler that takes a completion the invariants rest on (a
connect, a read, a timer's expiry) arms what replaces it in the same step;
every other step adds to the queue, or takes a completion nothing rests on. A
few lemmas say what each call does to the socket (QueuedFacts, SetTimerFacts,
TakenFacts, AsyncConnectFacts), so the proof has one step per handler.
InputBufferHasOneUser and HealthyIsKept need to know what is in the queue of
completions. As long as nothing has disturbed the session (Undisturbed), there
is one token: a connect or read of this connection, which is with the kernel, in
the queue, or in the handler of the read, and never twice (OneUser); while the
link is up no error of this connection is queued, and unless the session logged
out the reconnect timer is neither armed nor expired (Healthy). So a handler that
closes a connection that is up was called for something left over, and the
step that handles it is the one that sets `disturbed`.

Decoder. TypeOK is inductive with its clauses on how many bytes are collected in
each state and on where the decoder last started. ConsumeBounded is the fact
about consume on which all the states rest. FramesAreHandled says nothing of a
frame that is not complete yet. IInv does: from wherever the decoder started in
step, it is at the beginning of some frame k, with part of that frame collected,
and has handled exactly the frames from there up to k. Where a frame begins is
defined by recursion over the stream (Starts). That such a function exists and
increases is shown by induction over the numbers (SumsExist, StartsAreOrdered);
then the frames that lie wholly in what was consumed are those before k
(FramesBetween).

PipePair. LifeInv says of each end that it is there exactly while it is referred
to, that it has its peer until it terminates, that only an end somebody holds is
in the middle of Terminate, and that its queue lives as long as it does. It is
about references alone. The step that matters is
DropStep: when references are dropped, the ends that go are those without one,
and an end that stays keeps what it refers to. That there are exactly two ends is
the assumption; which of the two is which is nowhere used. MessageProofs puts the
messages on top: MessageInv says that each message on the heap is in one place
of one end (built, got, queue, idle, free or leaked), that its origin, its size
class, whether it was read and whether it may hold old contents are what that
place allows (PlaceRight), and that no queue or list holds it twice. None of the four properties is inductive alone:
a message that is freed must be in the list of its class, which follows from
where it came from. Most steps move one message from one place to another, and
one lemma (OneMoves) is about those; the destruction of an end (Destroyed) moves
many. The size class is computed by the code in 32 bits with a table; that
Multiplied[n] is (2^n - 1) times the constant modulo 2^32 is shown by induction,
that the highest bit of a capacity exists by another, and the 18 cases of the
table by arithmetic.

WritePath. A step here is a step of the session (StepOfSession), so all that is
proved of the session holds (SessionHolds); the rest of the invariant, SendInv,
is about encoder and writes. EncInv: the wait buffer is empty between handlers,
so what is first in a buffer was encoded there alone and is good. Sound: a write
none or one message old has its buffer where two swaps must have put it. WireInv:
with one write at most the wire ends where that write goes on. WireIsWhole alone
is not inductive because it says nothing of what will be sent; OutstandingIsIntact
because it says nothing of which buffer comes next. LogonComesFirst needs the
session's token: a connection reports its connect once, and until it has, nothing
was sent on it and no write is outstanding (LogonInv). After that the logon is
what is being written as long as less than its parts are on the wire.

Only model-checked: liveness (FlushedIsRead, BlockedReadReturns, TimedReadReturns,
LossIsRepaired, LogoutIsFollowed, DecodeReturns), which is out of the prover's
reach, and the four violations, for which TLC gives a counterexample. Every
other property of a run is stated by a theorem above. The library's induction
theorems take an operator as a parameter, which no backend can instantiate;
where a proof needs induction it is over the natural numbers, for a set of
numbers, from the well-foundedness of < (NatSetInduction). The theorems are about
the specifications: that a handler, a queue's step or a call of Boost.Asio is
one step is the modelling's decision, listed below.

## 7. What is abstracted, and what is not modelled

- Memory order: the models are sequentially consistent. The queue's operations
  on its two atomics are taken as one step each; relaxed ordering of the data
  behind them is not examined.
- Bounds in guards: MaxItems and MaxMessages (length of history), MaxQueue (no
  event is queued behind so many completions; the handlers' own queueing is not
  bounded), MaxWrites (heartbeats behind a write that does not end), MaxFrames.
- Time: an armed timer expires some time. That a timer re-armed in time does not
  expire is not used, so more behaviours are allowed than the clock permits.
- Sockets: async_write is one operation, though Boost.Asio composes it of
  several. The endpoint list has one element, for the configured address is a
  literal, so an aborted async_connect does not try another. bind, close and the acceptor are
  used by no other code.
- Memory: malloc fails in the queue's storage (ChunkedSpscQueue). The modules
  above it assume a queue that got its memory, and messages that are allocated.
- Decoder: the bytes of an earlier connection that a queued read may still bring
  after the reset;
  checksum arithmetic, and lengths of 2^31 and more, for which bodySize_
  and the buffer's size overflow.
- PipePair: enable_recycle_ is what it is after Init; message_t::Copy is called by
  nobody; a second thread on the same end is excluded by the interface.
- Encoder: OTHERS and logouts are encoded by no code of the repository; a vector
  that grows under a write is not told apart from one that is overwritten; the
  checksum is right or wrong. wire.hpp's other widths are used by nobody.
- Not modelled: the heartbeat's clock, and io_service_pool, whose round robin and
  threads hold no state two actors share after start. Without behaviour:
  message_define, config, ctx, main, the output stubs; memory_allocator.hpp is
  used by nothing.

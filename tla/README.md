# Specifications of libbu++

TLA+ models of the parts of libbu++ (a C++ utility library) that keep state over many
operations, are shared by threads, or survive a crash. `PROJECT.json` lists the runs, the
lines of code each definition models, the findings and the hazards; this file explains them.
Paths below are relative to `src/src/`.

## The system

| part | state | operations | what makes it correct |
|---|---|---|---|
| `Myriad` (`stable/myriad.cpp`): many streams in one file | the streams with their sizes and block lists, the free list, block counts, a "header changed" flag; the header in the store | format, read back, create, create with id, delete, resize, add block, write header, sync | no block shared or lost; the header in the store is always one that can be read back; ids unique |
| `MyriadStream` (`stable/myriadstream.cpp`) | position, one block in memory, its entry in `hActiveBlocks` | read, write, seek, setSize, destroy | a stream reads back what was written; sync leaves nothing behind |
| `SynchroQueue` (`stable/synchroqueue.h`) | linked list, condition | enqueue, three dequeues, unblockAll | FIFO; no lost wake-up; no leak |
| `SynchroHeap` (`stable/synchroheap.h`) | heap, mutex, condition with its own mutex | enqueue, three dequeues | no deadlock, no mutex kept, waiters get items |
| `Server`, `Client` (`stable/server.cpp`, `client.cpp`) | `fdActive`, `hServers`, `hClients`, buffers per client | addPort, scan, sendMessage, tick, shutdown | tables agree with open descriptors, but for the listening ones that shutdown leaves in `fdActive`; stale select bits harmless; output before disconnect |
| `ItoServer` (`unstable/itoserver.cpp`) | the same with a thread per client, clean-up queue, message queues | run, client threads, sendMessage | one thread at a time in a protocol; messages handled once; a client deleted after its thread, and once unless its socket was used again too early |
| `TcpSocket`, `Process`, `File`, `Conduit` (`stable/`) | a descriptor and its mode; pipes and a child; the end flag; a queue with a condition | connect, timed reads and writes, close, wait, seek | bytes in order and once; ends and timeouts told truly; no descriptor left |
| buffers and filters: `QueueBuf`, `MemBuf`, `SubStream`, `Buffer`, `StreamStack`, `Base64`, `Hex`, `NewLine`, `Deflate`, `BZip2`, `Lzma` | chunks, positions, bytes kept back between calls | read, peek, write, seek, flush, stop, push, pop | what is written is read, however calls are cut |
| `MyriadFs` (`unstable/myriadfs.cpp`) | node index, table of inodes, directories and files in Myriad streams | create, link, rename, unlink, open, write | dense table, links counted, contents kept |
| `Cache` (`experimental/cache.h`) with its stores | loaded objects with counts, handles, keys and streams | get, insert, erase, sync, unload | handles live; synced objects survive |
| `Settings` (`unstable/settings.cpp`) with its drivers | the tree in memory, the file | get, set, save at the end | last set is got; the saved file survives a crash |
| `MiniCron` (`stable/minicron.cpp`) | heap of jobs by time | addJob, removeJob, poll, runJob | each time once, in order; no job lost |
| protocols: `ProtocolTelnet`, `ProtocolHttp`, `FastCgi` | parser states, options, requests | onNewData and what it calls | the same for every way the network cuts the bytes |
| containers: `Hash`, `List`, `Array`, `Heap`, `RingBuffer`, `SharedCore`, `SPtr`, `Variant`, `Atom` | tables, links, raw memory, reference counts | insert, erase, copy, assign, ... | as the map, sequence, bag, value they stand for |
| strings and formats: `String`, `UtfString`, `BitString`, `Formatter`, TAF, CSV, `Url`, `Archive`, digests, ciphers | chunks; a reader's look-ahead; object tables; blocks | edit, search; write and read | what is written comes back |
| readers: `Formula`, `Parser`, `MiniMacro`, `OptParser`, `viewcsv` | stacks, positions, tables | parse, expand, search | the meaning of the input |
| hashes of names, random numbers, loggers, signals, tools | mostly local | compute | |

How they interact: `MyriadStream` calls `Myriad` for blocks and holds a pointer into its
streams; `Myriad::updateHeader` writes through a `MyriadStream` of its own while it holds
`mHeader`; `Server` owns `Client`s, calls back into the application's protocols, and shares
descriptors with the kernel; a `Client` moves bytes between its socket, the filters pushed on
it and its protocol; `ItoServer` uses `SynchroQueue` between its threads; `MyriadFs` and
`Cache` sit on `Myriad`; the containers and `String` share one copy-on-write base.

What is hard: crashes between two header writes; blocks that are freed, given to another
stream and written back by a stale handle; wake-ups that race with other consumers, timeouts
and spurious returns; two mutexes in `SynchroHeap`; descriptors closed and given out again
while the bits of an earlier `select` are still being worked through; input that is cut at
any byte, in protocols and filters that keep some of it back; tables that are rebuilt in the
middle of a call; a timeout that races with the last bytes; a slot that changes the list of
jobs it is run from. The most important are in `PROJECT.json` under `hazards`, each at its
line; the others are named where their module is described.

## Modules

**Myriad** models the allocator and the header. `aStreams`, `lFreeBlocks`, `iBlocks`, `iUsed`
and `bHeaderChanged` are the members of the class; `storeBlocks` and `diskHeader` stand for
the store: how long it is and what its header says. Every public operation holds the mutex
`mHeader` from start to end and is one action. `findEmptyBlocks(n)` is n calls of
`findEmptyBlock`: the free list is emptied from its head, then the store grows.
`createStreamWithId` keeps the code's catch of its own exception, so an id in use makes a
second stream, or loses its blocks when it is the last id. `Shrink` and `Grow` are the two
loops of `setStreamSize`; `WriteChunk` is a pass of the loop of `MyriadStream::write` at or
behind the end, as far as the allocator sees it. `updateHeader` finds the number of new blocks
as the loop does, the first that holds the header with their own numbers. `initialize` reads
back what `diskHeader` says, at any time: a clean close is `updateHeader` before it, a crash
is its absence. The header is 14 bytes, 8 per stream and 4 per block, as the code writes it.

**MyriadStream** models the contents. Each handle keeps `pCurBlock`, a copy of a block with
`bChanged`; `hActiveBlocks` maps a block to the handle registered for it. `MoveTo` is
`releaseBlock` and `getBlock`; `sync` writes what is registered and changed. Which free block
is given out is the other module's subject: here it is any block that no stream has. The
history variable `file` is what each stream should hold. The constants `StaleCuts` and `Gaps`
say whether callers shrink a stream while the block cut off is in memory, and whether they
write behind the end: the two ways in which `ReadsBack` fails.

**SynchroQueue** models the linked list at the level of its pointers. Nodes are deleted and
used again, and `pEnd` dangles in an empty queue, as in the code. All member functions hold
the condition's mutex except in a wait, so a step is the code between two of its uses.
`waits` and `awake` are the threads in a wait and those whose wait is over. **Fifo** is the
abstract queue; `IsFifo` says that SynchroQueue implements it, with the queue's contents as
the data along the chain and the callers inside as those that wait.

**SynchroHeap** has one step for every use of one of its two mutexes and for every unlocked
look at the heap. The heap is the set of its items.

**Server** models the scan loop: `Select` takes the bits, `Accept`, `ReadClosed`, `ReadData`,
`Write`, `WriteFails` and `WriteGone` are the branches of the loop for a descriptor, `Sweep`
is the clean-up at the end. `shutdown` comes between scans: it closes everything, but the
listening descriptors stay in `fdActive` (the history variable `left`), so that every later
scan ends in `SelectFails`, until the kernel has given the numbers out again. `Renew` is the
destructor and a new `Server`. A shutdown that a callback calls in the middle of a scan is not
modelled. The kernel's side (lowest free descriptor, backlogs, peers that
send and close) is marked external. `MaxFd` is also the limit of descriptors of the process:
at the limit `accept` fails and its exception leaves `scan`.

The modules so far are composed of their own runs. The others follow one pattern: `core` is
the state of the code's objects, `abs` is what a user of them may expect, kept by simple
means (the map, sequence, bag, tree or byte string that the calls so far describe, or what
the peer, the child, the other threads have done), each action is one call or one step of a
thread, and the properties compare the two. Where the header of a file names several
classes, it has one section for each, and `which` says what a behaviour is about.

| module | code | the model and its edges |
|---|---|---|
| **MyriadSync** | `myriad.cpp`: `sync`, `updateHeader`, `initialize` | The header is written block by block, then the streams' blocks; another thread appends meanwhile; a crash falls between any two writes. Holds for streams that were not touched since the last sync; a header of two blocks that was half written, and a size that changed while it was written (`Missed`), are excepted, for there the code loses streams. Which free block an append takes is left open. |
| **Client** | `client.cpp`, `multiserver.cpp` | The bytes of one client through socket, filters and buffers. A filter keeps an odd byte back. |
| **ItoServer** | `unstable/itoserver.cpp` | Accepting thread, client threads, senders, clean-up by socket number: with a number used again the second client is queued twice, and joined and deleted again when it no longer exists (`CleanupJoin`: the process aborts or goes on). `CleanedOnce` says that nothing else leads there. `Waits`/`Answered` state the liveness. `~ItoServer`, which joins and deletes every client in `hClients` once more, is not modelled. |
| **Descriptors** | `tcpsocket.cpp`, `tcpserversocket.cpp`; `process.cpp` (POSIX) | connect with its failures, timed calls turn by turn, mode changes, a peer that refuses or resets; fork, pipes, `select`, reads, `isRunning`, `wait`, `close`, with a child that runs beside it. |
| **File** | `file.cpp` | modes, `isEos`, seeks, truncation, `tempFile`. |
| **Buffers** | `queuebuf.cpp`, `membuf.cpp`, `staticmembuf.cpp`, `substream.cpp`, `conduit.cpp` | the blocks of the queue and its two offsets; a window on a buffer; `MemBuf::setSize`, after which any bytes may be there; a conduit with a writer, two readers and `cBlock`, with signals that get lost. |
| **StreamStack** | `buffer.cpp`, `streamstack.cpp` | a next stream that takes and gives less than asked; pushing and popping filters that hold bytes. |
| **Filters** | `base64.cpp`, `hex.cpp`, `newline.cpp`; `deflate.cpp`, `bzip2.cpp`, `lzma.cpp` | bytes kept between calls, line breaks, padding, stalls; the loops around an external encoder and decoder and the seek back to what follows the stream. |
| **MyriadFs** | `unstable/myriadfs.cpp` | node index, dense table with moves, directories, hard and symbolic links. |
| **Cache** | `experimental/cache.h`, both stores | handles, counts, unloading, syncing, crashes between calls. A key made in the files store and never synced is an empty file, so loading it throws. |
| **Settings** | `unstable/settings*.cpp` | both drivers, groups, saving line by line with a crash at any of them. |
| **MiniCron** | `minicron.cpp` | `TimerBasic` over a small calendar, and jobs with `poll`, late and twice in a second, and slots that change the jobs. |
| **Protocols** | `protocoltelnet.cpp`, `protocolhttp.cpp` | each byte may be the last of its chunk; `abs` runs on the uncut stream. HTTP chunks that make `getToken` read unset bytes are remembered as torn. A telnet window size of less than four bytes throws out of `onNewData`, before the bytes are taken and the suboption is cleared (`throws`); whoever calls is taken to catch it and to go on with the next bytes. That chunks are invisible is claimed of streams without one. |
| **FastCgi** | `experimental/fastcgi.cpp` | records of several requests interleaved, pairs with long and short lengths, answers in records. |
| **Hash**, **List**, **Heap**, **Arrays**, **SharedCore** | the headers of these names, `ringbuffer.h` | slots with their filled and deleted bits, links by address, the tree in the array, raw and constructed memory, cores with counts. |
| **Pointers** | `sptr.h`, `variant.cpp`, `atom.h` | counts, objects that exist, casts that fail. |
| **String** | `string.cpp`, `string.h` | chunks, sharing and every call that edits; all searches and comparisons over every division into chunks. |
| **Texts** | `bitstring.cpp`, `utfstring.cpp`, `formatter.cpp` | words of 2 bits for bytes; code points at the ends of every range of the encodings, the surrogates left out; UTF-16 readers take U+F800 to U+FFFF for surrogates, and what they then pair or throw is part of the model; `Utf32le` takes the mark for a character, which adds U+FEFF at each pass. The machine is little-endian, the operands of `\|` are evaluated from left to right, and data written as Utf32le is not read as Utf32. Chosen integers of 5 bits (`W` is their width; `% 2^W` where the code overflows), in the radixes 2, 10 and 16; digits that are letters are written, but the code cannot read them back. |
| **Taf**, **Csv**, **Url**, **Archive** | their readers and writers, `tools/viewcsv.cpp` | trees, rows, parameters and object graphs, written and read back; streams cut short. |
| **Crypto** | `md5.cpp`, `sha1.cpp`, `unstable/cipher*.h`, `blowfish.h` | blocks, padding, lengths and modes; the compression functions keep their input, the Feistel rounds run over a small alphabet. |
| **Parsing** | `formula.h`, `experimental/parser.cpp`, `unstable/minimacro.cpp` | expressions, sentences and macro texts are made from what they mean, then read. An unknown macro command, which throws, is not among them. |
| **OptParser** | `optparser.cpp` | every spelling of a sequence of settings; the breaking of help text. |

A definition whose comment begins with "Mutant", or one named `X_something` in front of `X`,
is a mutant: an operator as a plausible bug would have it. Each property of a passing run is
violated when one of those listed in `PROJECT.json` replaces its original; for the composed
properties of `containers` and `services` there is such a definition for every conjunct.

The map in `PROJECT.json` gives lines of the code to the operations and the state. A small
helper without an entry of its own translates lines inside those of the definition that uses it.

## Runs

| run | instance | shows |
|---|---|---|
| `myriad` | block size 32 (the header grows with the second stream), at most 5 blocks, 3 streams, ids to 2, preallocation 0 or 1, sizes 0, 32, 33 | all ten invariants for callers that give new ids, with crashes and formatting anywhere |
| `myriad_reused_id` | ids in use | violation: two streams with one id |
| `myriad_stream` | 2 streams, 2 handles, 2 blocks of 2 bytes, sizes to 3, 2 byte values | `ReadsBack`, `ActiveBlocksMatch`, `SyncReachesStore` when no stream is cut under its block in memory |
| `myriad_stream_stale` | the same with 3 blocks and such cuts | violation: a stale block overwrites another stream |
| `myriad_stream_gap` | 1 stream, writes behind the end | violation: the size does not cover what was written |
| `synchroqueue` | 3 threads, 2 values, 2 nodes, spurious wake-ups, unblockAll | pointers, leaks, wake-ups, `IsFifo`, and the liveness of sleepers |
| `synchroqueue_null` | 2 threads, no spurious wake-ups, no unblockAll | violation: blocking dequeue returns NULL |
| `synchroheap` | 3 threads, 2 items | mutexes are given back and cannot deadlock; timed dequeues return |
| `synchroheap_lost` | 2 threads, 1 item | violation: a lost wake-up |
| `containers` | the instances in `MCContainers`, 0.8 million states | four properties that gather what each container, holder, format and reader must do |
| `services` | the instances in `MCServices`, 1.1 million states | five properties that gather what each stream, store, protocol, timer and server must do, and that a waiting message is answered |
| `server` | 3 descriptors, 2 ports, 2 connections, 1 unit of output | tables, bits, output before disconnect, closed peers noticed, with shutdown between any two scans |

Why the bounds are enough: in `myriad` a block size of 32 makes the header need its second
block at once and more as streams and blocks are added, 5 blocks and 3 streams let every
block be freed, reused by another stream, used by the header and cut off the store. In
`myriad_stream` two blocks are fewer than two streams want, so blocks change hands; a
position has a full, a partial and a missing block. In `synchroqueue` two nodes force memory
to be used again and three threads are a waker, a woken thread and one that gets in between.
In `server` three descriptors for two ports and two connections run out, and
a port added late has a client's descriptor below it.

In `containers` and `services` the modules do not interact: the variable `which` is chosen in
the first state and never changes, so the state space is the sum of theirs, and a property is
the conjunction, over the modules it names, of `which = ... => ` the module's own property.
The bounds are the constants of the instances. They are chosen around each module's edges:
two of three keys share a hash code and the table is rebuilt with deleted slots; a string has
up to three chunks of two characters; rings of two to four places wrap; buffers are smaller
than the calls; block sizes are below and above what is written; code points lie on both
sides of every change of length; the calendar has weeks of three days of three hours; HTTP
requests are whole texts, cut everywhere; a Myriad's header takes one block or two.

Bytes, streams and handles are interchangeable in `myriad_stream`, whose runs use symmetry;
runs with liveness use none. Deadlock is not checked in `synchroheap`: all threads may wait
in a dequeue with nobody left to enqueue; nor in `containers` and `services`, where every
behaviour ends at a bound.

Fairness. `SynchroQueue`: a thread whose wait is over gets the mutex, which everyone holds
for a few statements only; nobody has to call anything. `SynchroHeap`: threads inside a
function go on, a mutex that is free again and again is got (strong fairness), timeouts come.
`Server`: scan is called for ever ("in some sort of tight loop", `stable/server.h`); nothing
is assumed of peers or of the application. `ItoServer`: a client thread goes on (its select
has a time, so it comes back), and a sender that is in a protocol comes out; it is stated over
`core`, and only for behaviours about ItoServer. `ItoWaitingIsAnswered`: a message that waits
for a protocol's lock is handled, unless its connection closes or the process is aborted first.

## Findings

1. `createStreamWithId` never reports an id in use (`stable/myriad.cpp:403`): it catches its
   own exception and makes a second stream, and `deleteStream` later deletes the first of
   them only. A negative id is also accepted and goes in front of the header, which
   `updateHeader` takes to be `aStreams[0]` (invariant `HeaderIsStreamZero` then fails).
2. `MyriadStream::setSize` keeps the block in memory when it is cut off
   (`stable/myriadstream.cpp:290`); it is later written over the data of whoever got the block.
3. `MyriadStream::write` behind the end adds the bytes written to the size instead of moving
   the end (`stable/myriadstream.cpp:208`).
4. A blocking `SynchroQueue::dequeue` returns NULL when another thread takes the item first
   (`stable/synchroqueue.h:129`), which its comment excludes.
5. `SynchroHeap::enqueue` signals outside the condition's mutex (`stable/synchroheap.h:34`):
   a wake-up can be lost and a thread waits beside an item.

Also seen while modelling; no run claims them, the models leave the inputs out, except them
by name, or do as the code does and the property says so:

- Myriad: `iUsed` is one too high after formatting (`stable/myriad.cpp:225`, what
  `UsedCountDrift` allows). `sync` writes the header before the data; a header of two blocks
  can be torn; `bHeaderChanged` is cleared after a concurrent write.
- Server: when `accept` runs out of descriptors, `scan` ends before it serves any descriptor
  behind the listening socket (the exception in `CloseNoticed` and `DisconnectDone`, which
  therefore say nothing of that state). `shutdown` deletes the listening sockets without
  taking them off `fdActive` (`server.cpp:195`): each later scan throws, as `select` gets
  closed descriptors. `Client`: a filter that gives no bytes closes the client
  (`client.cpp:70`), one with output pending throws out of scan; `~Server` calls a pure
  virtual function.
- ItoServer: the clean-up by socket number can queue the wrong client: the first of two
  clients on one number is then never deleted, and the second is joined and deleted twice
  (`itoserver.cpp:99`); `hClients` is never erased from, and `~ItoServer` goes through it; a
  message can overtake a queued one; one queued after its thread ended is lost.
- Conduit: it signals without `cBlock`'s lock, so a wake-up can be lost, and closing wakes one
  reader only.
- Containers: with many keys of one hash code `Hash` rebuilds without end, and `has` may
  rebuild under iterators; appending a `List` or `Array` to itself; `RingBuffer::getSize`,
  capacity 1, and `dequeue`'s reference to a destroyed object. `SharedCore`'s counts are not
  for threads. `SPtr` deletes the object when its last pointer is assigned to itself, and
  leaks after a failed cast; `Variant` loses its value when assigned to itself; assigning an
  unset `Atom` keeps the old value.
- `String::trimBack( long )` changes strings it shares with (`string.cpp:1119`); searches at
  the end of a text; empty chunks.
- `UtfString`: the surrogate test `( x & 0xD800 ) == 0xD800` (`utfstring.cpp:176`, `202`) is
  also true for U+F800 to U+FFFF, which are then paired with what follows, or throw;
  `setUtf32le` looks for the mark of the other byte order (`utfstring.cpp:250`). `Formatter`
  cannot read back the letters it writes in radixes over ten (`formatter.h:199`).
- Streams: `MemBuf::setSize` drops the whole content, where `stable/stream.h:169` says that
  data is added or removed at the end; `QueueBuf::peek` counts the skipped bytes; `SubStream`
  wider than its stream; `Base64` stopped twice, or reading from a stream that gives nothing;
  `Deflate` seeks by a negated unsigned number; `NewLine` joins blank lines; `Cipher`:
  `~Blowfish` enciphers the last block without the mode, the tables are not reset in the
  constructor; `Sha1::getResult` pads into itself and counts 32 bits of bytes.
- TcpSocket: bytes read in earlier turns are lost when a later one throws; the descriptor
  leaks when a name cannot be resolved. Process: `isRunning` throws a status away.
- Protocols: telnet answers DONT with DONT, can loop on WILL and DO, drops bytes from 0x80,
  and reads four bytes of a window size that may be shorter (`protocoltelnet.cpp:410`); HTTP's
  `getToken` reads unset bytes; FastCgi loses its place with padding and with pairs that span
  records, and answers reused ids and unknown channels wrongly.
- MiniCron: `removeJob` from the job's own slot finds nothing; intervals of zero, monthly and
  yearly specifications do not end. Cache: a crash in destroy leaves a key; unloading drops
  what was not synced, and in the files store a key that was only created cannot be loaded
  (`cachestorefiles.h:43`, `archive.cpp:33`). MyriadFs: a path that exists gets a second
  entry; renaming a directory that is not empty leaves both names; names over 255. Settings:
  TAF's `set` adds a second property; the file is cut before it is written.
- Readers: `Formula` with an operator of lower precedence below one that is applied, and
  groups to the right; `Parser` ignores failure at the root, recurses on the left and keeps a
  look-ahead; unclosed macros run past the end, unknown commands throw; an `OptParser` signal
  with '=' skips a word, and `format` does not end on a word wider than the line; `Url::clear`
  keeps parameters, `getUrl` drops user, password and port; `Archive` saves 32 bits of a
  pointer; CSV does not quote leading blanks and newlines.
- Not modelled at all, but read: `Fifo`, `UdpSocket`, `Plugger` and `XmlReader` have
  unfinished paths.

## Proofs

All results hold for every value of the constants that meets the assumptions named here. What
the runs of `myriad`, `myriad_stream`, `synchroqueue`, `synchroheap` and `server` check as an
invariant or an action property is also proved; the liveness properties are not.

| theorem | states | assumes of callers or constants |
|---|---|---|
| `MyriadProofs`: `TypeCorrect`, `BlocksNotShared`, `CrashSafeHeader`, `SizesFit`, `HeaderHasRoom` | `TypeOK`, `NoSharedBlocks`, `DiskHeaderSound`, `StreamsFit`, `HeaderFits` | `FormatAssumption` |
| `MyriadProofs`: `HeaderStaysFirst`, `SyncSkipsNoChange` | `HeaderIsStreamZero`, `CleanHeaderOnDisk` | and no negative ids |
| `MyriadProofs`: `IdsStayOrdered`, `UsedCountHolds`, `BlocksNotLost` | `IdsAscend`, `UsedCountDrift`, `NoLostBlocks` | and no id that is in use |
| `MyriadStreamProofs`: `TypeCorrect` | `TypeOK` | `SizesAssumption`, `NoneAssumption` |
| `MyriadStreamProofs`: `RegistryMatches` | `ActiveBlocksMatch` | and no stream is cut under a block in memory |
| `MyriadStreamProofs`: `SyncIsComplete`, `StreamsReadBack` | `SyncReachesStore`, `ReadsBack` | and no write behind the end |
| `SynchroQueueProofs`: `TypeCorrect`, `PointersSound`, `WakeupsKept`, `NothingLeaks`, `ImplementsFifo` | `TypeOK`, `ListSound`, `NoLostWakeup`, `NoLeak`, `IsFifo` | finitely many threads |
| `SynchroHeapProofs`: `TypeCorrect`, `MutexesHeldInSections` | `TypeOK`, `LocksMatch` | `NoneAssumption` |
| `ServerProofs`: `TypeCorrect`, `TablesInStep`, `StaleBitsHarmless`, `OutputFirst` | `TypeOK`, `TablesAgree`, `BitsNameTheirClients`, `OutputBeforeDisconnect` | |
| `MyriadSyncProofs`: `UntouchedStreamsSurvive`, `StreamsStoreAndHeader` | `UntouchedSurvives` of MyriadSync, its inductive invariant | a block holds a byte (`Parameters`) |
| `ItoServerProofs`: `MessagesKept` | `ItoServerKeepsMessages` of ItoServer | senders are told from "client" and from nobody (`NamesApart`) |
| `SharedCoreProofs`: `SharingIsByValue`, `CoresAreCounted` | `ValueSemantics`, `CountsAreExact` | finitely many shells |

The assumptions on callers are those under which the run of the same name passes; the runs
`myriad_reused_id`, `myriad_stream_stale` and `myriad_stream_gap` show that the properties fail
without them, so the theorems cannot do without them either.

**Myriad.** The inductive invariant of the first four is `TypeOK`, `NoSharedBlocks`,
`DiskHeaderSound`, `StreamsFit` together with `Fit(diskHeader)`: `initialize` makes the stored
header the current one, so whatever is to hold of the streams in memory must hold of the
stored header as well; and allocation may cut the store, which is why the stored header must
stay below `iBlocks`, not only below the length of the store. That stream zero stays in both
lists is a second part, `ZeroKept`: without it `deleteStream` could empty the list. The
argument for sharing goes through lemmas on what each operation does to block lists:
appending allocated blocks, which are distinct and belong to nobody; cutting a list; inserting
and removing a stream. Rebuilding the free list in ascending order needs that counting the
smaller members numbers a finite set, proved from the cardinality theorems of the library.

The later six rest on this invariant and on one idea: `StepShapes` says that any step
adds a stream, drops one, loses blocks to a reused id, extends or cuts one stream, formats,
writes a header or reads one back. Each property is then kept shape by shape, whatever
operation the shape came from. `HeaderIsStreamZero` and `IdsAscend` are strengthened to
`ZeroInPlace` and `IdsRise`, which also speak of the stored header, since a crash makes it the
current one. `CleanHeaderOnDisk` needs `ZeroInPlace`, because `updateHeader` writes
`aStreams[0]`, and is strengthened to `HeaderSaved`: the lists in the stored header are no
longer than the sizes need, so that one just read back is the image of itself.
`FormatAssumption` says of the block size that the loop which sizes the first header ends, and
so with its exit condition; `updateHeader` takes the least number of new blocks that holds the
header with their own numbers, or is not enabled when `MaxBlocks` are not enough.

**MyriadStream.** Three layers, each inductive above the one before it.
`TypeInv`: types, registered handles hold the block they are registered for, and a stream has
blocks for its size. `BlockInv`: no block is in two streams or twice in one, no block is in
the memory of two handles, a handle's block belongs to the stream it is on
(`HeldAreOwn`, which is what `StaleCuts` breaks), a handle with a block is registered for it,
and a copy that is not marked as changed equals the store. `BytesInv`: positions are inside,
the stored size is that of the contents (which is what `Gaps` breaks), and what would be in
the store after a `sync` is what each stream should hold. Only the last layer does arithmetic
with blocks and offsets (`OffsetPlaced`).

**MyriadSync.** What is to survive a crash is in three places: the bytes in a stream's block in
memory or in the store, the list of its blocks in memory, and the entry that `updateHeader`
once made from that list. The inductive invariant has a part for each. `Memory`: no two streams
share a block, a free block is nobody's, the handle of a stream has one of its own blocks and,
unless that was changed, as it is in the store, and every byte is where the list says.
`DiskInv`: unless the header is torn, its entries could be memory's, so that a crash leads back
to `Memory`. `SyncInv`: a stream that was not touched since the last sync has nothing unsaved,
and its entry is memory's cut to the blocks its size needs (`Trim`); once the header is written
this holds of all streams that nobody touched during the sync. The fourth part was not to be
guessed from the property: `PendInv` speaks of the entries that `updateHeader` has made but not
yet stored. A stream may have grown since in its last block, which takes no lock; its entry is
then still a part of its list (`EntryOf`), and `Current` says that the stream is known as
missed, or as touched with the header marked as changed again. So no other stream gets a wrong
entry, and no entry names another's block. Creating, cutting and deleting a stream are each an
`EditOf` one stream, which keeps ids in order and blocks apart; a write is treated apart,
because it may change a stream whose entry is pending; the arithmetic is in
`PlaceOfByte`, `PlacesApart` and `BlkDiv`.

**SynchroQueue.** The inductive invariant is `TypeOK`, `ListSound` and `NoLostWakeup`.
`NoLostWakeup` counts: while somebody sleeps there are at least as many awake threads as
items. A woken thread that leaves takes an item or finds none; one that was not waiting takes
an item without being counted, which only helps. `ListSound` is needed for the refinement,
since the abstract contents are read along the chain, and for `NoLeak`: the nodes that are
allocated are those that the chain reaches. For this the chain is the least set that has
`pStart` and is closed under `pNext`, which needs no recursion.

**SynchroHeap.** `TypeOK` and `LocksMatch` are inductive together: a thread enters the section
of a mutex only when nobody has it, and leaves it free. That a signal outside the condition's
mutex does not hand a mutex to the thread it wakes is the case that matters.

**Server.** The inductive invariant is `TypeOK`, `TablesAgree`, `BitsNameTheirClients` and
`LoopSound`. `LoopSound` is the strengthening: a write bit that was not yet visited has its
client, so its descriptor is open and `accept`, which gives out the lowest descriptor that is
not, cannot give it to someone else in the same scan; for read bits `BitsNameTheirClients`
says so itself. `TablesAgree` turns "has its client" into "is open"; `fdActive` is the open
descriptors and those in `left`, which are closed, and while there are any no scan is on its way
and there is no client, so that no other part speaks of anybody.

**ItoServer.** `LockHeld`: whoever is inside a protocol has its lock. `SocketsKnown`: a client
whose thread still serves has its socket open, and an open socket has one client. `OnePlace`:
a message is with its sender, in one place of one queue, or handled once. That a client which
serves has its socket open was the strengthening the proof asked for: it comes out of its
input with the socket still open, and if another client could have had the number meanwhile,
`hClients` would not name the client of an open connection. The second part of the
invariant, `Clean`, is about the end of a client: an entry of `hClients` has that socket; on a
socket that was not used again too early there is one client that is not yet deleted, and it is
once on its way from its thread to its deletion: queued, taken or deleted.

**SharedCore.** The inductive invariant is that each shell has an allocated core or none, that
counts are those of the shells (`Sound`), and that shells have their values (`Agrees`). A
count of one means that nobody shares the core (`AloneWithCore`), which is why `_hardCopy` may
leave it. Every call changes one shell and keeps what the others see (`OthersKept`).

Three modules need the least member of a set of naturals, and two of them induction for a set of
naturals (`SetInduction`), which unlike the library's theorem takes no operator; all it rests
on are the library's theorems on well-founded orders.

Only model-checked: liveness (`ItemsReachSleepers`, `LocksAreGot`, `TimedComesBack`,
`CloseNoticed`, `DisconnectDone`, `ItoWaitingIsAnswered`; no prover here does fairness); and in
`containers` and `services` every module but SharedCore, ItoServer and MyriadSync. Most of these modules
say what a recursive reader or writer computes for any input, which is induction over data.
The properties that compose modules (`ContainersStandForTheirCalls` and so on) are stated over
the instances of the MC modules, so the theorems on SharedCore, ItoServer and MyriadSync
are about the conjuncts of those modules themselves.

## Not modelled

- A store that refuses writes, and two threads in one Myriad's `getBlock` or `syncBlock`
  (`setPos` and the transfer are not atomic there). Two handles on one stream,
  `deleteStream` under an open handle, negative positions.
- Ids of zero and below given to `createStreamWithId` (finding 1), a `shutdown` from within a
  scan, and `~ItoServer`, which deletes again what the clean-up deleted.
- `ThreadId`, `SynchroAtom`, `SynchroCounter`, `Singleton`, `Queue`, `Stack`: one statement, or
  no state.
- `NullStream`, `StdStream`, `Fifo`, `UdpSocket`, `HttpGet`: system calls one to one.
- Random numbers, `PearsonHash`, `Uuid`, `Crypt`, the insides of the compression libraries and
  of the digests' compression functions: fixed arithmetic that test vectors check better.
- `Logger`, `Trace`, `Signals` (generated), `Plugger`, `UnitSuite`, `Util`, `Sio`, the tools but
  viewcsv, XML, `Lexer`, `RegEx`, the Windows branches and the vendored zlib header.
- Races on containers that are shared between threads: the code forbids none and any outcome
  is possible.
- FD_SETSIZE (`server.cpp:136`) and a `ClientLink` to a deleted client (`server.cpp:158`): memory
  errors without a state to compare.

## Plan

Done: every component the inventory chooses is modelled, and Myriad, MyriadStream,
SynchroQueue, SynchroHeap, MyriadSync, Server, ItoServer and SharedCore have proofs. In this order:

1. Proofs about modules whose state has no recursion in it: `List`'s links, `SPtr`'s counts,
   `MiniCron`'s `JobsAreKept`, the conduit in `Buffers`. Their modules hold recursive operators
   of other sections, so these sections must become modules of their own first.
2. The conduit's lost wake-up and ItoServer's overtaking message as runs of their own.
3. Two threads in one Myriad with `setPos` and the transfer apart.

# A TLA+ verification of Beast

Beast is a header-only C++ library for HTTP/1 and WebSocket on top of
Boost.Asio. Its own code is `src/include/beast` (the rest of the repository is
tests, examples, benchmarks, documentation and vendored build files). This
directory holds TLA+ modules translated from that code, TLC configurations that
check them on small instances, and TLAPS proofs.

## 1. The system

### Inventory

| component | source | state | operations | how it interacts |
|---|---|---|---|---|
| websocket composed operations | `websocket/impl/{read,write,ping,close}.ipp`, `websocket/detail/{stream_base,pausation}.hpp` | `failed_`, `wr_close_`, `wr_block_`, `wr_.cont`, the pausations `rd_op_`, `wr_op_`, `ping_op_`, the `state` of each composed operation | `async_read`, `async_write`, `async_ping`, `async_pong`, `async_close` and every completion they wait for | they share one next layer stream; `wr_block_` says who may write, a pausation holds who waits, an upcall resumes it |
| websocket frames | `websocket/impl/stream.ipp`, `websocket/detail/frame.hpp`, `detail/mask.hpp` | `rd_` (message under way, size, close received), `wr_` (continuation, compression, buffers) | `read_fh1`, `read_fh2`, `write`, `read(close_reason)`, `rd_begin`, `wr_begin`, `write_close`, `write_ping` | called by the composed operations and by the synchronous calls |
| websocket handshake | `websocket/impl/{accept,handshake}.ipp`, `detail/pmd_extension.hpp`, `detail/hybi13.hpp` | `pmd_opts_`, `pmd_config_`, `pmd_`, the handshake operation | `build_request`, `build_response`, `do_response`, `pmd_read`, `pmd_negotiate`, `pmd_write` | uses the HTTP parser and serializer, opens the stream |
| UTF-8 checker | `websocket/detail/utf8_checker.hpp` | up to 4 pending octets and how many are still needed | `reset`, `write`, `finish` | fed fragment by fragment by the read operations |
| HTTP parser | `http/impl/basic_parser.ipp`, `http/detail/basic_parser.hpp`, `http/{message_parser,header_parser}.hpp` | parser state, flags, remaining length, skip | `write`, `write_eof`, `copy_body`, `prepare_body`, `commit_body`, `skip_body` and the internal `do_*` and `parse_*` steps | incremental: called again with more octets |
| HTTP read and write | `http/impl/{read,async_read,write}.ipp`, `http/chunk_encode.hpp` | the state of each composed operation | `parse_some`, `parse`, `read`, `write` and their async forms | drive the parser and the message body |
| dynamic buffers | `core/{multi,flat,static}_buffer` | the input and output area, capacity, maximum size | `prepare`, `commit`, `consume`, `shrink`/`reserve` | hold what the composed operations read and write |
| buffer sequence adapters | `core/{consuming_buffers,buffer_prefix,buffer_cat,buffers_adapter}` | positions in the wrapped sequence | `consume`, iteration, `prepare`, `commit` | what is passed to the next layer |
| buffered read stream | `core/buffered_read_stream` | the dynamic buffer, the capacity, the operation | `read_some`, `async_read_some` | next layer of the websocket stream |
| static string | `core/static_string` | a bounded string | `assign`, `append`, `insert`, `erase`, `replace`, `resize`, ... | close reasons, ping payloads |
| zlib | `zlib/` (a C++ port of zlib 1.2.8) | inflate and deflate state | `write`, `reset`, `params` ... | used by permessage-deflate |
| header fields | `http/{fields,rfc7230}` | a list and a set of fields | `insert`, `replace`, `erase`, `find`; list iteration | messages |

### Hard behaviours

* Several composed operations are interleaved on one socket, started and
  completed in any order inside one strand.
* Operations read shared members (`failed_`, `wr_close_`), suspend, and act on
  them later.
* A peer that pings or closes in the middle of an outgoing message, violates
  the protocol, is silent, or goes away.
* Incremental parsers that see their input cut at any place.
* Buffers and counters at their limits.

### What makes each component correct

* **composed operations**: one writer at a time; frames form a legal stream;
  whoever is suspended is resumed; a close is answered and followed by the
  teardown; a failure is reported and remembered.
* **dynamic buffers**: every call does to the input and output sequence what the
  DynamicBuffer concept says, wherever the octets lie; pointers stay inside
  their storage; nothing is allocated and forgotten.
* **parser and read**: the callbacks made are those of the message whatever the
  cuts; malformed messages are refused; one message's octets are consumed, no
  more and no less; every read ends, with an error only if there is a reason.
* **HTTP write**: the other end sees the message that is written and nothing else,
  whatever fails on the way; where its end is not marked the writer is told to
  close; the handler is called.
* **websocket frames and blocking calls**: messages arrive as they were written
  whatever cuts, masks and compresses them; another program's frames and text are
  judged as RFC 6455 and RFC 3629 do; each end sends one close frame and comes to
  its end.
* **handshake**: an end opens only for a proper partner; both ends agree on the
  extension's parameters; octets read too early belong to the session.
* **buffered reads and views**: octets come in order, each once, and the end of the
  stream last; a sequence seen through the adapters is the same octets.
* **fields and lists**: list and set agree, an element goes back to its allocator,
  a container behaves as a sequence; a list is read as its grammar says.
* **zlib**: what is decompressed is what was compressed, for every cut of the calls;
  a flush delivers everything; buffers never overflow.

## 2. Plan

| step | modules | what is added | state |
|---|---|---|---|
| 1 | `WsStream`, `MCWsStream` | the composed operations of the websocket stream | done |
| 2 | `WsStreamProofs`, `WsStreamSafety` | type correctness and mutual exclusion of the writers, proved | done |
| 3 | `DynamicBuffer`; `FlatBuffer`, `StaticBuffer`, `MultiBuffer`, `BuffersAdapter`; `Buffers` | an abstract specification, four implementations, their composition | done |
| 4 | `HttpParser`, `HttpMessage`; `HttpRead` | the parser as operators, messages and their meaning as the reference, the read operations | done |
| 5 | `HttpWrite` | `write()` and `write_op`, `prepare()`, chunk encoding, composed with the parser and the body readers | done |
| 6 | `Utf8Checker`, `WsFrame`; `WsBlocking` | frames, masks, text, close codes and the blocking calls of two ends | done |
| 7 | `WsHandshake` | acceptance and permessage-deflate negotiation of two peers | done |
| 8 | `BufferViews`, `HandlerPtr`; `BufferedReadStream` | the views of buffer sequences and the stream that reads ahead | done |
| 9 | `FieldSequences`; `Rfc7230`, `HeaderGrammar`, `HttpFields`; `HttpHeaders` | containers of fields against sequences, header lists against their grammar | done |
| 10 | `Huffman`; `Inflate`, `Deflate`; `ZlibStream` | both directions of the compressor, composed | done |
| 11 | `WsStreamLegal` | the wire, the replies, the wakeups and the failures of the stream, proved | done |
| 12 | `NatInduction`, `BuffersProofs` | pointers of the flat and static buffer, and that they implement `DynamicBuffer`, proved | done |
| 13 | `WsHandshakeProofs`, `BufferedReadStreamProofs` | the guards of the handshake and the octets behind it, the memory of asynchronous reads and what a reader sees, proved | done |
| 14 | `HttpFieldsProofs` | owners, order and lookups of the containers of header fields, proved | done |
| 15 | `WsStream` | `read_op` and `write_op`, the loops over the frame operations | |

`DynamicBuffer` and `FieldSequences` are abstract specifications that detailed ones
are compared with call by call; `HttpMessage`, `HeaderGrammar`, `IsText` of `Utf8Checker` and
the expectations of `MCWsBlocking` are references that do not follow the code. The
modules meant for proofs have no RECURSIVE operator: `next_pow2` of `FlatBuffer` is a
recursive function, and a loop of `MultiBuffer` is given by the place where it ends.

## 3. The modules and the code

### WsStream: the composed operations

Every action is one whole handler: an initiating function (`AsyncRead`,
`AsyncWrite`, `AsyncPing`, `AsyncClose`), the completion of a read or a write on
the next layer, or the run of a posted handler, including the upcall at its end
and the pausation it invokes. The application runs everything in one strand, so
handlers do not overlap; a posted handler may run after any others that are
ready. What the application does in a completion handler is a later action.

* `failed_`, `wr_close_`, `wr_block_` are the members of `stream_base`, `wr_cont`
  is `wr_.cont`, `parked` the three pausations, `st` the `state` member of each
  operation (the names are those of the `enum`s and cases in the code, `+n`
  included), `w` the members of `write_frame_op` that steer it.
* `wire` is history: the RFC 6455 automaton of a peer that sees the frames sent.
  `ok` records the BOOST_ASSERTs: one that fails turns it FALSE and the handler
  goes on, as in a build with NDEBUG.
* `Together` says which operations an application has active at once, `Frames`
  what the peer sends; `"bad"` is everything answered with `do_fail`.
* A message is cut into at most `MaxWrites` writes. With `Pmd` the compressor
  decides about them, and a write may produce no frame.
* `torn` is set when the teardown starts, because the sending side is shut down
  then; `TeardownDone` is its completion. `Open` starts a new session.

Left out: payload octets, masks and keys, the ping payload and the handlers'
allocation. Errors of the deflate stream other than `need_buffers` are left out
because `detail::deflate` (`pmd_extension.hpp:395-466`) cannot return them with
the buffers it passes.

### DynamicBuffer, FlatBuffer, StaticBuffer, MultiBuffer, BuffersAdapter, Buffers

`DynamicBuffer` is the concept of `DynamicBuffer.qbk`: it has two sequences of
octets and says what `prepare`, `commit` and `consume` do to them; what is left
of the output after anything but `prepare` and `commit` is unspecified. The
buffers of the library differ from it in two places, which have definitions of
their own: `CommitKeepsRest` in `DynamicBuffer` and `ThrowsEarly` in
`StaticBuffer` and `BuffersAdapter` (section 7). Each implementation keeps the members of
its class (pointers are offsets into a block, `multi_buffer` a list of blocks
with `out_`, `in_pos_`, `out_pos_`, `out_end_`), has one action per member
function that changes state, and a `Write` action for the caller who fills what
`prepare` returned. Octets nobody has written are `Uninit`. `BuffersAdapter` keeps
the positions of `buffers_adapter` over a sequence of buffers of any shape, empty
ones among them. Each instantiates `DynamicBuffer` with its own `data` and
`prepared` as the refinement mapping; `CallConforms` says of each call which
abstract step it has to be. `Buffers` runs one of the four.

### HttpParser, HttpMessage, HttpRead

`HttpParser` is `basic_parser`. A parser is a record of its members and every
member function is an operator from a parser and the octets presented to it to
the resulting parser, the octets used, the error and the callbacks made. The
control is complete: the order of the searches for CRLF and CRLFCRLF, `skip_`
and `x_`, flags, the framing rules of `do_field` and `do_header`, chunk headers
and trailers, errors of callbacks. An octet is a record: CR, LF, a hex digit, an
octet of body, or one that stands for a run without CR or LF (a start line, a
field with its value, the blank of a folded field, a chunk extension). A blank
continuation is the only folding. `on_body` data is reported octet by octet, so
that the calls do not depend on how the octets were cut.

`HttpMessage` is the reference: a message is described by its start line, its
fields, its framing and its body; `Wire` is its octets, `WellFormed` says whether
the parser ought to accept it, `Documented` is the calls that the documentation
of `basic_parser` announces for it. Two kinds of these calls are not made:
`EmptyBody` and `PlainChunk` name them, and `Meaning` is `Documented` without them.

`HttpRead` is `read`, `read_some`, `async_read` and `async_read_some`: `conn` says
which connection is read, by a direct or an indirect parser, blocking or not.
The steps are those of the code: `BufferWrite` (give the parser the buffer's
contents), `BufferPrepare` and `BufferRead`, `CopyBody`, `PrepareBody` and
`BodyRead` for direct bodies, `EndOfStream` and `StreamError`, `parse_op` (consume
and loop), `read` (the next message of a connection that is kept alive). `threw`
is the state after an exception nobody catches, which the code has in
`copy_body`, and in the asynchronous `prepare_body`.

The dynamic buffer of `HttpRead` is a sequence of at most `BufferMax` octets that
overflows only when it is full, like a `flat_buffer`.

### HttpWrite

A message is a record of its start line, its fields, the buffers its writer
provides (one for each call), whether the writer knows the length, the connection
option and the call of the writer that fails. `Prepare` is `prepare()`, `WriteHeader`
and `HeaderWritten` the writing of a header alone, `InitWriter` the construction of
`write_preparation`, `AsyncFirst`, `AsyncMore` and `AsyncFinal` the cases of `write_op`,
`SyncFirst`, `SyncMore` and `SyncFinal` the same in `write()` and `operator<<`.
`StreamWrites` and `StreamFails` are the stream, which may fail inside a write. The
other end is an `HttpParser` that takes, at any time, what was sent and not yet used
(`PeerReads`) and is told of the end of the stream when the writer was told to close
it (`PeerReadsEnd`); `ReaderPrepare` and
`ReaderCommit` store the body as the readers of `string_body` and `dynamic_body` do.

### Utf8Checker, WsFrame, WsBlocking

`Utf8Checker` is the checker's `write` and `finish` with the octets it keeps; `IsText`
is RFC 3629 by value. `WsFrame` is the header of a frame as it is written and read,
its rules, the payload of a close frame and the mask with the key that turns.
`WsBlocking` has a client and a server, each a program of one thread with a script
of calls: one action is one call of the socket inside `write_frame`, `ping`, `pong`,
`close`, `read_frame` or the teardown, over TCP or TLS. The compressor is taken by its
contract (an octet can be decompressed at its place behind a reset only). An end
whose script is raw octets is another program; `expect` and `text` say how it
should be judged.

### WsHandshake

The client's `handshake` and `async_handshake`, every form of `accept` and
`async_accept` (with a request read before, with buffered octets, with a decorator),
`build_request`, `build_response`, `do_response`, `reset`, `open` and the negotiation:
`pmd_read`, `pmd_negotiate`, `pmd_write`, `pmd_normalize`. The octets of the connection
are the halves of the request and of the response and frames, so that a read may
end inside a message or take what follows it. Keys are numbers; a wrong accept
value is one that belongs to another key. Streams are opened several times.

### BufferViews, HandlerPtr, BufferedReadStream

`BufferViews` is `consuming_buffers`, `buffer_prefix` and `buffer_cat` with their
iterators, `HandlerPtr` the reference count of `handler_ptr`. `BufferedReadStream` is
the stream with its buffer and capacity and `read_some_op`; the program reads into
a destination through a prefix of a consuming view, and writes frames that are a
`buffer_cat` of a header and a prefix. Asio copies and drops handlers at will.

### Rfc7230, HeaderGrammar, FieldSequences, HttpFields, HttpHeaders

`Rfc7230` is the iterators of the four kinds of lists and `validate_list`, over
characters that stand for the classes the code tells apart. `HeaderGrammar` has
one operator per nonterminal of the documented BNF; `strict` selects the one thing
in which the readers differ from it, what may follow a parameter. `HttpFields` is `basic_fields`:
elements on a heap, each on an intrusive list and in an intrusive set, owned by
containers whose allocators may differ and may propagate. `FieldSequences` says
what each call does to a sequence of fields. `HttpHeaders` is the program: it changes containers, or inserts a
value and reads it back with a loop.

### Huffman, Inflate, Deflate, ZlibStream

The format is that of deflate with constants for the size of the alphabet, the
tables of extra bits and the limits of code lengths, so that a small instance has
all of it: stored, fixed and dynamic blocks, codes that are too long, matches with
extra bits, windows that slide and wrap. `Deflate` has `deflate_stored`, `_fast`, `_slow`,
`_rle` and `_huff`, `longest_match`, `fill_window`, `build_tree` and the sending of trees
and blocks, every flush, `params`, `tune` and `reset`. `Inflate` has every mode of
`doWrite` and `inflate_fast`. A call is a function of the stream's state, the input,
the room and the flush; `ZlibStream` makes such calls in any order and size.

## 4. What is checked

A property of a run is often the conjunction of named parts, each with its own
comment in the module.

| run | instance | what it shows |
|---|---|---|
| `ws_one_writer` | client, no compression, all legal frames, I/O errors | one read and one write, ping or close at a time: `WritersTakeTurns` (writers never overlap, no assertion fails, `wr_block_` never dangles), `LegalStream` (the frames sent are legal, `wr_.cont` agrees with them, the teardown follows a close frame), a suspended reply goes next (`RepliesGoNext`), is resumed, and a close is answered (`RepliesComplete`) |
| `ws_deflate` | server, permessage-deflate, no pings | the stream is legal when the compressor cuts the message, nobody waits for a wakeup that does not come (`NoLostWakeup`), every write, ping and close completes although the peer is silent (`WriterCompletes`), and a failure is not overwritten by what compression assigns to `failed_` (`FailedIsSticky`) |
| `ws_bad_frames` | server, all frames, `"bad"` too | a read that has to fail the connection completes (`ProtocolErrorReported`) |
| `buffers` | limit 4 (flat, static), 3 (multi), blocks of 1 and 2, adapters of six shapes | `PointersInOrder` (with `debug_check`), every call is the step of `DynamicBuffer` but for the two named differences, and throws exactly when said (`CallsConform`), `ReadSizeFits` |
| `http_read` | 37 connections, each read blocking and asynchronously, directly and not | the calls are those of the message under every fragmentation (`CallsFollowMessage`), bad messages are rejected, errors deserved, failing callbacks reported (`VerdictIsRight`), the octets of the next message are left in the buffer (`OctetsAccounted`), every read ends (`ReadEnds`) |
| `http_write` | requests and responses of both versions, every option, five bodies, failing writers and streams | `PeerSeesMessage`, `BodyIntact`, `WriteEnds` |
| `zlib` | an alphabet of 16, windows of 16 octets, every function, strategy and flush | `RoundTrip`, `FlushDelivers`, `StateIsSound` (assertions of `deflate_stream`, the memory that pending octets share with symbols included), `Delivered` |
| `ws_handshake` | all combinations of windows and of takeover flags, valid and invalid offers, one wrong field at a time, every accept | `Negotiated`, `OpensDeservedly`, `NothingLost`, `HandshakeEnds` |
| `ws_blocking` | sessions of two ends of ours, and of one with another program | `MessagesArrive`, `PeerJudged`, `CloseAgrees`, `SessionEnds` |
| `buffered_reads` | three octets, capacities 0 to 2, four shapes of buffers | `ReadsFaithful`, `OneAllocation`, `ViewsAreWhole`, `ReadEnds` |
| `headers` | two containers of up to three fields, two allocators; every text of four pieces of syntax | list, set, lookups and allocators agree (`ContainersAgree`), after any history each call does what its name says, a move empties its source (`CallsAreTrue`), every step is one of a program with sequences (`RefinesSequences`), a loop ends and shows what the grammar derives but for the parameters of `DropsParameter` (`GrammarAgrees`) |
| `ws_find_fail` | as `ws_bad_frames` | a violation of `AssertsHold`: `do_fail + 2` does not take `wr_block_` before it posts; a write started in between trips the assertion at `read.ipp:643` |

### Bounds

* `MaxWrites = 3`: a first, a middle and a last write; more repeat the middle one.
  Everything else in `WsStream` is finite.
* Buffers: a limit of 4 with `min_size` 2 has the growth from nothing, from one
  block to a larger one, and the move to the front; calls are made with sizes up
  to the limit plus one. Blocks of 1 and 2 octets and three octets give a
  `multi_buffer` every relation of `out_`, `in_pos_`, `out_pos_` and `out_end_` to
  the ends of blocks. Sizes near the limit of `size_t` are not reached.
* HTTP: `SizeValues = 256` stands for 2^64, so that a chunk size of three digits
  wraps to 0, the size of a last chunk. `BufferMax = 12` holds the headers of most connections and is
  exceeded by those with three fields. `BodyMax = 5` is met exactly by one body;
  `ReadLimit = 2` stands for 65536 and makes a body take several reads. Messages
  have up to three fields and two chunks of one or two octets, CR and LF among
  them.
* HTTP write: bodies of no, one and two buffers, one of 18 octets so that a size
  has two digits; `ReadSizes` smaller, equal to and larger than what is left.
* zlib: 16 literals, four length codes and four distance codes, `MaxMatch = 6`, codes of at
  most 5 bits (7 for the code lengths), windows that slide at 28 to 42 octets of data. `rounds`
  resets the stream once. A wider alphabet adds symbols, not cases.
* Handshake: one field wrong at a time, because the conditions are tested one after
  the other; two connections of a stream.
* Blocking calls: 64-bit lengths are scaled to their last 24 bits; messages of up
  to nine octets and of 125 and 126 for the two forms of the length. Text of
  every class of code point, valid and not, cut at every octet.
* Buffered reads: three octets are a full buffer and one more; one extra copy of
  a handler.
* Headers: four pieces of syntax (five for tokens) reach an element before and after
  every kind of error; names that differ in case only.

### Fairness

`WsStream!Fairness` is weak fairness of the posted handlers and the completion of
writes, of each operation, and of `TeardownDone`: an `io_service` that runs
executes what is posted, the next layer completes a write or fails it, and a
peer that was sent a close frame and the end of the stream closes its end.
Nothing is assumed of what the peer sends, nor of the application: it need not
start any operation. `HttpRead!Fairness` says that the operation runs on and the
stream returns octets, its end or an error; the application need not read again.
It is written without ENABLED because TLC would evaluate the parser for it, as
that of `ZlibStream`, where both programs go on calling. `HttpWrite`: a stream takes
what is written or fails, and a posted handler runs. `WsHandshake` and `WsBlocking`:
a thread inside a call runs on, and the connection delivers what was sent, unless
it breaks. `BufferedReadStream`: posted handlers run and the peer ends its stream
some time. `HttpHeaders` has none: that a loop ends is part of `GrammarAgrees`, as a
bound on what it shows.

Deadlock is checked in the runs of `WsStream` and `Buffers`; a read that is done
stops, and so does a session that is over: the other runs do not check it.

## 5. What is proved

`WsStreamProofs`: **TypeCorrect**, `Spec => []TypeOK`, for every value of the
constants that satisfies `ConstantsAssumption`: any set of operations together,
any frames, either role, any number of writes. `TypeOK` is not inductive: a
resumed operation is found through `parked`, and the next state is computed from
the state it was suspended in. `TypeInv` adds that every operation is in a state
of its own program (`OwnStates`), that an unfinished write has something left
(`RemainPositive`), and that a pausation holds a suspended operation, each at most
one (`ParkedSuspended`).

`WsStreamSafety`: **OneWriterSafe**. Under `Discipline` (no two of write, ping and
close together, and no frame that leads to `do_fail`),
`Spec => []WritersTakeTurns`, that is `WritesDoNotCompete`, `AssertsHold` and
`BlockHeldByRunning`. The inductive
invariant `SafeInv` is `TypeInv` and `Exclusion`: whoever is in a state of
`Holding`, that is, writes or was resumed and has its handler posted, is the
owner of `wr_block_`, and the owner is in such a state or tears down
(`BlockOwner`); at most one operation besides the read is active
(`OneWriterActive`); the read is not in the states of a resumed `do_fail` (`NoFail`),
because these give up the discipline, as `ws_find_fail` shows. The steps go
through one lemma for the upcall, one for `maybe_invoke`, one for a suspension,
and one for each way a frame is started.

Both hypotheses of `Discipline` are needed: with `Together <- ReadWritePing` of
`MCWsStream` TLC finds two writers at once, and `ws_find_fail` drops the second.

`WsStreamLegal`, four theorems about the same specification, each with the
hypotheses it needs:

* **WireIsLegal**: under `Discipline` and `Reliable` (no compression, or no I/O errors),
  `Spec => []LegalStream`. `LegalInv` adds to `SafeInv` what the states
  say of the wire (`Wire`): a close frame is on it if and only if `wr_close_` is set, a
  teardown comes after that, and while a write is under way its next frame fits what
  was sent and `wr_.cont`. With compression and
  I/O errors together the outcome of the compressor clears `failed_` (section 7), and
  a frame can follow one that was cut short: `Reliable` excludes just that.
* **RepliesFirst**: under `Discipline`, `Spec => RepliesGoNext`. `ReplyInv` adds that
  somebody holds `wr_block_` while a reply waits.
* **WakeupsKept**: under `Discipline` and without pings, `Spec => []NoLostWakeup`.
  `WakeInv` is `SafeInv`, the property itself and that the read has no pong to send.
  Pings are
  excluded because `do_pong + 1` gives up `wr_block_` without an upcall (section 7).
* **FailedStays**: under `Discipline` and `Reliable`, with or without compression,
  `Spec => FailedIsSticky`. It follows from `LegalInv`: a failure is recorded only with
  or after the teardown, after which nothing is inflated and no operation is at a place
  where it compresses, so the assignments of `write.ipp:417` and `read.ipp:298` and `308`
  never find `failed_` set.

`BuffersProofs`, for the kinds `"flat"` and `"static"`, every limit, minimum size and set
of octets: **PointersStayInOrder** (`[]PointersInOrder`), **ReadSizesFit**
(`[]ReadSizeFits`) and **CallsImplement** (`CallsConform`, each call against its step of
`DynamicBuffer`, where the differences are part of the statement: a commit is
`CommitOrKeep`, the concept's when it commits all of the output sequence; a static
buffer throws if and only if `ThrowsEarly`; a flat one if and only if the concept does). The inductive invariant `BlockInv` is `TypeOK` and
`PointersInOrder` of the buffer that runs: the pointers bound the areas which the
refinement mapping reads as sequences. Each call has a lemma that says what becomes
of the areas, put together from lemmas on cutting a sequence at two places. That a
block grown by `prepare` is large enough needs what `next_pow2` computes: `PowerBound`
is proved by induction over the size (`NatInduction` states induction over the
naturals for a set, not for an operator, so that it can be used).

`WsHandshakeProofs`: **EndsOpenDeservedly** (`[]OpensDeservedly`) and
**FramesSurviveHandshake** (`[]NothingLost`), for every set of sessions that satisfies
`SessionsAssumption`: a decorator sets one field of the request or of the response, as
the runs have it, never the response's status or body. A program that sets the status
itself can make a client believe anything; that is not the library's promise. The
inductive invariant `HandshakeInv` says what the messages are that are under way and
from which round (`Messages`), and, for each direction, that what is buffered
followed by what is on the connection is what is left of the handshake message
followed by the frames (`ToServer`, `ToClient`): only so does a `NothingLost` that is
about the end of the handshake follow from its steps.

`BufferedReadStreamProofs`: **OneAllocationAtATime** (`[]OneAllocation`) for all values of
the constants. `MemoryInv` says that the pointer of the read whose handler runs has
given its memory back and that a read under way holds it; copies and drops of a
`handler_ptr` keep both.

**ReadsAreFaithful** (`[]ReadsFaithful`), in the same module, for any set of shapes, any
capacities, limits and length, which are only assumed to be numbers (`SizesAreNumbers`).
It needs to know what the views do. A `Chain` is a sequence of buffers of consecutive
octets, with the borders between them; `FlattenChain` shows that flattened it is one run,
by induction over the buffers. `BlocksChain` (the buffers of a destination), `ViewRun`
(`consuming_buffers` from begin() to end()), `PrefixRun` (`buffer_prefix` is exactly the
first n octets or all) and `ConsumeAt` (`consume` removes exactly n octets, over as many
buffers as they fill, empty ones included) keep chains; the loops of `consume` and of
`buffer_prefix` are searches for the first buffer to stop at (`SearchExists`,
`SearchFinds`). The invariant `ReadPart` says that the destination is at `got` and that
the buffers a read under way has kept begin there too (`Aimed`), so that the octets of
`sb_` and of the next layer land behind those delivered; that the state of a read tells
whether octets are buffered (`Waiting`), which is decided when it starts and used when
it goes on; and that the end was reported only when `ended` and all was delivered
(`Returned`).

`HttpFieldsProofs`: **ContainersSound** (`[]ContainersAgree`), for any containers,
allocators, traits, finite heap, values and texts, and any number of fields, over names
that are letters of `tolower` (`NamesAreLetters`, as far as `tolower` is defined). The
invariant `Sound` speaks of what the
property leaves out: a container that does not exist has an empty list (`DeadEmpty`), so
that constructing one loses nothing; what is on a list was given out, by an equal
allocator (`GivenOut`), is on no other list (`OneList`) and not twice on this one
(`OncePerList`); what was given out is on a list (`NoLeak`); and set and list are threaded
alike (`Threaded`). The argument has three layers. `Ordered` is proved to survive one
insertion at `upper_bound` (`InsertOrdered`) and one removal (`RemoveOrdered`) for functions
on `1 .. n`; `InsertSound`, `UnlinkSound`, `ResetTo`, `TakeSound` lift that to one element or
one container of the whole state; the loops of `copy_from` and `erase` go through these by
induction over their turns, where `erase` needs that the elements it found are distinct
and still on the list. That the lookups agree is
`LookupFinds`: a bijection between the range `lower_bound` to `upper_bound` of the set and
the hits on the list.

TLC finds no violation of any of these inductive invariants on the instances of the
runs (of `Aimed` with the borders computed from the sizes of the buffers).

Only model-checked:

* liveness, which is out of the prover's reach;
* `multi_buffer` and `buffers_adapter`: what a list of blocks holds is a fold over it, of
  which the provers know nothing; it would take chains of blocks as for the views above;
* `Negotiated`. It is not true of every session: a program whose request decorator sets
  an offer of its own while `client_enable` is off makes the server compress for a client
  that cannot; and `stream::open` does not clear `pmd_` (`stream_base::close`, which would,
  is never called), so a stream whose blocking accept took an offer that the response
  declined still compresses on its next connection, after an async_accept that declined
  it too. The sessions of the run have neither, and a theorem would have to assume that;
* `ViewsAreWhole`, which selects the headers from all octets written and walks through
  `buffer_cat` both ways; `RefinesSequences`, whose abstract steps select from sequences;
  the properties of HTTP and `GrammarAgrees`, whose operators are recursive;
* everything about zlib (RECURSIVE operators) and the blocking calls (`WsFrame` uses
  `Bitwise`).

## 6. Not modelled

* `static_string`, digests, formatting, error tables and compile-time checks
  (`PROJECT.json` says why for each).
* `header_parser` and the move of its state into a `message_parser`.
* `read_op` and `write_op` of the websocket stream, and payloads in `WsStream`.
* The asynchronous teardown beyond its start and its end.
* `dictionary()`, `prime()`, `pending()` and `upper_bound()` of the zlib streams.
* An `io_service` with several threads and no strand: handlers are taken to run in
  one strand, as the documentation of the websocket stream demands. In particular
  `write_op` sets `d.state` after it started the write (`write.ipp:454`).
* Examples, among them the large table of URLs in `src/examples`, tests and
  benchmarks.

## 7. Disagreements met while modelling

These have no run of their own. Where the model can show one, the instance is named;
the passing runs leave that instance out and the properties say so.

Websocket, composed operations:

* A read, a write and a ping at once (`websocket.qbk:500-504` allows them,
  `636-640` does not): the upcall of the read resumes a suspended write although a
  ping is being written (`read.ipp:686`; `Together <- ReadWritePing`).
* `do_pong + 1` clears `wr_block_` and goes back to reading without `maybe_invoke`
  (`read.ipp:553`): a write suspended meanwhile waits for the peer's next data. The run
  `ws_deflate` has no pings for this reason.
* With compression `failed_` is assigned the outcome of deflate (`write.ipp:417`) and
  inflate (`read.ipp:298`, `308`). If the next layer fails a write, the next frame that is
  inflated clears the failure, as the next one that is deflated does if it was a ping
  that failed: with `IoErrors = TRUE` `FailedIsSticky` does not hold in `ws_deflate`, and
  `Reliable` excludes it.

Websocket, blocking calls and handshake:

* A text message whose last frame is empty is not checked at its end
  (`read.ipp:864`, and `205` in the asynchronous read; `EmptyEnd` of `MCWsBlocking`). The fast
  loop of the UTF-8 checker accepts the lead octets 0xC0 and 0xC1, and its state is not
  reset when a stream is opened again.
* The blocking `accept` keeps the client's offer in `pmd_config_` (`stream.ipp:121`),
  where `stream_base.hpp:150` has the "negotiated result for servers" and the
  asynchronous one does so (`accept.ipp:153`): with a takeover flag set at the server
  only the ends disagree (`BlockingSessions` of `MCWsHandshake`; `PeersAgree` is about
  `async_accept`).
* `stream_base::close()` is never called, so `pmd_` stays engaged when a stream is
  opened again without compression. `async_accept` answers 400 with a Content-Length and no
  body. The client does not compare the response with its offer. A client window of
  8 becomes 9 in the compressor; the runs have none.
* The blocking `read_frame` answers pings after a close frame was sent, the blocking
  `close` assigns `failed_`, and the top bit of a 64-bit length is not refused.

HTTP:

* `copy_body` consumes the octets of a body that ends with the stream, and its caller
  consumes them again (`basic_parser.ipp:146`; `basic_parser.hpp:502-504`,
  `Reader.qbk:110-111`): octets are lost if the reader's buffer is small (`ReaderMax = 1`,
  `EofConnections` of `MCHttpRead`).
* `maybe_flatten` returns `buf_len_` octets, also those of an earlier, longer input
  (`basic_parser.ipp:266`; `Segmented = TRUE`, `ShortConnections`).
* `commit_body` drops the error that `on_complete` sets (`basic_parser.ipp:213`).
  `VetoIsReported` would fail for an `on_complete` that fails after a direct body
  with a length; the connections of `http_read` do not contain that case.
* `on_chunk` is called only for a chunk with an extension and `on_body` not for a
  body of length 0, where the documentation announces both without condition
  (`basic_parser.hpp:160-169` and `124-131`). `EmptyBody` and `PlainChunk` of `HttpMessage`
  are these calls; `CallsFollowMessage` expects all others of `Documented`.
* The last chunk `00` is rejected: `parse_hex` takes `v <= v0` for an overflow. And
  a value that wraps to a larger one is not noticed.
* A Transfer-Encoding other than chunked is rejected after a Content-Length, and
  accepted before it.
* An asynchronous write whose writer returns true without a buffer never calls its
  handler (state `abandoned` of `HttpWrite`, which `WriteEnds` excepts; `Writer.qbk:134`). `chunk_encode` of an empty
  buffer writes a chunk of size 0, which ends the message. A response of HTTP/1.0 with
  a Content-Length and without keep-alive is not followed by `eof` (`write.hpp:147`).
  `prepare()` leaves the end of a body unmarked for `connection::upgrade`, for a
  request of HTTP/1.0 of unknown length, and for a body with a status of 1xx, 204 or
  304; the messages of `http_write` have no body there.
* The readers of lists drop a parameter with its name if what follows it cannot
  follow one: for `;x=,` nothing is shown, where `http/rfc7230.hpp:24-27` and `106-109`
  announce the list up to the first invalid character; and the last parameter of an
  extension is dropped if it has no value and a comma follows, which is not even
  invalid (`detail/rfc7230.hpp:412`; the BNF is in `http/rfc7230.hpp:113-116`).
  `DropsParameter` of `HttpHeaders` says which texts these are. For them `GrammarAgrees`
  says that what is shown is what the stricter grammar derives (`ReadAsApplied`), for
  all others that it is what the documented one derives (`ReadAsDocumented`). `;a=` at the
  end is accepted, and `validate_list` accepts `,x`.
* `prepare()` inserts `Connection: upgrade` before it refuses it for HTTP/1.0
  (`message.ipp:235`, `255`): the message is left changed (`left_by_throw`).
* Copying a container of fields to itself empties it (`fields.ipp:136`), and `replace`
  with a value that lies in the field it erases reads freed memory; copies of a
  `param_list` iterator hold a view into the original.

Buffers and strings:

* `commit()` of all four buffers keeps the rest of the output sequence, where
  `DynamicBuffer.qbk:106-107` has it discarded: a second commit without a prepare appends
  octets of it (`CommitKeepsRest`).
* `prepare()` of a `static_buffer` throws after `consume()` although `size() + n`
  is within `max_size()` (`DynamicBuffer.qbk:99`), because it never moves; so does that of
  a `buffers_adapter`, whose `max_size()` is the largest output sequence and not the
  largest sum (`ThrowsEarly` of both).
* A `flat_buffer` that is empty when it grows does not deallocate its old block
  (`flat_buffer.ipp:222`).
* `static_string::append(str, pos)` throws for `pos == size`, and inserting a part of
  the string into itself is not handled.

zlib:

* `inflate_stream` asks for as many bits as its table's index although a shorter code
  is complete; the stream of `ZlibStream` is followed by two octets of zeros for this
  reason, and an octet fetched after the end is not given back.
* The comments of `inflate_fast` suppose fewer than 8 bits at its start, which its
  caller does not ensure; nothing depends on it.
* `tune()` before the first write is overwritten by `init()`, and `params()` changes the
  settings even if the flush before it had too little room. With room for exactly
  five octets each call of a sync flush writes its marker again.

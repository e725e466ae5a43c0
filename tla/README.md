# A TLA+ model of Libnap

Libnap is a C++ utility library: a thread pool, a packet protocol over TCP, AES
and hash streams, a JSON tree with its parser, a string buffer and text codecs.
This directory holds TLA+ modules translated from its source, the TLC
configurations that check them on small instances, and proofs that TLAPS checks
for every value of the constants. `PROJECT.json` lists the components, the runs,
the source lines each definition stands for, the hazards and the theorems.

## 1. The system and its components

| Component | State it keeps | Operations | Hard behaviour |
|---|---|---|---|
| ThreadPool (`threadpool.h`, `threadpool.cpp`) | queue of tasks, `stop`, one mutex, one condition variable, worker threads | constructor, `push`, handler loop of a worker, destructor | concurrency: wake-ups, shutdown while tasks run and push |
| napcom (`net.h:109`, `net.cpp:123-236`) | `state`, one mutex per channel, the socket | `sendpackage`, `recvpackage`, construction, destruction | partial sends and receives, errors in mid-frame, several threads, two programs |
| socket owners (`tcpclient`, `tcpserver`, `tcpseraccept`) | a descriptor, a `napcom*` | `connect`, `bind`, `listen`, `accept`, moves, destruction | who closes which descriptor; reconnection; failed connects |
| AES streaming (`aes.h:329`, `aes.cpp:447-`) | 16-byte buffer, result, chaining value or counter | `add`, `end`, `reset`, setters | chunk boundaries, padding, chaining across calls, in-place blocks |
| AES block cipher (`AesKey`, `AesFun`) | both key schedules, a 4x4 matrix | key constructors, encrypt and decrypt a block, GHASH | literal tables, three key sizes, reversed schedule, memory `resize` leaves unwritten |
| Hash streaming (`hash.cpp`) | 64-byte buffer, block count, digest state | `add`, `calculate`, `reset` | padding at the boundary, counters of fixed width, reuse |
| JSON (`json.cpp`) | tree of nodes, parser root and position | parse, stringify, node access and update | recursion, errors thrown half way, reuse of a parser |
| btring (`btring.cpp`) | content, length, capacity | construct, append, assign, fill, reserve, resize, move, swap, compare, `>>` | capacity bookkeeping, its own content as argument, moved-from objects |
| Hex and Base64 (`trans.cpp`) | none | encode, decode | lengths that are not multiples, signs and table bounds |
| helpers (`nap_common.*`) | none | exceptions, clock, random | none |

How they interact: the thread pool is used by callers and by the tasks it runs
(a task may call `push`). `tcpclient` and `tcpseraccept` each own one `napcom`,
which owns the socket; two napcom objects in two programs talk through the byte
stream of a TCP connection. Packages, hash inputs, AES inputs and JSON texts are
all `btring` values. AES and hash objects are not shared between threads.

What makes each of them correct:

- ThreadPool: every accepted task runs once, in the order of the queue; nobody
  sleeps while there is work and nobody awake to do it; the destructor returns,
  and only when everything accepted has run.
- napcom: the stream is a sequence of whole frames; packages come out as they
  went in, in order, at most once; a ruined end never delivers again; a package
  that was begun arrives unless the link fails; nobody hangs on a dead peer.
- socket owners: each descriptor is closed once, by its owner, on every path.
- AES block cipher: for every key size it is the cipher of FIPS 197, and a key
  made from the same bytes opens what another has sealed.
- AES and hash streams: the result does not depend on how the input was cut into
  chunks; decryption undoes encryption; a reset object behaves as a new one.
- JSON: what the parser accepts is JSON as the library understands it, a refused text
  takes nothing away, and what stringify writes of an array or an object means that tree
  if the parser could have made every value in it (section 2, Json).
- btring: length within capacity, content preserved by every growth and move.
- Hex and Base64: the text is that of RFC 4648; decode undoes encode; no access
  outside the input.

## 2. Modules

| Module | Role |
|---|---|
| `TaskService.tla` | abstract: a FIFO service on a fixed set of slots that closes only when drained |
| `ThreadPool.tla` | the pool, thread by thread, and its properties |
| `MCThreadPool.tla` | the module TLC runs it in |
| `ThreadPoolProofs.tla` | inductive invariant, safety theorems, refinement proof |
| `PacketLink.tla` | abstract: two FIFO channels of packages that can be ruined |
| `NapCom.tla` | both ends of a connection, byte by byte, and its properties |
| `MCNapCom.tla` | the instances TLC runs it in |
| `NapComProofs.tla` | whole frames, aborts and the packet link proved |
| `AesStream.tla` | the AES streaming classes: an encrypting and a decrypting object and their user |
| `MCAesStream.tla` | a cipher, an exclusive or and texts for TLC |
| `AesStreamProofs.tla` | cuts, kept state and round trips proved |
| `HashStream.tla` | the streaming part of SHA256, MD5 and SHA1 |
| `MCHashStream.tla` | texts for TLC |
| `HashStreamProofs.tla` | nothing lost, counters and digests proved |
| `Json.tla` | nodes, parser, stringify and their user, and the grammar they are held against |
| `MCJson.tla` | short texts and longer ones with a mistake |
| `ByteString.tla` | abstract: byte strings with values, nothing said of buffers |
| `Btring.tla` | btring objects on a heap whose blocks live and die |
| `MCBtring.tla`, `BtringProofs.tla` | the instance TLC runs; memory safety, order and refinement proved |
| `Sockets.tla`, `MCSockets.tla` | who owns which descriptor and which napcom |
| `SocketsProofs.tla` | owners, descriptors and what may be lost, proved |
| `Codec.tla` | Hex and Base64 on character codes |
| `MCCodec.tla`, `CodecProofs.tla` | strings for TLC; round trip, digits and bounds proved |
| `Bytes.tla` | bytes, words, blocks and their exclusive or |
| `Galois.tla` | the field of 256 elements and the two S-boxes, by definition |
| `Fips197.tla` | abstract: the cipher of FIPS 197, keys and rounds, on an open field |
| `AesTables.tla` | the nine tables of `aes.cpp`, entry by entry |
| `AesCipher.tla` | keys, both directions of the block cipher, and GHASH |
| `MCAesCipher.tla` | secrets, blocks and pieces for TLC |
| `AesCipherProofs.tla` | the way back, equal keys, GHASH and FIPS 197 proved |

Definitions whose comment begins with "Fault:" are not part of the models: each
is a slip the code could plausibly contain, put in place of the definition after
it to show that a property notices it (`mutants` in `PROJECT.json`).

### ThreadPool

A step of the model is what a thread does between two points another thread can
observe. `wpc[w]` says where worker w is in the handler: `top` (before the
lock), `test` (holds the mutex, about to evaluate the predicate), `sleep` (the
predicate was false, still holds the mutex), `waiting`, `woken`, `go` (predicate
true, holds the mutex), `running` (inside `task()`), `exited`. `ppc[p]` is the
place of a thread inside `push`: the test of `stop` (outside the mutex, as in
the code), `lock`, `emplace`, `notify`. `opc` is the place of the thread that
constructs and destroys the pool. The mutex has an owner; `condition.wait`
releases it and goes to sleep in one step, `notify_one` wakes any sleeper or is
lost, and a sleeper may wake spuriously.

`stop` is a plain bool that push reads without the mutex its writer holds. The
read is one step at an arbitrary moment before the mutex is taken. `push` calls
into the mutex afterwards, so a compiler cannot keep the value across calls of
push; an older value is the same as an earlier read.

What the callers may do: clients push only while the pool is alive and the
destructor starts only when no client is inside push (anything else uses an
object under destruction). Tasks that are running may push at any time, also
while the destructor waits for them. A task is pushed at most once (two pushes
of equal callables are two tasks). What a task computes, and an allocation that
fails inside push, are left out; an exception a task throws ends in its future
like a value. A thread that fails to start ends the process if others already
run (the vector of joinable threads is destroyed), and the constructor otherwise.

Properties: `NoLostWakeup`, `StopIsHeard`, `OnePlace`, `Drained`, the refinement
`ImplementsService`, and under fairness `AcceptedTaskRuns` and
`DestructorReturns`.

Fairness. Weak fairness of each thread's steps says that the system schedules a
runnable thread and that tasks return. Taking the mutex has strong fairness:
std::mutex does not promise that a thread gets it, so this is an assumption
about the platform. It only matters where other threads take the mutex for
ever, which here only unending spurious wake-ups can cause, as tasks are finite
in number. There is no fairness on pushing, destroying or failing.

### napcom

One object at each end of one TCP connection. `wire[e]` is every byte end e has
written and `nread[e]` how many of them its peer has read; the difference is in
flight and never above `Window`. `SendBytes` and `RecvBytes` are one round of the
loops of `sendInsist` and `recvInsist` and move any number of bytes the
connection allows. `begun[e]` records, for the properties, the package and the
offset of each frame. A byte is a number below `ByteBase`; TLC runs with 2, so
that the limit 0xffff becomes 3 and headers and bodies of every legal length and
one illegal length are explored; the code's value is 256.

`sendpackage` tests `state` and the size under its mutex; `recvpackage` tests
`state` before its mutex. `::send` may fail at any time, `::recv` too (receive
timeout, reset, a signal), and `::recv` returns 0 when the peer is gone and
everything it wrote has been read. `Asserts` says whether the build
has its assertions: one that fails aborts the process of that end, which closes its
socket. Without them (NDEBUG) an empty package is a frame like any other, a header and no
body, and is delivered empty; the run `napcom` has them, `napcom_duplex` does not, and the
proofs hold of both. `state` is read and written by threads that
hold different mutexes; each access is one step.

`~napcom` runs only when no thread is inside the object. The comment at
net.cpp:95 says that the shutdown is there to make a blocked recv return; a
thread blocked in `recvpackage` would then go on with an object that no longer
exists, and the model does not go there.

Both ends are little-endian hosts, and both run napcom: nothing else writes to
the connection. So the test of the two halves of the header is modelled, but
with one receiver per end it never fails; with two it does.

Properties: `SendsWholeFrames` (the wire holds whole frames, and success is told
only of a frame that is there), `OnlyEmptyAborts` (the assertions of the two loops
fail for an empty package and nothing else), the refinement `ImplementsLink`
(with one receiver per end), and under fairness `BegunPackageArrives` and
`ReceiverReturns`. Fairness: a thread inside a call goes on as long as the
connection lets it, and the program at each end keeps calling `recvpackage`;
errors, destruction and sending are not forced.

### AesStream

One object that encrypts and one that decrypts, made with the same key and IV.
`obj[o]` holds the fields of an `AesBuffer` and of the class of its mode: the
buffer, the result, the chaining value or counter (`iv`) with the one `reset`
puts back (`original`), and GCM's J0 and GHASH. `AddChunk` is one call of `add`
with the rounds of its loops, `End` is `end()` with the padding, the last block
and the reset that follows, `Reset` and `SetIV` are the calls of those names.
`fed`, `begin`, `aligned`, `moved` and `ended` are there for the properties: what
was added since the last end, with which IV, in what kind of pieces, and what
came out.

What is abstracted. The block cipher is an arbitrary permutation of the blocks,
the key schedule is not there (`AesCipher` has it), and the exclusive or of two bytes
is any commutative table in which the second operand undoes itself. GHASH is the sequence of the blocks it absorbed,
so two tags are equal when the same blocks, length and mask went into them;
additional data is left out (it would be a prefix of that sequence). CTR and GCM
have no padding. The loops over a buffer and
the increment of the counter are functions on the numbers of blocks or bytes done.
A byte that `resize` makes room for and nobody writes is `Unset`. A padding byte is read as a signed char, as on the hosts the library builds for.

What is assumed of the user: an IV is set before the first byte of a message;
decryption is given results of encryption in their order, is ended after the
last byte, and works on one message at a time. The objects share nothing, so it
is enough that one is taken up between two messages of the other (`Turn`).

The point of the model is `inplace`. A block that was completed in the buffer of
`AesBuffer` is transformed where it is, a block that lies in the input is not;
CBC decryption takes its next chaining value from the input after it has written
the output. So `CutsDoNotShow` and `RoundTrip` say of CBC decryption only what
holds while every piece is a number of whole blocks, and the run
`aes_cbc_cuts` shows that other cuts give another text.

### HashStream

The object's `absorbed` is the sequence of bytes given to the compression
function; a digest is that sequence, so two digests are equal when the same bytes
were compressed (SHA256 and SHA1 turn their words around in place, which is a
mark of its own, `Reversed`). `buffer` is the block that is not full, `count` the
counter of bytes (SHA256, 64 bits, it never wraps here) or blocks (MD5 and SHA1,
modulo `CountMod`). `add` goes round by round: `Add` is the call, `AddRound` one
block, `AddReturns` the rest of it. `calculate` of MD5 and SHA1 adds the padding
and the length through the same loop (`Calculate`, `PaddingDone`,
`CalculateReturns`); that of SHA256 pads in its own buffer, in one block or two,
and is one step. Lengths are modulo `LenMod`, where the code casts to 32 bits or
adds in 32 bits. The length field is written by dividing by 256 again and again, as the
shifts of the code do. When MD5's sum has wrapped, the copy leaves its buffer; the model
ends there.

Properties: `NothingLost` (what was compressed, waits and is held is the text,
also in the middle of `add`), `CountRight`, and `DigestRight`, checked with the
types as `PadsRight` (the bytes
compressed are the padded message of the RFCs, whatever the object did before its
last reset).

### Json

`root` is the tree of one parser object. A node is a record with the four fields
of `JsonNode`; the type only says which of the others counts, and the code does
not clear the others when the type changes, so neither does the model. The
functions of the parser are operators that take the text, a position and the node
they fill, and return the node as it is when they return or when an exception
leaves them. A call of `parse` is one action, as are the operations of
`JsonNode` on the root or on a node below it (`ChangeRoot`, `ChangeMember`,
`ChangeElement`; `Changed` lists the operations).

What is abstracted: the words true, false and null are one character, one digit
stands for all, a new line for every white space (it also ends the conversion of
a string in `btring::from`, which is modelled), the order of the keys of a map is
open, messages of exceptions are left out. What `to<T>` makes of a value, and
assigning a node to one that contains it (the copy reads what it has released)
are not modelled. Strings of the user have no backslash, and keys neither that
nor a quote: stringify writes them as they are.

`Meanings` says what a text means by how it can be parted, without positions or
order of reading. It is the grammar of the library, not that of the RFC: a number
may have more points and minus signs (section 3), a backslash is dropped
whatever follows it, and characters behind the closing bracket are not looked at.

Properties: `ParsesMeaning` ties the parser to that grammar, also for trees that
are not new; `FailureKeeps` says what a refused text may do to the tree;
`WritesMeaning` ties stringify to the grammar; `NullIsEmpty`, checked with the
types as `TreeWellFormed`, is what parseKV relies on when it does not clear a node
that says it is null.

`operator=` makes a number of every value whose type converts to int and keeps the text
that `<<` writes of it (json.h:108-121). `Written` is the set of such texts: of integers, of
floating point numbers (1e+20, nan) and of single characters. stringify writes them bare
(json.cpp:596) and the parser reads digits, points and minus signs only (json.cpp:369-390);
so `WritesMeaning` is an equivalence: the text of an array or object means the tree if and
only if every number in it is one the parser reads (`Parsable`), and no Boolean was left
without a value by a refused text. stringify of a root that is neither array nor object nor
null runs into an assertion, and without assertions gives `{}`; nothing is claimed of it.
Texts are shorter than 2^31 bytes: `getStringLen` and `checkNumberLen` count in an int.

### Btring

`str[o]` holds the three fields of object o; `heap` holds the blocks of `new[]`
that are live, their cells, and `sound`, which turns FALSE with the first access
outside a live block, the first memcpy onto itself and the first second
`delete[]`. The private functions `_append`, `_set`, `_recap` and `_recap_hold` are
operators that take the heap and the fields and do what the code does in its
order: allocate, copy, free. Their argument is a pointer, so `s.append(s)`,
`s += s` and `s.append(s.str() + k, n)` are calls like any other. A byte nobody has
written is `Unset`. `operator>>` appends byte by byte and is the one operation of
several steps. The class is not safe for several threads (doc/btring.md:5); every
other operation is one step. `Unit` is the 16 of `| 15`.

`operator>` and `operator>=` keep the length of the shorter string in an int
(btring.cpp:100, 115). `AsInt` is that conversion and `IntMod` the number of values an int
has, 2^32 in the code: from half of it on the bound of the loop is cut or negative, and
`FirstDifference` looks at fewer places or none.

Left out: conversions from and to numbers (the one JSON uses is in `Json`), `at`,
`operator[]` and the iterators, which hand out references into the buffer, and
`assign` of a range that lies inside the object's own text.

Properties: `MemorySafe`, `OneOwner` (each live buffer is the content of one
object), `FieldsTrue`, `ComparisonsAgree` (six operators against one order, wherever
an int can say the shorter length), and
the refinement `ImplementsString`: the values are those of `ByteString`, in which
growing, moving and resizing change nothing else. A step of `ByteString` may be any of its
effects: the refinement finds a value that was corrupted, lost or changed in another
object; it does not tie each call to the effect that is its own.

### Sockets

The process has a table of descriptors; `socket` and `accept` take any free number,
`close` frees one, and the next socket may get it. `made[x]` remembers, for the
properties, the socket that a napcom, a server or a connecting client was given.
`connect` is two steps (`Connect`, then `Refused` or `Connected`), so that other
threads' objects take and free numbers in between; every object is used by one
thread (doc/network.md:5). `napcom(socket_t&&)` sets the number it was given to 0,
which is a descriptor of the program: `TrueDescriptor` says that nothing closes it.

Properties: `Ownership` (types, one holder for each napcom, a socket that has the
port or listens is that of a living server), `TrueDescriptor`, `LostOnlyWhenRefused` (what no object will ever close
was dropped by a refused connect, and by nothing else) and `DiesWithItsHolder`.
Nothing is claimed of eventual closing, so there is no fairness.

### Codec

Bytes and characters are numbers; `enblock` and `deblock`, the tables and the hex
digits are translated with `\div` and `%`. The caller encodes bytes or has a text,
and decodes it. `InBounds` is the size computation of `Base64::decode`, in which
`size() / 4 - 1` wraps below four characters: the caller then crashes. A read
behind the 128 entries of a decoding table is `Unknown`.

Properties: `RoundTrips`; `DigitsRight` (types, the text of RFC 4648 by bit numbers,
hex read digit by digit); `StaysInside`.

### AesCipher

Two sides know one secret, each makes its own `AesKey` from it, one encrypts a
block and the other decrypts it, one round a step. `keys[s].e` grows word by word
(`ExpandKey`), `keys[s].d` is its reversal; words are four bytes, the highest first.
The matrix holds the state row by row, as `char2matrix4x4` leaves it. `FromBtring`
makes room with `resize`, whose new bytes may hold anything (`Tails`; one value per
key). `Hash` is one call of `ghash`; a block is the set of its bits that are set.

`Fips197` is written from the standard, with the field, the multiples and the
S-box as constants; `Galois` gives them their definitions (products of polynomials,
inverses, the affine map). So the literal tables are compared with arithmetic, not
with another table. Two assumptions say so, entry by entry: the inverse S-box undoes
the S-box, the inverse's multiples are linear and undo a column (`TablesAssumption`), and all
tables and the constants of the rounds are what the standard defines (`StandardAssumption`). They name
no constant of the model, so TLC decides them when it starts. The secrets and blocks of
the instance read every entry of every table as well.

Properties: `ImplementsFips197` (refinement, both schedules and both directions),
`RoundsUndone` (types, and after j rounds decryption has what encryption had Round - j
rounds in), `OpensAgain` (whichever constructors made the two keys, unless memory was
left unwritten), `HashIsSum` (GHASH is a sum of products with powers of H).

Left out: copies and moves of keys, and the branches for AESNI, which no build file
turns on. How blocks are chained is `AesStream`.

## 3. What the runs check

| Run | Question | Instance |
|---|---|---|
| `threadpool` | safety and refinement under every interleaving; does every accepted task run, does the destructor return | 2 workers, 2 clients, 3 tasks; 19 577 states |
| `threadpool_stopped` | does a stopped pool refuse tasks, as threadpool.h:46 says | expected violation |
| `napcom` | framing, order, end of file and aborts in one direction | assertions on, 2 senders, 1 receiver, 2 frames, window 5; 39 948 states |
| `napcom_duplex` | both directions at once: progress | no assertions, 1 sender and 1 receiver per end, 1 frame each, empty ones included, window 3; 173 657 states |
| `aes` | cuts, round trips and IVs in every mode and padding | blocks of 2 bytes of 3 bits, 4 bytes of text cut anywhere, 2 messages; 623 775 states |
| `aes_cbc_cuts` | does CBC decryption take pieces of any length | expected violation |
| `aes_cipher` | is the block cipher that of the standard, does it open what it sealed, is GHASH the product it should be | 5 secrets of 5 to 33 bytes, 3 key sizes, 2 blocks, 2 pieces of 4 lengths; 10 751 states |
| `hash` | nothing lost, counters and digests right | blocks of 6 bytes with a length of 2, texts of 14 and 15 bytes; 422 560 states |
| `json` | does the parser read the grammar, does stringify write it, what is left of a refused text | texts of up to 3 of 18 characters, five longer ones with every single mistake, then 2 calls, 6 texts of values; 256 949 states |
| `btring` | memory, owners, fields, comparisons and values under every operation | 2 objects, 3 blocks, unit 4, ints of 8 values, texts of 0, 1 and 3 bytes, 5 calls; 160 526 states |
| `sockets` | who closes what | 2 clients, 2 links, 1 server, 3 descriptors, 3 addresses of napcom, 5 sockets; 524 466 states |
| `codec` | round trips, digits, bounds | every byte, all strings of up to 4 bytes of 6 patterns, texts that are no encoding; 34 568 states |

Why the bounds are enough. Thread pool: with two workers one can sleep, or be
between test and sleep, while the other runs a task that pushes; with two clients
two more pushes overlap; three tasks make a queue longer than one and leave a
task for a push during shutdown. Safety is proved for any number of them
(section 4), liveness is checked at this size only.
napcom: two frames are the least at which a cut frame can be followed by
another, two senders the least that can interleave; the window is smaller than
the longer frame in `napcom` and smaller than a header in `napcom_duplex`, so
every send is split. `MaxSends` bounds the frames begun per end.

AES: a block of two bytes can be empty, half full and full; two blocks are the
least that chain, four bytes make two, and end on a boundary or inside a block;
two messages show what an end leaves behind. The IV starts one below a carry, so
the counters carry into the next byte. Three bits are the least that hold a fill,
a random byte above the block size and one that is negative as a char. The three
properties of the run are proved for every size, cipher and text.
Hash: with a length field of two bytes in a block of six, the padding begins
before, at and behind the boundary, and takes one block or two; fifteen bytes
fill two blocks; the digest is proved right for every size and text. `MaxAbsorbed` bounds digests of digests without a reset.
JSON: three characters reach every character that can follow each place of the
grammar once; the longer texts have nested arrays and objects, a repeated key,
escapes, a string with a new line, and each is also tried with any one character
replaced and cut off anywhere. Three calls (`MaxCalls`) make a parse, a change and
a parse, or two parses and a change, of one tree. The values assigned are a number, one
with an exponent, a letter, a quote, a comma and a new line: read back, they are the
number, refused, a string with what follows, or no element at all.

Btring: two objects can move, swap, concatenate and append into each other; texts of
up to three bytes in units of four reach the end of a buffer, cross it and stay
inside; five calls make a string, fill it, move it and use both. An int of 8 values says lengths up
to 3, and strings of 4 and more are reached: without its condition on the length
`ComparisonsAgree` fails for two strings of 4 bytes. Its safety,
its order and its refinement are proved for any number. Sockets: three descriptors are
fewer than the objects could hold, so numbers are given out again and run out;
`MaxSockets` bounds the run; what it checks is proved for any number of each.
napcom's safety and its packet link are proved for any number of threads and any
packages.
Codec: six patterns tell every shift and mask apart, four bytes cover the three
remainders and a second block; what the run checks is proved for every string. Block
cipher: the secrets are shorter than, as long as and longer than each key; what the run
checks is proved for every secret, block and piece.

Deadlock is checked in every run. Where the system has nothing left to do, it
stutters in an action of its own (`Gone`, `Enough`, `Finished`).

### What was found

- `threadpool_stopped`: `stop` is tested before the mutex is taken, so a task
  can enter the queue after the destructor has set `stop`. The other runs, and
  the theorem `DestructionDrains`, show that it is still run.
- `aes_cbc_cuts`: `AesCBCDecryption::handle` keeps `buf` as the next chaining
  value after it has written `out`; for a block completed in the buffer these
  are the same memory. The test of CBC adds the ciphertext in one piece and does
  not meet it.

Met while modelling, stated in the models and without a run of their own:

- A receiver waiting for `mu_recv_channel` has already tested `state`
  (net.cpp:207-210), and reads on after another receiver was told "ruined", possibly
  from the middle of a frame. doc/network.md:7 asks callers of these classes to lock;
  the packet link is claimed for one receiver per end.
- An empty package writes its header and then meets `assert(size > 0)`
  (net.cpp:137); so does the receiver of such a header. Whether that aborts depends on the
  build. src/CMakeLists.txt sets PLATFORM from CMAKE_SYSTEM_NAME, but before
  `PROJECT`, when a native configure does not know that name; the release flags of
  src/src/CMakeLists.txt:32 (without NDEBUG) then do not apply, and CMake's own, with NDEBUG,
  do. With assertions `OnlyEmptyAborts` says that nothing else aborts; without them the
  empty package is delivered.
- A double or a character assigned to a node becomes a number whose text may be 1e+20,
  nan or a letter (json.h:108-121); stringify writes it bare, and the parser refuses it
  or, for a character like a quote, may read something else. `WritesMeaning` says that
  this, and what a refused text leaves, is all that is not read back.
- The bound of the loops of `operator>` and `operator>=` is an int (btring.cpp:100, 115).
  From 2^31 bytes in the shorter string on, the loop is cut short or skipped and the
  sizes decide: two strings of one size that differ only in what it skips are neither
  above nor below each other and yet not equal.
- A refused connect drops the descriptor it has made (net.cpp:259-268);
  `LostOnlyWhenRefused` says that nothing else does.
- The comment at json.cpp:374 says that only the first character of a number can be
  a minus sign; the condition below it accepts one anywhere.
- The length argument of `add` has 32 bits, doc/hash.md:23 gives it as size_t; of
  longer data only the remainder is hashed. `HashStreamProofs` needs texts below it.
- `Base64::decode` of one to three characters reads outside its strings
  (trans.cpp:154), and characters above 127 outside the table.
- `AesKey(const btring&, Type)` leaves the rest of a short key unwritten
  (aes.cpp:227), where `AesKey(const char*, size_t)` fills it with zeros.

## 4. What is proved

`ThreadPoolProofs.tla` proves, for every number of threads and every set of
clients and tasks, from the assumptions named in `ThreadPool.tla` (Threads is a
natural number, clients are finite in number, names differ):

| Theorem | Statement |
|---|---|
| `TypeCorrect` | Spec => []TypeOK |
| `StopHeard` | Spec => []StopIsHeard |
| `WakeupsKept` | Spec => []NoLostWakeup |
| `OnePlaceAlways` | Spec => []OnePlace |
| `DestructionDrains` | Spec => []Drained |
| `PoolImplementsService` | with Threads > 0: Spec => ImplementsService |

The argument. Type correctness is not inductive alone: `WorkerTake` takes the
head of the queue, which is there only because the predicate was true and the
worker has held the mutex since. `Inv` therefore joins the typing with `MutexInv`
(whoever is in a critical section owns the mutex), `PushInv` (only a running
worker is inside push), `TestedInv` (what the predicate said is still so) and
`PhaseInv` (what each phase of the owner implies for the others). On top of it
`PlaceInv` says where tasks are: a task somewhere is pending, a pending task is
somewhere, and the places are apart. `DrainInv` adds that the last worker leaves
only with the queue empty, after which nobody is left who could push.
`NoLostWakeup` is inductive relative to `Inv`: the proof counts awake workers and
pending notifications with the theorems about finite sets. The refinement maps
`PushEmplace` to Accept, `WorkerTake` to Start, `WorkerFinish` to Finish, `DtorEnd`
to Close, and every other step to a stutter.

`HashStreamProofs.tla` proves, for every block size, width of the counters and
set of texts, from the assumptions named in `HashStream.tla` and from
`TextsCountable` (each text is shorter than the length argument and the counter
of blocks can say):

| Theorem | Statement |
|---|---|
| `NothingIsLost` | Spec => []NothingLost |
| `CountsRight` | Spec => []CountRight |
| `DigestsAreRight` | Spec => []PadsRight |

The first two follow from one invariant. `NothingLost` alone is not inductive: `add` casts
the length of its argument, so the text must be a countable one (`TextInv`), the
block must not be full, and `data` must be empty between two calls, or the next
call would overwrite what was left. The count is right also in the middle of
`add` (`CountInv`), and it does not wrap because a block more still is not more
than the text. After a digest nothing is claimed until the next reset.

`DigestsAreRight` needs a second one (`PadInv`). It says what the three parts hold
while the padding is added, the padded text, and while the length is, the whole
message; that only whole blocks are compressed; and what the last answer was. With
less than a block left and a whole number of blocks in all, nothing is left, so what
was compressed is the message (`WholeIs`). That the numbers of zeros in the code
and in the RFCs agree is arithmetic modulo the block (`ZerosForIs`), which is where
texts that end before, at and behind the place of the length part ways; SHA256 writes
one block or two and is compared with the same message (`Sha256Is`). The length field is
the digits of the length by recursion on its place (`ShiftsAre`).

`NapComProofs.tla` proves, for every number of threads, every size of byte and
window, every set of packages and builds with and without assertions, from the assumptions
named in `NapCom.tla`, from
`SizesCountable` (a package is shorter than 2^32 bytes, or net.cpp:181 cuts its size)
and, where it says so, from `OneReceiver` (one receiver at each end):

| Theorem | Statement |
|---|---|
| `NapComSendsWhole` | Spec => []SendsWholeFrames |
| `NapComEmptyAborts` | with `OneReceiver`: Spec => []OnlyEmptyAborts |
| `NapComImplementsLink` | with `OneReceiver`: Spec => ImplementsLink |

Two invariants carry them. `SendInv` is about one direction and needs no bound on
threads: the frames an end has begun lie end to end (`Chained`), every byte written
is the byte of its frame (`Carried`), the bytes end inside the last frame, and at its
end when nobody writes and no error was seen (`InFrame`); a thread inside
`sendpackage` owns the mutex and has in hand exactly the rest of that last frame
(`Writing`). None of these is inductive alone: a frame may only be begun where the
last one ends, which is known because the mutex was free and `state` true. `LinkInv`
adds the receiver: what it has given is a prefix of what its peer began (`Given`),
and its place in the stream is the beginning of the next frame plus what it holds
(`Reading`), so the four bytes it takes for a header are one. The header of a frame
says the size twice because the limit is below the square of the base (`TwoDigits`).
The refinement maps `SendStart` past its tests to Send, `RecvDone` to Deliver, the
returns of "ruined" to Ruin, and every other step to a stutter. Both assumptions
are needed: two receivers can split a frame between them, and a package of 2^32
bytes has the size of an empty one.

`BtringProofs.tla` proves, for every set of objects, texts, lengths and bytes and
every unit of growth, from the assumptions named in `Btring.tla`:

| Theorem | Statement |
|---|---|
| `BtringTyped` | Spec => []TypeOK |
| `BtringMemorySafe` | Spec => []MemorySafe |
| `BtringOneOwner` | Spec => []OneOwner |
| `BtringFieldsTrue` | Spec => []FieldsTrue |
| `BtringImplementsString` | Spec => ImplementsString |
| `BtringOrder` | Spec => []ComparisonsAgree (the order of strings of which the shorter has a length below `IntMod \div 2`) |

The first four are inductive together and not one by one: an access is safe because the
capacity is within the buffer, the buffer is live because it has an owner, and a
free frees nobody else's because it has only one. `Keeps` says what a private function
may do to the heap it is given (use the buffer of its object and one free block,
leave all others alone, end with true fields); there is a lemma per function that it
keeps to it, and two lemmas (`ConstructKeeps`, `CallKeeps`) carry that to every
operation. Append is where the order matters: the argument may point into the buffer
that is freed.

The refinement goes the same way a second time. `Holds` and `Shows` say which bytes an
object's content stands for; for each private function there is a lemma about the value
it leaves, given the value its argument had before, also where that lay in the
buffer that is freed. A call that changes one object leaves the cells of the
others alone, because no block has two owners, so their values stay (`UpdateBecomes`);
with that each operation is one step of `ByteString`. The order is a fact about two
strings: they are equal, or one is the beginning of the other, or there is a least place
where they differ (`LeastNumber`), and every operator decides by it. It rests on bytes
being numbers and on the shorter length being one an int can say, which stays what it is
when it becomes one (`SmallAsInt`); beyond that the statement claims nothing.

`CodecProofs.tla` proves, for all byte strings and texts shorter than a size_t can
count, from `GivenAssumption`:

| Theorem | Statement |
|---|---|
| `CodecRoundTrips` | Spec => []RoundTrips |
| `CodecStaysInside` | Spec => []StaysInside |
| `CodecTyped` | Spec => []TypeOK |
| `CodecDigits` | Spec => []DigitsRight |

The invariant (`Source`, `Result`, `Encoded`) says where the text and the decoded bytes come
from; the rest is arithmetic. `Blocks` says that four digits of six bits give three
bytes back, `Digits` that each character gives its digit, `Base64Undone` puts the
places of bytes and characters together, with the last, filled block apart.
`CodecDigits` compares them with the RFC: a byte is the sum of its bits
(`ByteOfBits`), the numbers the standard counts out of four or six of them are the
digits of the shifts and masks (`Fours`, `Sixes`), the tables are its alphabets
(`HexLetters`, `Base64Letters`), and the lengths agree (`DigitCount`).

`SocketsProofs.tla` proves, for every number of clients, links, servers, descriptors,
napcoms and sockets, from the assumptions named in `Sockets.tla` (numbers are numbers,
and the kinds of objects are apart):

| Theorem | Statement |
|---|---|
| `SocketsOwned` | Spec => []Ownership |
| `SocketsTrueDescriptor` | Spec => []TrueDescriptor |
| `SocketsLoseOnlyRefused` | Spec => LostOnlyWhenRefused |
| `SocketsSpareNapcoms` | Spec => DiesWithItsHolder |

The kernel gives out descriptors again, sockets never: `Numbered` says that no two
descriptors lead to one socket and no two objects were made for one. `Sharp` says that
the objects that were made for a socket are just those that hold a descriptor, `Stands`
that the descriptor leads to that socket and that 0 is the program's. Together with
`OneHolder` (a napcom has one owner) and `Ports` they are inductive, and none is alone:
a destructor closes by number, and takes no other object's socket away only because
the number still stands for the socket it was taken for. The lost descriptors are those
that are open and that nobody holds; a step takes one descriptor away from its holder at
most, and in every step but `Refused` it closes it or hands it on.

`AesStreamProofs.tla` proves, for every size of block and IV, every number of bytes a
byte can be (more than two blocks, which makes the last byte of a padding readable),
every permutation of the blocks and every text, from `CipherAssumption`,
`XorAssumption` and `InputsAssumption`:

| Theorem | Statement |
|---|---|
| `StateIsKept` | Spec => []KeepsItsState |
| `CutsAreHidden` | Spec => []CutsDoNotShow |
| `DecryptionUndoes` | Spec => []RoundTrip |

The lemmas come first. A counter is a number written in bytes, and adding one carries as
far as it must, so the counter after a message is that of its number of blocks. `Blocks`
and the rest take a sequence apart and `Flat` puts it together again; what is added to a
text changes none of its whole blocks. `Streamed` and `Chained` say what each
mode makes of a list of blocks. `Holding` says what an object is that was given a text: its
result is what the mode makes of the whole blocks, its buffer is the rest, its chaining
value or counter is the next one. `add` keeps it however the text is cut, the buffer
being filled, the blocks of the input and the rest one after the other, except for CBC
decryption with something in the buffer, where the code overwrites the value it needs;
there `aligned` is false and nothing is claimed of the result. `end` makes of it the
message of the mode (`StreamEnded`, `PaddedEnded`, `UnpaddedEnded`).

The invariant (`Inv`) adds to the types and to `Holding` (`Keeps`) the messages that
were ended (`Messages`) and that the k-th message decrypted is the k-th one encrypted
(`Replies`). None of the three properties is inductive: the next IV depends on the
length of the last message (`After`, `Following`), and the round trip on both objects
having begun with the same one. Decryption then undoes encryption because the
cipher is injective and the exclusive or undoes itself, byte by byte, and removes the
padding that was added because its length fits into a char and an encrypted message
has a last byte.

`AesCipherProofs.tla` proves, for every set of secrets, blocks and pieces, from
`InputsAssumption` and from the two assumptions about the literal tables,
`TablesAssumption` and `StandardAssumption`:

| Theorem | Statement |
|---|---|
| `BlocksGoBack` | Spec => []RoundsUndone |
| `SealedIsOpened` | Spec => []OpensAgain |
| `HashIsPolynomial` | Spec => []HashIsSum |
| `CipherImplementsFips197` | Spec => ImplementsFips197 |

The tables are the one thing tlapm does not look into: 256 entries of a function are too
many for its provers, and what is to be said of them is a closed fact that TLC evaluates
whole. Everything that follows from them for arbitrary keys and blocks is proved, on
bytes as numbers: exclusive or is the sum of the bits in which two bytes differ
(`XorBits`), so it is commutative, associative and its own inverse (`PlusCommutes`,
`PlusAssociates`, `PlusTwice`).

The way back. The tables of the inverse are linear, and a row of them times a column of
the others gives 1 or 0 (`LinearTables`); so unmixing undoes mixing for every word
(`TopComesBack` for its first byte, `UnmixedMixed` by turning it, `MixUndone` for a
block). Rows and S-boxes undo theirs (`RowsUndone`, `BoxesUndone`), and a round key added
twice is gone. The invariant `Inv` adds to the
types that a schedule begins with the words of its key, goes on as `NextKey` says and
is the reversed one once it is complete (`KeysRight`), that `trace` is what the rounds
made of the block (`TraceRight`), and where decryption stands (`WayBack`). `RoundsUndone`
is not inductive: a round goes back only because the trace was made by the rounds, with
the round key that the reversed schedule has in that place (`ReversedAdds`). Equal keys:
two schedules with the same first words are the same, by induction over the words
(`SameSchedules`), and the three constructors take the same words from one secret unless
memory is unwritten (`EqualKeys`).

GHASH. Multiplying by x (`NextV`) is linear, so the sum of shifted blocks the loop
adds up (`Product`) is additive in both factors, commutative and associative
(`ProductsSwap`, `ProductCommutes`, `ProductAssociates`). It is what the loop of
`g_num128` computes, bit by bit and byte by byte (`NumIsProduct`), and it is the
definition, the exponents that occur an odd number of times folded back twice
(`PolyTimesIs`, by induction over the bits of a factor: one bit more adds the other factor,
shifted, `UnreducedGrows`, and a shifted block folds to a power of `NextV`, `ShiftedReduced`). The blocks of several calls are one
sequence (`BlocksAppended`), hashing them in several calls is hashing them in one
(`HashedGoesOn`), and Horner's scheme is the sum of powers (`SumIsHash`). The
invariant that goes with it is `HashRight`: S is the hash of all the blocks so far.

The refinement. The state of the standard is column after column, the matrix of the code
row after row. There is a lemma for each transformation (`StandardBoxes`, `StandardRows`,
`StandardColumns`, `StandardRoundKey`, `StandardWord`) and one for each action: a
constructor's first step is Key, `ExpandKey` is Extend, the first additions of a round key are
Begin, the rounds are CipherRound and InverseRound; `ReverseKey` and the hash are
stutters. The reversed schedule read forwards is the schedule read backwards, which is how
the standard has it.

Induction. The prover cannot instantiate theorems that take an operator, so the lemmas at
the head of the proof modules that need them take a set of numbers in place of the
predicate and follow from the least element of a set (`LeastNumber`, `InductionOnNat`,
`InductionUpTo`); `RecursiveFunction` says that a function defined by recursion exists,
which TLA+ does not promise of itself. They stand in each of these modules. A model that is to
be proved about therefore has recursive functions on numbers. The rest is division by a number
that is not given, which the SMT solver knows little of.

Only model-checked: liveness, as fairness and ENABLED are out of the prover's reach. The four
properties of `Json`, whose parser is recursive on texts and trees: the recursive operators
that say so cost a module its SMT solver, and the induction would be over trees. The
entries of the literal tables, which TLC evaluates. The two expected violations are runs.

## 5. Plan

Done: every component of section 2 with its runs, and the proofs of section 4. Every
invariant, action property and refinement of the thread pool, napcom, AES and hash
streams, the AES block cipher, btring, sockets and codecs is a theorem. What is left:

1. The compression functions of the hashes against FIPS 180 and RFC 1321, the way
   `AesCipher` is held against FIPS 197.
2. `Json` with a parser that is a recursive function on positions and depths, so that at
   least `TreeWellFormed` could be proved.

## 6. Not modelled

The compression functions of the hashes (fixed arithmetic that the vectors in
test.cpp cover), copies and moves of AES keys, the AESNI branches, addresses,
timeouts and blocking mode in `net` (single system calls), the clock, sleep and random helpers,
the test harness, the build scripts, Windows variants, and UDP (only a socket
type, no operation uses it). Where callers break what the documentation asks of them
(an object used by two threads, a thread inside an object under destruction) the
models do not go on.

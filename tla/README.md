# Verification of nonono

The repository collects some hundred small programs that share nothing but
their author.  This project models those with state worth a model: concurrent
or resumable control, owned resources, messages, failures.  Each is a system of
its own, so the modules form independent groups, one per program.

## Inventory

Modelled programs, their parts, and what makes each correct:

| program | state | operations | interacts through | hard behaviour | correct when |
|---|---|---|---|---|---|
| `c/krimskrams` event loop (`eventloop.c`, `coro.c`, `pushRD.h`) | two arrays matched by position, coroutine states, scan index | add, delete, poll, resume, yield, finish, error, stop | coroutine switches, `poll` | arrays change while they are scanned | arrays stay matched and own what they hold; nobody starves; resumed only for reported input |
| `c/krimskrams` server (`net.c`, `test/main.c`) | listening socket, connections, buffers | accept, read, write, quit | non-blocking sockets, the loop | partial reads and writes interleave; descriptors and memory are reused; resets | a client gets its own bytes back, all of them; `accept` is called only when there is a connection |
| its broadcast of standard input (`test/main.c`) | an index and a descriptor kept over yields | read a line, write it to every entry | the arrays of the loop | entries move and descriptors change owners meanwhile | every client gets each line once and whole; exceptions are exactly known |
| `elixir/kv_umbrella/apps/kv` | ETS table, monitors, bucket processes, supervisor | create, lookup, `:DOWN`, restart | messages, exit signals, shared table | stale entries, calls that time out, crashes between two steps | no bucket is lost or named twice; dead ones are reaped; calls are answered |
| `elixir/kv_umbrella/apps/kv_server` | acceptor, a process per connection, held bucket | accept, hand over, command, restart | calls to `kv`, sockets | bucket replaced between lookup and call; the acceptor ends | linearizable maps; one connection's fate is not another's |
| `c++/libmss` | slots, descriptors, `select` set | receive, close, init | `select`, sockets | descriptors and slot numbers mix in a recursive `close` | slots share no client; `close` returns; refused clients are closed |
| `go/2zeo` | channels of slices, session handshake | Read, Write, Close, NewSession | channels, shared memory of slices | short reads, memory reused in flight, refusal of one side | sessions only with the whole key of a trusted peer; data in order |
| `c/unix-tcp-bridge.c` | two pumps with a buffer each, inherited sockets | connect, fork, pump, shut down, exit | sockets, `SIGCHLD` | two processes share two sockets; a signal cuts a write short | what arrives is what was sent; an end is passed on after everything before it |
| `python/unet-prototype` | a queue, two readers, a command | read, put, get, pass on, wait | threads, pipes, a socket | two streams and their ends mix in one queue; resets | no work after the end; both sides get all; the client is told |
| `go/db-test` | songs, users and stats in buckets | post, delete, get, list | transactions | requests run together and fail or crash between two writes, or between commit and answer | a song is its info and its file of one upload, or neither |
| `c/pthread-test.c` (`pmap`) | an array, a thread per element | create, join | threads | threads end in any order; one cannot be made or joined | the mapped elements are the joined ones, from the front, and all of them on success |
| `python/filetransfer` | length, content, what has come of it | send, receive, print | a connection | pieces of any size; cut anywhere | printed whole and once |
| `go/pinentry-hybrid` | mode, entries of a window or a terminal | GETPIN, CONFIRM, MESSAGE, SET... | GTK's handlers | several handlers may quit; state kept from the last change | OK and a passphrase exactly if the person agreed |
| `c/arena` | memory, pointer, rest | alloc, zalloc, free, reset, destroy | callers that free in the opposite order | blocks beside each other | blocks are apart and keep what they hold |
| `c/covis` buffer (`dynbuf.c`) | count and memory | resize, insert, write, delete | `realloc` | it fails, or gives NULL for size 0 | it holds what a sequence would |
| `c/bignum` | digits, point, sign | add, subtract, multiply, compare, split | operands changed in place | operands are left padded, and must mean the same | exact, operands keep their values; not so the sign of the smallest products |
| `c/pipes.c` | positions and directions | start, extend | nothing | wrap-around, tables by index | no pipe is broken |

Other parts of the repository are in `PROJECT.json` with the reason they are
left out (more than half of the repository's lines are third-party or generated:
`lodepng`, `glad`, `linmath`, a tutorial's renderer): programs whose state is one loop over standard input, games, graphics
(`opengl`, `vulkan`, `glad`, `lodepng`: third-party or generated), first programs
in other languages (`agda`, `ats`, `d`, `lean`, `lisp`, ...), shell scripts around
other programs, and programs that are I/O only.

## Modules

- `EventLoop` - the loop of krimskrams.  A coroutine may do whatever the API
  offers, so the module covers every program that uses it.  `coros`, `pollfds`,
  `state`, `i` are the variables of the code; `kernel` is what `poll` would report;
  `open`, `home`, `due` are history.  `AddFd`, `DelAt`, `DropAt` are the library
  calls; the branches of the scan are the actions `Skip`, `Resume`, `HangUp`,
  `UnknownEvent`, and the switch after a resumption is `SwitchBack`.
- `NetServer` - the echo server.  It contains `EventLoop` by `INSTANCE` with
  `kernel` replaced by what the sockets imply, calls its operators, and is
  proved to implement it (`Implements`; `ServerImplements` in `MCLoops`).  One action is one system call.
- `KVRegistry` - registry, buckets and the one_for_all supervisor.  A bucket
  stands for its process and for the monitor on it.  One action is what happens
  between two points at which a process can be interleaved: `CreateStart` and
  `Register` split `handle_call` at `start_child`.
- `KVStore` - abstract: a map per name, commands at one instant, at most once.
- `KVServer` - extends `KVRegistry` by the acceptor and the connections, and is
  proved to implement `KVStore` (`Implements`; the refinement mapping is at the
  end of the module).
- `MSS` - libmss; `stack` is the call stack of the recursive `MSS::close`.
- `Hose`, `Zeolite` - the connection and the handshake of 2zeo.  Slices are
  references to `mem`, so that memory reused after a `Write` is seen.
- `Broadcast` - standard input of the server, in the variables of `EventLoop`, whose
  arrays it walks (`LoopState` declares them for the loop and the programs on it).  `reader` is the local state of `stdinReader` over its yields;
  `line`, `got`, `born`, `moved` are history, from which the two properties say
  who may get a line twice or miss it.
- `Bridge` - one connection of unix-tcp-bridge.  `pc`, `buf`, `put` are the two
  `copyData` loops, `now` what the system call they are in has done so far.
- `Unet` - one connection of unet: `ReadUnit`/`Put` are `threaded_read`, `Get` and
  what follows the handler.
- `Songs` - the handlers of db-test: transactions go over several actions, single
  calls of the database are one.  `draft` is what the open transaction has made of `db`.
- `Pmap`, `Transfer`, `Pinentry`, `Arena`, `Dynbuf`, `Bignum`, `Pipes` - a module for each
  program, an action for each function or handler.  `Bignum` is the arithmetic
  as operators that return result and operands as they are left, and a caller that
  applies one after another; `Pipes` one function.
- `*_proofs` - theorems; `MC*` and their `.cfg` files - instances for TLC.

Programs that have nothing to do with each other share an instance where their
questions are alike: `MCLoops` (EventLoop, NetServer, with fairness), `MCSafety` (MSS, Arena, Pmap, Songs, Dynbuf, Bignum, Transfer,
Pinentry, Pipes) and `MCStreams` (Zeolite, Bridge, Unet), and `MCBroadcast`
holds the loop with any coroutines and the loop with those of the test server.  There `program`
says which one a behaviour is about, and the others stay in an initial state, so
that a property speaks about its own program alone.

A definition followed by `\* mutant` is a plausible bug, kept beside what it
replaces; each property is known to fail with one of them.

## Runs

| run | question | instance and why it is enough |
|---|---|---|
| `loop_arrays` | Do the arrays stay matched and owned? Is a resumption always for reported input? Who can miss a broadcast line or get it twice? | 3 descriptors, standard input besides, 4 coroutines: deletions before, at and after the scan position, and reuse of both. Events `IN` and `HUP`; unknown events in `loop_server_liveness`. 2 lines of 2 bytes and 3 connections over 2 descriptors: a line is cut in the middle, its target leaves, and another takes its descriptor |
| `server_echo` | Is every peer sent exactly its own bytes? Is `accept` only called when a connection waits, and nothing else makes it fail with EAGAIN? | 3 peers for 2 connection descriptors, buffer of 2, 1 byte of socket room: every transfer can be partial, descriptors are reused and run out; `accept` may fail at any time |
| `loop_server_liveness` | Is a ready descriptor served although deletions skip entries? Does a stopped loop end? Is the server an instance of the loop? Does each echo complete? | The loop: 2 descriptors and coroutines, all events, `poll` that fails: one entry is deleted while the other is ready and moves into its place. The server: 2 peers, one of which sends more than the handler reads and the other quits or resets; buffer of 2, 1 byte of socket room: each write is cut short and waits |
| `kv_registry` | Do table, monitors and messages agree through every crash? Are dead buckets reaped, calls answered? | 2 names, 3 buckets, 2 callers, 1 restart: a name is created again while the old bucket's `:DOWN` is due, and the registry restarts |
| `kv_create_ensures` | Does the bucket run that `create` finds in the table and answers with? **No** | same |
| `kv_service` | Is the service linearizable? Does a connection keep to the bucket of its name? | 1 name, 2 buckets, 2 clients, 1 key: both clients meet in one bucket that is replaced |
| `kv_service_liveness` | Is every command answered, or its connection ended? | 1 bucket, no restart left: the limits are reached at once, also by an acceptor that fails |
| `tables` | Slots share no client, `close` returns? Do blocks, elements, digits, maps, songs and files keep what was put there? Are only agreed passphrases given? | MSS: 3 slots, listening descriptor 1, 4 clients: as with 5 and 3 in `mss-server.cpp`, the first client's descriptor is the last slot's number. Arena: 5 bytes in blocks of 1 to 3: three blocks, none left over, too large. Dynbuf: 3 elements of 2 kinds. Bignum: carries and borrows over one and several digits (9, 10, 95, 99, 100), both signs, points 0 to 2: all four branches of addition, digits and halves of different length in Karatsuba. Pmap: 3 threads, any of which may fail to be made or joined. Songs: 3 requests for 1 name, so that all meet. Transfer: contents up to 4 in base 3, where a length has two bytes and one may be zero. Pipes: 1 to 4 by 1 to 3 |
| `bignum_product_sign` | Is a product the product? **No** | 0, 5, 9, 10 with either sign: one operation is enough |
| `mss_refused` | Is a refused client's socket closed? **No** | as MSS in `tables` |
| `streams` | Which sessions can come about? Is what arrives what was sent, in order, and the end last? Do calls return, do ends arrive? | Zeolite: capacity 2, 2 and 1 messages of two units: every read can be partial, channels are full. Bridge: buffer 2, 1 unit of room, 1 unit up and 3 down: a write is cut in its middle, the buffer is filled more than once. Unet: 2 units each way, 1 of room in the pipe and 1 on the connection: the handler blocks on both |
| `zeo_hose_header` | Does each side get the other's header over a hose? **No** | same |

Deadlock is not checked: all of these systems may stop for good (the loop exits
or waits for input, clients stop sending, model bounds are used up).  What has to
happen is stated as liveness instead.

Bounds are named constants: `MaxSend`, `SendCap`, `Want` in `NetServer`,
`Intensity` (restarts, all counted as within one period) in `KVRegistry`,
`NClients` and `MaxFd` in `MSS`, `MaxMsgs` and `Cap` in `Zeolite`, `Line`, `MaxLines`
and `MaxConns` in `Broadcast`, `Buf`, `Gap` and `MaxSend` in `Bridge`, `MaxUnits` and
`PipeRoom` and `SendRoom` in `Unet`, `MaxCount` in `Dynbuf`, `Magnitudes`, `Points` and `Terms` in
`Bignum`, `Requests` in `Songs`, `MaxLength` and `Base` in `Transfer`, and process
identifiers, descriptors and addresses as finite sets.

### Findings

- `kv_create_ensures`: `KV.Registry.create` finds the entry of a bucket that has ended
  and whose `:DOWN` message is not handled yet, answers with it and starts none; the doc of `create` says
  it ensures that there is a bucket.
- `mss_refused`: inside the class `close(newSocket)` is `MSS::close(int)`, so
  neither refused nor departed clients are ever closed, and a descriptor that is
  also a slot's number evicts that slot's client.
- `zeo_hose_header`: `half.Write` keeps the caller's slice; `NewSession` reads the
  peer's header into the slice it has just written, so the peer may be given its
  own header.  This uses that the library's `Header()` returns the bytes the
  encoder holds, as its struct of a slice does.

- `bignum_product_sign`: for two operands of one digit `mulBignum` multiplies the
  digits and drops the signs: 5 * (-9) is 45.  `bignum.h` says that it multiplies two
  bignums.  `BignumExact` of run `tables` speaks of everything else: of such a product only the
  magnitude.

### What the properties had to leave out

Where the code does something else than one would like, and neither comment, doc nor
test says otherwise, a property states the exception instead of hiding it:

- Broadcast: who is given the descriptor of a client that left in the middle of a
  line gets the rest of the line first, and then all of it; when an entry is deleted
  the one that moves into its place is passed over.  A writer that waits for room
  goes on only with further input.  When its target's socket is closed, `stdinReader`
  ends, and standard input with it.
- Bridge: the exit of the child cuts one write of the parent short, which then
  writes its whole buffer again: one stretch comes twice (`OneReplay`).
- Unet: after a reset nobody tells the handler: it waits for the end of the command's
  output, and without that for ever (`UnetEnds`).
- Bignum: `subBignum(a, a)` flips the one sign it has; the caller here always has
  two numbers.
- Server: a failing `accept` costs it the listening socket, a hang-up without an error
  handler is a call of NULL, a write to a reset connection ends it by SIGPIPE.  The
  models do the same (`AcceptFails`, `HangUp`, `WriteKills`); nothing in the repository says
  what should happen, so there is no property about it.
- Server: a client that keeps its end open and waits for an echo that does not fit into
  the socket is stuck: its descriptor is polled for input only (`EchoComplete`).
- Pmap: a failing `pthread_join` leaves the front of the array mapped (`PmapPrefix`).
- Songs: a crash between the commit and the answer leaves a song whose upload was
  told nothing (`SongsWhole`).
- Dynbuf: deleting the last element reports -1 and leaves the pointer dangling.
- Transfer: a length with a zero byte in it (256) is taken to end at it.
- Songs: an empty file cannot be uploaded: reading it reports the end of the file.
- Pinentry: the terminal's answer has one space more than the window's; `CONFIRM` and
  `MESSAGE` forget that `SETREPEAT` was given.
- Arena: `Arena_zalloc` clears NULL when the arena is full.
- Pipes: a pipe may start one column or row off the screen.

### Fairness

- `EventLoop`, `NetServer`: weak fairness of the process (it is one thread that
  the system schedules) and of a coroutine switching back; of a peer reading what
  reached it.  Nobody has to connect, send or stop.  Of `EventLoop`, strong fairness of
  `Poll`: `poll` may fail, whereupon the loop scans old results, but not every time.
- `KVRegistry`, `KVServer`: weak fairness of each process: the registry handles
  every message it has (Erlang mailboxes are FIFO, so none waits for ever), the
  supervisors act, the acceptor and the connections run.  Crashes, timeouts and
  clients are not fair.
- `Zeolite`: weak fairness of each `NewSession`; none of what is done with the
  session.
- `Bridge`: weak fairness of the handler, of `main` closing its copy, of each
  pump and of each receiver reading; nobody has to send, stop or close.
- `Unet`: weak fairness of the handler's thread, of the two readers, and of the
  command reading its input and, being a filter, exiting at its end; of the
  client reading what it is sent, without which `conn.send` blocks, and with it the
  handler and the command.  The client need not send, nor the command print.
- What is left has no liveness property: one call, or what its caller does is open.

## Proofs

Each is for every value of the constants under the module's named assumption.
TLC checks the assumptions and the same invariants on the instances above.  Type
correctness is a part of each `IInv` and is proved with it.

- `EventLoop_proofs`: `IInv == TypeOK /\ Aligned /\ Owned /\ NoneOver /\ DueAhead`.
  `ResumedOnlyIfDue` is not inductive by itself: a resumption is due because all
  entries ahead of the scan that poll reported still are (`DueAhead`), which
  deletions that shift the arrays must keep.  Everything rests on
  `RemoveAtProperties`, what removing a position does to a sequence, and
  `DelAtProperties`.  Theorems: `TypeCorrect`, `ArraysAligned`, `ArraysOwn`,
  `NoCoroutineOver`, `ResumptionsAreDue`.
- `NetServer_proofs`: `IInv` is the invariant of the event loop (an instance of
  `EventLoop_proofs`) and `NInv`.  `Echo` alone is not inductive: a coroutine's buffer, the
  bytes still to be read and the bytes sent back must be consecutive runs of one
  peer's bytes (`Handled`), no two descriptors may lead to one peer (`Placed`), and a peer still
  in the queue must be untouched (`Untouched`).  `AcceptFindsOne` follows from `AcceptsDue`: when
  the accepting coroutine is due, by `DueAhead` of the loop, the queue is not empty.  That every
  step is one of the loop's (`NextIsLoops`) needs `Placed`, as what poll reports may change
  for one descriptor at a time.  Theorems: `OwnBytesBack`, `AcceptSucceeds`,
  `ServerImplementsLoop`.
- `Broadcast_proofs`: `BInv` is the loop's invariant, again an instance of
  `EventLoop_proofs`, and what is known of the line that is being written.  What a
  connection has of a line is always `Sent(r, m)`: the last `r` bytes, which another one was
  to get, and then the line from its start, `m` bytes of it all.  `Has` ties `r` to
  the history `born`, `Share` says for each position of the loop's array how large `m` is:
  positions behind the index have all of it, those ahead nothing more than the rest, and the
  target as much as `reader.put` says, from the start or as an heir.  A deletion moves
  entries only towards the front, so what is passed over is never written to twice; where
  there was no deletion, `Undisturbed` says that the index still means what it meant.
  `Conns` has the descriptors: no two connections share one, standard input's is its own
  until `stdinReader` has failed.  Theorems: `LinesAreSentOnce`, `LinesReachAll`.
- `KVServer_proofs`, first of `KVRegistry`: `IInv` adds `Bookkeeping` to the three safety
  properties: nothing of a registry outlives it, DOWN messages are for monitored dead buckets,
  an unfinished create is in no table.  Theorems: `Inductive`, `BucketsAreFound`,
  `TableMatchesMonitors`, `StaleEntriesAreDue`, `RunningBucketKeepsName`.
  Of the service, `HInv` is the registry's `IInv` and `Holding`: the bucket a
  connection holds has been started and, as long as it runs, is named.  It uses of the registry
  only that a step keeps the names of running buckets (`StepKeepsName`) and that
  none comes back to life (`NoneRevives`).  Theorem: `BucketsInUseAreNamed`.
  That the service implements `KVStore` needs more of it, `SInv` and `OneName`: which caller each
  message of the registry is from and what that caller does meanwhile (`Requests`), that a
  bucket is empty while it does not run or is in no table yet (`Contents`), and that no
  bucket has two names, also while there is no table (`OneName`).  A create counts as
  carried out at `Register` or `CreateFound`, the other commands at `CallBucket`, also for
  a caller that is gone; there is a lemma for each action (`CallMaps`, `RegisterMaps`,
  `DeathsMap`, ..., all in `StepMaps`).  Theorem: `ServiceIsLinearizable`.
- `Zeolite_proofs`: `IInv` follows a handshake for each side: the greeting is not
  touched while it is under way (`HelloKept`), what a reader's next unit is
  (`Aims`, `FirstMessage`, `Coming`) and what it has checked (`Checked`, all in `Sound`).  A first
  message read in half has zeros in place of its signature, which no check accepts.
  Theorem: `SessionsAreAuthentic`.  `JInv` adds what is on its way: the number of slices
  a side has sent (`Written`), of units it has taken (`Taken`), and that the rest of
  a slice in `buf` and the slices in the channel are those between the two
  (`Received`).  A slice in flight says what it said when it was sent, because messages
  are never written again (`MessagesKept`); the header is, and so a unit of it reaches
  a session only over a socket: of a hose a header is read whole (`History`, by parity:
  a read that returns with one unit would leave the other).
  Theorem: `SessionsKeepOrder`.
- `Streams_proofs`: that streams of any length arrive.  The lemmas are about sequences
  of consecutive units (`Run`): what joining, cutting and taking leaves of one.
  Of `Unet`, `UnetIInv` follows a unit on its way.  What a source was given is, in this
  order, passed on, in the handler's hand, in the queue (`Queued`: between the units of the
  other source, without a gap, its end behind them), in the reader's hand, and on the wire
  (`Flow`).  That the handler has passed everything on when it waits for the command
  needs that an end is the last of its source wherever it is (`EndLast`), and that the loop
  is left only at the command's end, since the client's end counts once (`Loop`).
  Theorem: `HandlerPassesOn`.
  Of `Bridge`, `BridgeIInv` says what each pump has delivered: the first `j` units
  and then the ones from `i` on (`Copied`), where `i = j + 1` except after the one
  short write (`Replayed`), which happens only when the child has ended and its signal
  was taken; for the next write to start in the right place the last unit
  delivered must be the one the pump thinks it has written (`Placed`).  An end is passed on
  only by a pump that is at its end (`Ended`).  Theorem: `BridgeCopies`.
- `SmallPrograms_proofs`, a section for each program:
  - `Arena`: `ArenaIInv == ArenaTypeOK /\ Stacked /\ Kept`.  `Kept` alone is not
    inductive: that filling one block leaves the others alone needs the order of the
    blocks.  Theorem: `BlocksAreKept`.
  - `Dynbuf`: `DynbufIInv` adds to `DynbufHolds` only types.  The work is in
    lemmas: what `reallocarray` may do (`Reallocated`), what `memmove` and `memcpy` do to
    each element (`AfterMove`, `AfterWrite`), and what an insertion and a deletion are
    (`Inserted`, `Deleted`), so that memory and ideal are compared element by
    element.  Theorem: `BufferHolds`.
  - `Songs`: `SongsIInv` has `Drafted`: one transaction is open at a time, and its draft
    is the database with exactly what it has written so far; so a commit writes
    both entries, and everything else neither; `Settled` has what the owner of a stored song
    was told: nothing yet, or success.  Theorem: `SongsAreWhole`.
  - `Pmap`: `PmapIInv` says how far each of the two loops is.  Theorem: `MapsInOrder`.
  - `Transfer`: `TransferIInv` counts the units of the stream that were read and sent
    (`Streamed`) and says what the reader is in the middle of at that place (`Phase`):
    the length, the content, or the zero byte behind it, which is read as an empty
    length and ends the thread.  It rests on `ConversionAssumption`: `from_bytes` undoes `to_bytes`.
    These are functions of Python, and folds and powers in the model, about which nothing
    can be proved for all numbers here; TLC evaluates the assumption on the instance.
    Theorem: `TransferredWhole`.
  - `Pinentry`: `PinIInv` relates the mode, the command and what is on the screen; a window
    that is open has no outcome yet, so the first handler to `quit` decides, and not the
    `quit(false)` by which the destroyed window calls it again; an OK that can be
    pressed means the entries agree.  Theorem: `PersonObeyed`.
  - `Pipes`: the invariant is the type; `CharJoins` is the table of characters case by
    case, `Along` the step along one axis of any length.  Theorem: `PipesUnbroken`.
- `MSS_proofs`: as nothing is ever closed, open descriptors are an interval
  (`Interval`); a client gets the first free slot and the next descriptor, which
  is larger than the slot's number (`Above`).  Hence the arguments of nested calls
  of `close` grow and the recursion ends, although it uses a descriptor for a slot.
  Theorems: `ClientsHaveOneSlot`, `CloseEnds`.

Only model-checked: liveness (TLAPS does not do fairness), and what the violation runs
show.  `Bignum` is out of reach of a proof: its numbers are folds over sequences, which
would need induction.

## Not modelled, and abstractions

- Names, bytes and keys are model values or small tuples; parsing a command line
  into words, printing and logging are left out.
- Process identifiers are never reused; restarts all count as within one period.
- `EventLoop`: `krk_eventloop_delFd` from inside a coroutine only for later
  entries (earlier ones move the running coroutine off the scan position); failing
  `malloc` is left out.  `NetServer`: name lookup and `readAny` (no caller); a failing
  `poll`, here and in `Broadcast`, whose kernels are functions of the sockets.
- `Broadcast`: of the clients' own coroutines only that they come and go.
- `MSS`: clients act between two calls of `receive`; `send` and the getters change
  no state.
- `Bridge`, `Unet`: one connection; the accept loops repeat it.  `exit_handler` of unet
  joins all handlers and is left out.  A write of the bridge whose sink goes away under it
  fails at once, without the short return before.  A send of unet passes a whole unit on,
  although the code drops the count of a short one.
- `Songs`: the database is external, with its transactions; contents are the
  name of the request that wrote them.
- `Bignum`: `divBignum`, whose ten rounds double the number of digits.
- `Arena`: `size_t` is unbounded.
- Programs not modelled: `go/adapter` has files with a buffer per open file, but
  nothing in it creates one; the C client of zeolite speaks a protocol no server in the
  repository has; `cspkg` is an earlier form of `go/2zeo`; `wired`, `gothere`, `fmm`,
  `json-fuse` pass a request straight on to a library or a service; the remaining
  programs are named with their reasons in `PROJECT.json`.
- `Zeolite`: cryptography is external; one goroutine per half; no half is closed twice,
  which would panic (`hose.go:47`).

## Plan

That every step of `Broadcast` is one of the loop's, as of `NetServer`: `Accept`, which
registers and yields at once, has to be split for it.

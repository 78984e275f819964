# A TLA+ model of eframework

eframework is a small C framework for servers on one thread: a run loop accepts
connections, starts a coroutine for each, and the wrapped calls of the user
procedures (`ef_routine_read` and its kin) register with a poll object and yield
until the descriptor is ready. This directory holds TLA+ modules translated from
`src/src/`, TLC configurations for small instances, and TLAPS proofs.
`PROJECT.json` maps every definition to the lines it stands for.

## 1. Inventory

| component | state | operations | what makes it correct |
|---|---|---|---|
| fiber switching (`fiber.c`, `amd64/fiber.s`) | `current_fiber`, `parent`, status word, saved stack | create, init, resume, yield, return, delete | control returns to the latest resumer; no stack runs twice |
| fiber stacks (`fiber.c`) | `stack_lower`, mapped pages | create, delete, SIGSEGV handler | contiguous stack, guard page never mapped |
| coroutine pool (`coroutine.c`) | full and free list, two counters, exit times | create, resume, exit, shrink | counters equal lists, limits kept, only idle coroutines are freed |
| run loop (`framework.c`) | listeners, queues of accepted descriptors, free nodes, `stopping`, a `poll_data` per routine | add_listen, accept, dispatch, queue, stop, shrink; read, write, recv, send, connect, close | a waiting routine is registered; events go to those who wait; every accepted connection is served once; SIGTERM ends the loop cleanly |
| poll over epoll (`epoll.c`) | the kernel's set | associate, dissociate, wait | part of the run loop's model |
| edge-triggered epoll (`epollet.c`) | items, filled area, index, kernel's set | the same and unset | exactly the ready items are at the front |
| poll over poll(2) (`poll.c`) | array without holes, index | associate, dissociate, wait | implements a set of registrations |
| poll over event ports (`port.c`) | the port's one-shot set | the same | a routine that waits is associated, or its event is handed out already (but for data that goes away, section 6) |
| hash table (`structure/hashtable.c`) | buckets, chains, removed list | set, find, remove, resize, free | implements a map, destroys each value once |
| list, strings, vectors, string and header tables | | | (not modelled) |
| buffered I/O (`structure/bufferio.c`) | a reader's and a writer's buffer | read, skip, write, flush | no byte lost, repeated or overtaken, buffers never overfilled |
| FastCGI (`fastcgi.c`) | request, collected parameters | read a request, write a response | parameters as sent, a response of legal records |
| Redis client (`redis.c`) | one buffer, `seek`, `end` | command, read a reply, free it | the reply as sent; reading ends |
| HTTP client (`http.c`), conversions (`basic/`) | buffers, header tables | | (not modelled) |
| example program (`main.c`) | | SIGTERM handler, five procedures | handler, `fcgi_proc` and `redis_proc` modelled |

**Interaction.** Everything is on one thread. The run loop calls the pool, the pool
the fiber layer; a routine that waits hands control back through
`ef_fiber_yield`. Loop, routines and poll object share the `poll_data` records
whose addresses the kernel keeps. Asynchronous are only the kernel and the peers
(connections, readiness), the SIGTERM handler, and the SIGSEGV handler that grows
the running stack.

**Hard behaviours.** The order in which events of one batch are dispatched while
earlier ones change what later ones refer to; descriptor numbers that are reused;
a stop request at any moment; a pool or descriptor table at its limit; array
compaction under iteration; and calls that fail half-way. They are listed, with
line and property, under `hazards` in `PROJECT.json`.

## 2. Modules

| module | models | notes |
|---|---|---|
| `Fiber` | `fiber.c`, `amd64/fiber.s` | registers abstracted to what a saved stack holds: an entry, a `resume` or a `yield` frame |
| `CallStack` | promise of the fiber layer | a stack of calls, sets of parked and finished fibers |
| `FiberMemory` | stack areas of `fiber.c` | unit is the page, page 0 is the lowest |
| `CoroutinePool` | `coroutine.c` | EXTENDS `Fiber`: pool operations contain the fiber operations they call |
| `Coroutines` | promise of the pool | used by `Framework` for its coroutines |
| `Framework` | `framework.c`, `epoll.c`, handler of `main.c` | user procedures are arbitrary sequences of wrapped calls on their connection and on sockets they open |
| `Doubling` | capacities that double until something fits | shared by the poll objects and the hash table |
| `Poll` | `poll.h` | descriptors, events and first capacity, shared by the next two |
| `Epollet` | `epollet.c` | wait is cut at its loop over the kernel's events (`todo`) |
| `PollSys`, `PollSet` | `poll.c`, promise of a poll object | `ep->index` and `ep->cap` are called `slot` and `pcap` |
| `PollObjects` | the two objects with arrays of their own behind `poll.h` | EXTENDS `Epollet` and `PollSys`; `linked` says which one the program is built with |
| `WrappedCalls` | the wrapped calls, events and queue of `framework.c` over `epollet.c`, `poll.c` and `port.c` | EXTENDS `PollObjects`; `port.c` is inside of it, its only state is the kernel's. The kernel's readiness changes between any two steps |
| `BufferIO` | `structure/bufferio.c`, `buffer.c` | a byte is a token; one turn of `ef_safe_read`/`ef_safe_write` is a step |
| `FastCGI` | `fastcgi.c`, `fcgi_proc` | EXTENDS `BufferIO`; `at` is the place in the code. Headers are two tokens, records padded to two (the code: 8 bytes each) |
| `Redis` | `redis.c`, `redis_proc` | the buffer cell by cell, since `strstr` looks past its end. Undefined behaviour of the parser is the place `undefined`; a reply that the exit of `redis_proc` frees and does not have is `bad_free` |
| `HashTable`, `Map` | `hashtable.c`, promise of the table | the hash is any function of the key |
| `MC...` | constants and symmetries of four runs | `MCWrappedCalls` has a second caller: `epollet.c` under every caller its module allows, since the framework alone never removes an item while it, the last filled one and the last one are three |
| `FiberMemoryProofs`, `CoroutinePoolProofs`, `FrameworkProofs`, `RecursionProofs`, `WrappedCallsProofs`, `FastCGIProofs`, `RedisProofs`, `HashTableProofs` | theorems about the module named | `CoroutinePoolProofs` begins with those about `Fiber`; `WrappedCallsProofs` with those about `Epollet`, `PollSys` and `PollObjects`, which it rests on. `RecursionProofs` is about functions defined by recursion, among them those of `Doubling`, and about the places of what a recursion joins; `FastCGIProofs` and `RedisProofs` rest on it |

Correspondence: an action has the name of its C function and is the whole
function where no control changes hands inside it. `ef_run_loop` is cut where a
routine takes over or the kernel is asked: `loop` is the place (`wait`,
`dispatch`, accept, queue, ...). A wrapped call is cut at `ef_fiber_yield`:
`WaitFor` up to the first yield, `Again` the EAGAIN path that yields again,
`Complete` the rest. (`WrappedCalls`, where the poll objects differ in what
happens between EAGAIN and the yield, cuts finer: `Begin`, `Succeeds` or
`TryAgain`, `Resume`, `Finish`.) Read, recv, write and send share these actions and differ in
the event asked for and in the errors tested. A guard of an action is the code's
test; a call that returns an error before it changes anything is a stuttering
step and has no action. Definitions commented `Mutant:` are broken variants of
the definition below them: no specification uses them; they show that the
property named for them in `PROJECT.json` is able to fail.

## 3. Runs

| run | checks | shows |
|---|---|---|
| `FiberMemory` | `MemoryInv`, `GuardPage` | stacks of four pages faulting anywhere: contiguous, guard page kept |
| `CoroutinePool` | `FiberInv`, `ChainReachesThread`, `ImplementsCallStack`, `PoolInv`, `FreeListByAge`, `ShrinkKeepsMinimum`, `ShrinkFreesOnlyIdle`, `ShrinkFreesAllIdle`, `ImplementsCoroutines` | any nesting of four fibers under the pool: parent pointers implement a call stack; lists, counters, limits, idle times in whole seconds |
| `CoroutinePoolHalfSecond` | `ShrinkFreesOnlyIdle` violated | finding 1 |
| `Framework` | `TypeOK`, `WaitRegistered`, `EventsCurrent`, `QueuedOnce`, `CleanExit`, `NoForeignClose` | the run loop with faults and a stop at any time |
| `FrameworkEarlyClose` | `NoForeignClose` violated | finding 2 |
| `FrameworkLive` | `Stops`, `Served` | one listener: every connection is started, SIGTERM ends the loop |
| `FrameworkStarve` | `Served` violated | finding 3 |
| `WrappedCalls` | `CallsTypeOK`, `NoOtherLostWakeup`, `NoOtherForeignEvent`, `ArrayInv`, `FilledAreReady`, `ArraysFit`, `PollInv`, `CallsImplementPollSet` | over each poll object, with data that goes away and connections that break: whatever happens between EAGAIN, `unset` and the yield, the event a routine waits for is handed out or watched for (but for data that goes away over `port.c`, section 6), and only that routine is resumed for it (but for hangups over `epollet.c`, finding 4). Swaps, removals, compaction and growth of the two objects' arrays; for `epollet.c` under any caller, with refused registrations |
| `WrappedCallsReset` | `OwnEvents` violated | finding 4 |
| `HashTable` | `TableInv`, `OwnedStored`, `ImplementsMap` | chains, reuse, resize, failed insertions |
| `FastCGI` | `TypeOK`, `BytesInOrder`, `RequestAsSent`, `RecordsFilled`, `ResponseAsBuilt`, `Returns` | two requests and answers on a connection cut anywhere |
| `Redis` | `TypeOK`, `ReplyAsSent`, `ReadReturns` | two commands, replies of every type, cut by reads; claims about the parser, and none about a reply once a read has torn it |

**Bounds, and why they are enough.**
Four fibers give chains of every shape up to depth four, and a pool limit of
three leaves one fiber that can only be refused. The clock of the pool advances
in steps of 0.7 s, so exits and shrinks fall on both sides of second boundaries;
idle arguments are 0 and 1 s, counts positive and negative. The run loop has two
coroutines and four descriptors: a listener, two connections and a socket fill
the table, so that accept and `socket` fail, numbers are reused at once, and a
third connection finds the pool full; two events per wait are the smallest batch
in which one event can spoil the other. The hash table starts with two buckets (the code: 8, a power of
two, which is all that matters) and five keys that collide; it grows to four.
Values are symmetric there and fibers in the pool's run.

`WrappedCalls` has a listener and two descriptors for two routines: a number is
reused, a routine holds two descriptors while the other has none, and an accepted
connection waits for a routine. In every state the kernel may break a connection or
take data away, whatever the object. Three descriptors are the least for which the
removed, the last filled and the last used slot are all different, which the other
caller of `epollet.c` reaches; the arrays start with capacity one (the code: 1024), so
that growth happens. The FastCGI run scales the buffers
to eight tokens: a fourth of it, two, is the limit between what goes through a
buffer and past it, so that headers, parameters of eight tokens and responses of
two to twelve fall on both sides; records hold at most five, so a response takes
one to three. `MaxRequests = 2` lets the second request meet what the first left.
The redis buffer of 16 characters is shorter than the longest reply and longer than
every line; two commands suffice for the second to meet the first one's
characters; two short reads per reply (`MaxCuts`) and any number of full ones.

**Deadlock** is checked except in `FiberMemory`, where the process is gone after
SIGABRT, and in `WrappedCalls`, where the wake-up that `port.c` loses (section 6) can leave
nothing to do; over the other two objects alone the run passes with deadlock checked. `Returned` lets the run loop's model stutter after
`ef_run_loop` returned.

**Fairness** (`FairSpec` of `Framework`). The one thread always runs on, hence weak
fairness of the loop's steps and of the routine that has control. Beyond the code
itself, liveness needs a world that answers: the kernel eventually reports a
descriptor that is ready again and again (strong fairness of `Reports` per
listener and routine), a peer eventually lets a call complete instead of
answering EAGAIN forever, and a user procedure eventually closes its sockets and
returns. The code has no timeouts, so without these a silent peer keeps a
routine, and a stopping loop, for ever. Faults are off in the liveness runs.

`FastCGI` and `Redis` assume weak fairness of the client's own steps, reads and
writes included: the thread runs on, and the peer sends, closes or breaks. A peer
that does none of these keeps a call waiting; then its step is not enabled and
nothing is claimed, except that the peer in these models sends whole messages.

## 4. Findings

1. *Idle time of a fraction of a second.* `coroutine.h:126`: frees coroutines
   "whose idle time exceed idle_millisecs". The test compares seconds first and
   then microseconds with milliseconds: with 500 it frees after 400 ms. Theorem
   `ShrinkIdle`: exact for whole seconds. `main.c:268` passes a whole minute.
2. *Close after an early close.* `framework.c:52`: "it may or may not closed by the
   user code". `ef_proc` closes the number again, and it may by then belong to
   another connection. Without early closes `NoForeignClose` holds.
3. *Starving listener.* `README.md:17` promises a coroutine for a ready listener.
   The queue loop begins at the first listener each time, so with a full pool the
   second can wait for ever. With one listener `Served` holds.
4. *A hangup for another call* (`epollet.c`). `README.md:18`: a routine is resumed when
   the event it waits for is ready. The item of a descriptor outlives the call, with
   nothing waited for, and a reset (`epollet.c:139`, `293`) hands it out with its last
   `ptr`. A routine that holds two connections and waits on the sound one is resumed
   with HUP; its write or connect returns EBADF. `forward_proc` is such a routine. If its
   call only tries again, `unset` clears the other descriptor's item and this one stays
   filled; `ef_epoll_wait` asks the kernel only when nothing is filled
   (`epollet.c:279`), so the loop spins on it. The Makefile links `epoll.c`, where this
   does not happen.

## 5. Proofs

For every value of the constants that satisfies the named assumptions:

| theorem | statement | argument |
|---|---|---|
| `FiberSafe` | `[]FiberInv` | inductive as it stands: one runner; status matches saved frame; resumers are distinct and saved in `resume`. One lemma per operation |
| `PoolChain`, `FiberChain` | `[]ChainReachesThread`, under the pool and for the fiber layer alone | `Chain`: there is a list of the resumed fibers in which each one's parent is the one before it; see below |
| `PoolCallStack`, `FiberRefines` | `ImplementsCallStack`, likewise | that list is the abstract stack (`DepthIs`) |
| `GuardPageKept` | stacks above one page: `[]GuardPage` | `GuardPage` alone is not inductive; `MemoryInv` adds that exactly the pages from `stack_lower` (at least 1) are mapped |
| `PoolSafe` | `[]PoolInv` | `FiberInv` is part of it: that no coroutine on the free list runs is what lets `ef_fiber_init` and delete be called. `PoolFacts` restates the invariant over indices, `TailCount` counts what a shrink cuts off |
| `ShrinkMinimum` | `ShrinkKeepsMinimum` | from `PoolSafe` and `ShrinkFacts` |
| `ShrinkIdle` | idle times in whole seconds: `ShrinkFreesOnlyIdle` | `IdleExact`: the two-part comparison is the comparison of instants |
| `PoolRefines` | `ImplementsCoroutines` | each operation is a step of `Coroutines` or a stutter |
| `StacksContiguous` | stacks above one page: `[]MemoryInv` | the invariant of `GuardPageKept`, with nothing mapped for a deleted fiber |
| `FreeListOrdered` | `[]FreeListByAge` | `AgeInv` adds that no exit lies in the future, which a clock that only advances keeps; an exit is put at the head of the list with the present time |
| `ShrinkComplete` | whole seconds: `ShrinkFreesAllIdle` | the list is ordered by age, so what stays behind the first coroutine that is not idle long enough is younger; `IdleExact` |
| `PollSafe` | `[]PollInv` | index and slots name each other; the moved slot is the case that matters |
| `PollRefines`, `CallsRefinePollSet` | `ImplementsPollSet`, under any caller, and `CallsImplementPollSet`, under the wrapped calls | from `PollSafe`; a moved slot keeps its owner's registration, and different slots have different owners. `CallsEffect` says which of the operations each step of the program is |
| `ArraySafe` | `[]ArrayInv` | `Matches` states the invariant for any pair of arrays: swaps, updates and appends keep it, so each operation is a composition of these; `RemoveMatches`, where two items move at once, is proved slot by slot |
| `AreaExact` | `[]FilledAreReady` | relative to `ArrayInv`. `PlacedBut` is the property but for one slot: an operation breaks it there and `FillArea` or `UnfillArea` repairs it |
| `ArraysNeverOverrun` | `[]ArraysFit` | not inductive: that the slots fit follows by the pigeonhole principle from `CapInv` (every registered descriptor is below the capacity) and from the match of slots and descriptors. That doubling ends with a capacity that fits (`ExpandedFits`) needs the largest power of two that does not (`LastTooSmall`, by the least-number principle); both are in `RecursionProofs` |
| `TypeCorrect`, `WaitsAreRegistered`, `EventsStayCurrent`, `ConnectionsQueuedOnce`, `ExitsClean`, `ClosesOnlyItsOwn` | `[]TypeOK`, `[]WaitRegistered`, `[]EventsCurrent`, `[]QueuedOnce`, `[]CleanExit`, `NoForeignClose` of `Framework` | one inductive invariant, `LoopInv`, for all of them, see below |
| `CallsTypeCorrect`, `WakeupsKept`, `ResumedForOwnEvents` | `[]CallsTypeOK`, `[]NoOtherLostWakeup`, `[]NoOtherForeignEvent` of `WrappedCalls`, whatever the kernel does | one inductive invariant, `CallsInv`, see below |
| `OrderKept` | `[]BytesInOrder` | `ReadInv`: the stream is what was consumed, then what the reader holds, then what has not been read (`Order`, an existential where the property computes a suffix); see below |
| `BuffersNeverOverrun` | `[]TypeOK` of `FastCGI` | `ReadInv` and `WriteInv` together |
| `RecordsAlwaysFilled` | `[]RecordsFilled` | `WriteInv`: the offset stays inside of its buffer, and what is left in the buffers is what the headers still have to announce plus what the present record lacks |
| `RequestRead` | `[]RequestAsSent` | `RequestInv`: what is still to come on the wire, from where the code is, is the rest of the encoded request; see below |
| `ResponseWritten` | `[]ResponseAsBuilt` | `RespInv`: what was handed to the writer is, up to what the present record lacks, whole records of the response; see below |
| `RedisTypeOK`, `RedisReplyAsSent` | supported replies: `[]TypeOK`, `[]ReplyAsSent` of `Redis` | one inductive invariant, `IInv` of `RedisProofs`: as long as no read tore the reply, the buffer holds it and `seek` is where a value begins; see below |
| `TableSafe`, `OwnedKept`, `TableRefines` | `[]TableInv`, `[]OwnedStored`, `ImplementsMap` | one inductive invariant, `Inv` of `HashTableProofs`, for all three, see below |

**The chain of resumers.** `Ancestor` is a recursive function of the state, and what
it yields is nothing to carry through the steps. `Chain` says the same of a list: a
resume appends to it (`ChainPush`), a yield or an exit takes the last one away
(`ChainPop`), and the other operations touch no resumed fiber (`ChainAside`). Where there
is such a list, it read backwards satisfies the equation that defines `Ancestor`
(`ReadBackClimbs`), and no two functions satisfy it (`ClimbsUnique`: they would differ at
a least argument). That there is room for the list in `0 .. Cardinality(Fiber)` is the
pigeonhole principle (`ChainLength`). `FiberStep` is a step as callers make it; the pool
makes no other (`PoolStepIsFiberStep`), because `PoolInv` says that what it reuses
or frees has exited.

**The run loop.** None of its properties is inductive: who is told of an event
depends on who owns the descriptor, which depends on where the loop is. `LoopInv`
adds `Control` (one routine runs or the loop does; a routine has a place in its
procedure exactly while its coroutine is in use; events are dispatched outside of the
queue loop only), `Owners` (a registered descriptor belongs to the one it is
registered for, a routine's connection and the descriptor it waits on to the routine),
`Queues` (the queues hold every queued descriptor once and, besides these, only the
one being served) and `Listed` (a listener that is open or has connections queued is in
the list). There is one lemma per action, and in it one step per part that the
action touches. `QueuedOnce` counts, and follows by the pigeonhole principle;
`NoForeignClose` is read off `LoopInv` for the one step that closes.

**The wrapped calls over three poll objects.** `CallsInv` says for each object
what its tables hold while a routine is anywhere in a call: under `epollet.c`
(`EpolletPart`) the item of each descriptor waits for exactly what its owner waits
for, and whatever is ready has fired or is an edge the kernel still has to report;
under `poll.c` (`PollPart`) the registrations are exactly those of the waiting
routines and the listeners; under `port.c` (`PortPart`) a waiting routine is
associated, its event is handed out, or it is in `robbed`, the reads whose data went
away after it was reported. `EventsPart` is what makes dispatch right:
the pending events are for different owners, each of whom waits for what it is
told. A hangup over `epollet.c` may find its routine anywhere, and so may what follows
it for the same routine in the batch; these events (`Tainted`) are not among the pending
ones, and the invariant shows that they spoil no table and no other routine's events. The lemmas about one item (`ItemBecomes`) hide where in
the array items move. TLC checked both invariants on the runs' instances, too.

**The buffered reader.** A step cuts what it reads and joins it to what it has, so
the lemmas are about cutting and joining sequences (`CutFacts`, `CutJoin`, `JoinAssoc`)
and about what it means that one sequence ends another (`EndShorter` when bytes are
consumed, `EndLonger` when the server sends). `Reader` says that the buffer is empty
while a read is under way, which is why the bytes held are in one place at a time; and
`Control` that a read is asked for only where its result is taken, for a length that
the header before it announced. A failed read ends the claim (`reads.n < 0`), and
then the connection is gone.

**Decoding a request.** `RequestAsSent` compares what the code took out of a buffer
with what the server put into a stream. `RequestInv` says where in the encoding the
code is (`InPlace`): with `k` records of parameters read, `buffer` is the first `ends[k]`
bytes of the encoded pairs, and the reader, then the wire, hold a beginning of what the
place in the code says comes next: the rest of a record, its padding, the records after
it, the standard input. A call returns exactly what it asked for, or less and the
connection is at its end (`Calls`). A read that fails counts as a long one and the code
goes on with the header it has; it then stays for ever in places from which no request
is returned (`Lost`). A request is sent only when the last one was answered, and what is
left of that one's standard input holds no header of a begin record (`Waiting`), so the
next call either begins at the first byte of the new request or returns nothing.
`RequestLayout` gives the encoding by offsets: `FlattenSeq`
is a recursive function, and `FlattenLayout` says where its parts lie. The decoder
`fcgi_parse_params` is one from the end backwards; `ParseEncoded` shows for each pair, from
the last one to the first, that from its offset the decoder finds that pair and the ones
after it.

**Writing a response.** `ResponseAsBuilt` reads the records back out of what the server
received, and says something of every moment, in the middle of a record too. `Laid` gives
the records of a response by offsets, and `Made` says that `F` is whole records with the
first `n` bytes of headers and data, with or without the record that ends the request.
`RespInv` says that some such `F` begins with everything handed to the writer (`Handed`:
what the server received, then what is on its way, then the buffer), exceeds it by what the
present record lacks (`Owed`), and goes on with exactly that: the content from where the
code is in the headers or the data, then the padding (`Answer`). Announcing a record makes
`F` longer by all of it (`MadeContent`, `MadeEnd`, `RecordBegun`); the content, padding and
end body that follow only catch up, and no write moves anything but from the writer to the
server (`HandedOn`, `HandedFlush`, `HandedSent`). So what the server received is a
beginning of some `F` whatever a write cuts off (`Received`), also after the connection
broke, when the writer drops data and `F` is no longer caught up with. `MadeRead` is the
reader's side: on any beginning of an `F`, `Records` yields its records one by one
(`LaidRecord`, `RecordsTaken`), and their contents joined are a beginning of headers and
data. That nothing of an earlier answer is in the way rests on `RequestInv`: a response is
begun only for a request not answered yet, and the server takes the old answer off the wire
before it sends the next.

**Parsing a reply.** The parser trusts the buffer: it looks for line ends and counts off
lengths in characters that may be anybody's. `Faithful` says, for each place in the code
and as long as `torn` is false, why it may. While values are parsed (`Reading`) cell `j`
of the buffer holds character `j` of the reply (`Window`), and what was read of it is all,
or so much of a single string that its line is there and a character of it is missing (`Got`);
`seek` is at the offset of the next value, or past its line (`Off`, by `LayoutFacts`: a
reply is its values end to end); and the elements that the arrays under way still lack add
up to the values still due (`Sums`, `Due`). The last part is what makes the parser stop:
an array that has all its elements is complete, and when no array lacks any the last value
of the list was taken (`SumsLess`, `SumsMore`, `ArraysFacts`). A string longer than the
buffer is read in pieces (`InPieces`): what was copied is a beginning of it, and the
buffer holds what follows. `TypeOK` alone is not inductive, since that `seek` stays below
`end` depends on lengths which the buffer holds; `Typed` is the part of it that needs no
faithful buffer. `LineHere` is the central fact: from the offset of a value, `strstr`
finds the value's own line end and not an older one, because no line holds a CR and all of
the line was read; `ValueHere` says the same of a string and the line end behind it. A
command begins with `seek` and `end` at what the last reply left, and the first read sets
both before anything is looked at. Reads that tear a reply end the claim, as in the run.

**Recursion without an induction rule.** The library's induction theorems take an
operator, which no prover here can instantiate. `RecursionProofs` states them about sets
instead: a set that holds 0 and with each number the next one holds all
(`Induct`, and `InductUpTo`, `InductDown` for a range), from the least-number principle.
`DefinedUp` and `DefinedDown` give from it that a function defined step by step, or
backwards, satisfies its equation.

**The hash table.** Its properties speak of what a search finds and of what a walk
along `next` meets, both recursive functions of the array. `Chain` says without them
that the buckets of a set are chained: there is a list of them in which each links to
the one before. The lemmas about it are what the code does to a chain: a bucket is put
in front (`ChainPush`), the first is taken away (`ChainPop`), one is cut out of the
middle (`ChainCut`), and a chain whose buckets' links stay is the same in another array
(`ChainFrame`). `Whole` is a table between two calls: each slot's live buckets are a
chain, so are the removed ones, keys differ, and `used` counts the live ones. `Spared` is
one in the middle of an insertion, where a bucket is in neither. There is one lemma for
each way to get there or back (`FreshSpared`, `AgainSpared`, `LinkWhole`,
`PutBackWhole`), for `ReplaceWhole`, `RemoveWhole` and `ResizedWhole`; in the last one
the chains of the new array grow bucket by bucket, and the first bucket at which one
would not be a chain is impossible (`MovedChain`). That each live bucket is copied to
one place, the one its rank says, is the pigeonhole principle (`Ranked`). A walk along a
chain then ends and meets exactly its buckets (`ChainWalk`): the list read from its end
satisfies the equation that defines the walk, and no two functions do. A search has no
last step to begin with, as it runs over the whole array; two functions that satisfy
its equation differ only on a set of buckets that links never leave, and no chain has
one of these (`ChainNoLoop`, `FindsUnique`). `Entries` is what a table holds,
whatever the order of its buckets; each call does to it what it does to the map.

**Assumptions.** The set of fibers is finite and does not contain the thread or the
null pointer; page size positive; limits natural; capacities positive, the hash table's a power
of two (`CapAssumption`); coroutines, listeners and the marks `None`, `Leaked` and the like are different
(`NameAssumption`), as the addresses of different records are; the pool's clock
advances (`ClockAssumption`); requests are pairs of strings of numbers, cut into records none of which is empty, and
responses have natural lengths (`RequestAssumption`, `ResponseAssumption`); replies of the redis server are trees in preorder
(`ReplyAssumption`), whose lines hold no CR and whose lengths have at most two digits; a record holds at
least the body of the record that ends a request (`ContentAssumption`; 65535 in the code). Beside these named
assumptions of the modules, theorems say in their statement what the code needs:

- `GuardPageKept`, `StacksContiguous`: `stack_size > ef_page_size`.
- `ShrinkIdle`, `ShrinkComplete`: the idle times are whole seconds (finding 1).
- the theorems of `FrameworkProofs`: `NoEarlyClose`, no procedure closes its connection
  and goes on (finding 2); `ExitsClean`, in addition: `PoolUsable`, a pool of at least one
  coroutine and memory for it.
- the theorems of `RedisProofs`: `Supported`, that a reply holds nothing the parser cannot
  take whatever the reads: no NUL in a string, at which `strncpy` stops; no status or error
  as an element, for which `parse_array` has no case; a space in each error. `MCRedis`
  assumes it of the run's replies, so TLC evaluates it.

**Only model-checked.** Liveness (`Stops`, `Served`, `Returns`, `ReadReturns`): fairness is
out of the prover's reach. Every invariant and every action property of a passing run is
stated by a theorem.

## 6. Left out, and why

- `run_count` (read by nobody), logging, addresses and ports, byte counts.
- `accept` failing for a reason other than an empty backlog or a full descriptor
  table; the code treats all alike.
- The fault `"mmap"` (no memory for a coroutine) is in `Framework` and not in the
  runs: with it, a loop that stops with an empty pool leaves queued connections
  behind (`framework.c:297`), see the hazards.
- A connection that `fcntl` refuses is leaked by the code; the model keeps it with
  owner `Leaked`, and `CleanExit` does not count it.
- A clock that is set back. Wall-clock order is assumed by `FreeListByAge`.
- Hash values of keys, null values and tables without a destructor; a resize that
  finds no memory changes nothing and is a stutter.
- `amd64` register contents; `i386/fiber.s` is the same switch.
- `list.h`: its lists are sequences or sets here.
- Stacks of up to a page. They are one page, which is mapped from the start, and so have
  no guard page (`fiber.c:39-46`), whatever `fiber.c:135` says of the last one.
  `GuardPageKept` assumes more; the run has stacks of four pages.
- Sockets a procedure leaves open. The guard of `ef_proc` on `Sockets` is an
  assumption about user procedures, not a test of the code, and `CleanExit` (with it
  `ExitsClean`) and `Stops` hold of procedures that close what they open.
  `forward_proc` does not when its connect fails (`main.c:193-196`).
- What a shrink with a negative count leaves. The calls are in the model (a stopping
  loop makes them); `ShrinkKeepsMinimum` is about positive counts.
- Liveness of the wrapped calls: a procedure that never waits, or a descriptor that
  is always ready, keeps the thread; nothing in the code is fair.
- A read over `port.c` whose data went away after it was reported (another process that
  holds the connection took it) yields a second time and is associated with nothing
  (`framework.c:426`, `port.c:55-58`): the association ended with the report. The model
  has these states, `robbed` names the routines, and `NoOtherLostWakeup` excepts them. The
  listener's path associates again and is not affected.
- A listener that finds no free descriptor: under `epollet.c` `unset` then forgets the
  backlog. `MaxBacklog` in `WrappedCalls` never exceeds the free descriptors;
  `Framework` has the case over level-triggered epoll.
- Refused registrations under the framework; the other caller of `MCWrappedCalls` has them.
- FastCGI: post data (`fastcgi.c:150` waits for another begin record, so it is never
  handed over) is part of no property. `fcgi_read_request` uses two variables before
  it assigns them: a null value is followed, a wild one is the place `undefined`, about
  which nothing is claimed. Lengths above 127, ids and roles are left out: they are
  data; `parse_params` reading past a malformed end is not reached by a web server
  that keeps the protocol. `Returns` excepts a skip at the end of the connection, which
  never ends (`bufferio.c:151`); no document says that it does.
- Redis: properties speak of reads that leave the parser something to work with
  (`torn` is false): a read that cuts a line, an array, or the line end behind a
  string, or returns 0, makes the code take old characters for new, read for ever
  (`redis.c:347`) or copy past the end. The model follows these runs; the place
  `undefined` is where they leave the buffer. The parsers "check the
  completion" (`redis.c:220`) with `strstr`, which takes a line end that an earlier reply
  left behind for that of a line cut by a read. The exit
  of `redis_proc` frees `rep` on every path (`main.c:171`): never assigned when the first
  command fails (61), freed already after a failed write or a failed later command
  (73, 149). The model goes to `bad_free` there, and no property forbids it. Statuses and errors inside of arrays are
  left out (`redis.c:394` leaves them unassigned), as is the terminator `parse_error`
  writes one byte behind its allocation, and a command written short.
- `http.c`: `ef_curl_init` works on members of a request nothing has initialised
  (`http.c:42`, `75`), a missing header is dereferenced, chunk lengths are converted
  with a negative count. Every run begins with undefined behaviour, and a model of
  it would claim nothing.
- Strings, vectors, string and header tables, conversions: sequential handling of
  data with little control.

## 7. Plan

Done: fiber layer, pool, run loop over level-triggered epoll, the three other poll
objects under the wrapped calls, hash table, buffered I/O, FastCGI and Redis; the
theorems of section 5.

Next, in this order:

1. `list.h` at the level of pointers, implementing the sequences used here.
2. A clock that steps back, under the pool.

# A TLA+ model of pipetrick

pipetrick is a small C++ program that shows the *self pipe trick*: a thread that is blocked in
`select` is woken by another thread that writes a byte to a pipe which every `select` watches. The
trick is used in a multi-threaded server and in a client, and almost everything that can go wrong in
it is a matter of *when*: when a byte is written and when it is eaten, when a counter is read and
when it is changed, when a descriptor is closed and who still waits on it. This directory models the
program in TLA+, checks the model with TLC on small instances, and proves the safety properties with
TLAPS for every value of the constants.

Paths below are relative to the repository (`src/server.cpp` is `src/src/server.cpp` in
`PROJECT.json`, which lists the same things for tools).

## 1. The program

| Component | State it keeps | Operations | Talks to |
|---|---|---|---|
| **Server** (`src/server.cpp`) | `currentNumberClients_`, `isRunning_`, `quitSignal_` under `mutex_`; one condition variable `clientsCV_`; the listening socket; the pipe; the server thread; detached client threads | `start`, `stop`, `getNumberOfClients` by the owner; `run`/`doAccept`/`checkForMaximumNumberClients`/`waitForClientsToFinish` on the server thread; `runClient`/`sleep`/`closeClientAndNotify` on one thread per client | peers over TCP; its own threads over the pipe and `clientsCV_` |
| **Client** (`src/client.cpp`) | `numConnections_` under `mutex_`; `quitCV_`; the pipe | constructor, destructor, `sendDelayToServer` (may run on several threads), `stop` | a server over TCP; `stop` and the calls over the pipe and `quitCV_` |
| **Common** (`src/common.cpp`) | none | `createSocket`, `doSelect`, `readMessage`, `writeMessage`, `consumePipe` | the kernel |
| **Log** (`src/log.cpp`) | none | three functions that print | standard output |
| **Tests** (`testApps/`) | — | integration tests over real sockets, a Valgrind leak check, vendored headers | Client, Server |

What the two sides do together: a client connects, is counted, sends its delay as one message of
`BUFFER_SIZE` bytes, and waits for the answer. The server accepts it when it has a free slot, starts
a thread that reads the message, sleeps (in `select`, so that the pipe or the peer can interrupt it),
and writes the delay plus one back. `stop` on either side writes to that side's pipe and waits on
that side's condition variable, with a time out.

The hard behaviours, and the properties that make each component correct (every hazard is listed
with its line in `PROJECT.json`):

* *Server.* The limit is checked in one critical section and used in another; three predicates share
  one condition variable; `stop` empties the pipe that tells the threads to quit, and closes
  descriptors that detached threads use by number; two time outs (the owner's and the server
  thread's) race with the shutdown they supervise; every system call may fail; the server may be
  started again. Correct means: the counter is exact and never wraps, the limit holds, no wakeup and
  no quit byte is lost, `stop` leaves no thread and no connection behind, and it returns.
* *Client.* `stop` looks at a counter that calls increment late; the byte is eaten outside the mutex;
  several calls share one byte, and several stops may share the pipe. Correct means: the counter is
  exact, no wakeup is lost, no byte survives to cancel a later call, every counted call quits, and
  every call and every stop returns.
* *Client and server together.* The message, the answer, the time out of the call, its quit byte and
  the server's quit byte race on one connection, which may be queued while all this happens. Correct
  means: a call returns true only with an answer its own thread wrote, the end of either side ends the
  other, and neither waits for a time out or a delay to notice.
* *Messages.* TCP may deliver in pieces and a non-blocking write may be short. Correct means: nothing
  is lost, the buffer is not overrun, what is accepted is a whole message.
* *Delay.* A 64-bit count becomes text, an int, a product of ints, a `timeval`, an incremented int and
  text again. Correct means: the time slept and the number returned are the ones asked for.

## 2. The modules

| Module | What it is |
|---|---|
| `Server` | the server object, its threads and the kernel's view of its connections |
| `ClientPool` | the abstract specification: a pool of at most `Capacity` clients that is open, draining or closed |
| `ServerPool` | the refinement mapping from `Server` to `ClientPool` |
| `ServerInv`, `ServerProofs`, `ServerPoolProofs` | the inductive invariant, and the proofs |
| `ServerProgress`, `ServerProgressProofs` | why stop and the client threads come to an end: who can make a step, and what every step uses up; and the proofs |
| `Client` | one client object, its calls of `sendDelayToServer`, its calls of `stop`, and the server as the client sees it |
| `ClientInv`, `ClientProofs` | the inductive invariant, and the proofs |
| `ClientProgress` | the same for the calls of `sendDelayToServer` and of `stop`; proved in `ClientProofs` |
| `QuitRequests` | the abstract specification of `Client::stop`: requests that are kept, or given up |
| `ClientQuits`, `ClientQuitsProofs` | the refinement mapping from `Client` to `QuitRequests`, and its proof |
| `System` | `Server` and `Client` over shared connections |
| `Exchange` | the abstract specification of both together: calls that return true or false, and a server that holds at most `Capacity` of them |
| `SystemInv`, `SystemProofs` | what each end knows of the other, and the proofs, with the refinement of `Exchange` |
| `SystemProgress` | what each end is about to hear of the other, what a call may wait for, and who is left to a time out; proved in `SystemProofs` |
| `Message`, `MessageProofs` | one `writeMessage` and the `readMessage` at the other end |
| `Delay`, `DelayProofs` | the arithmetic on a delay |
| `MCServer`, `MCClient`, `MCSystem`, `MCMessage`, `MCDelay` | instances for TLC: symmetry sets and the set of delays |

### Server

A step is one system call or one critical section of `mutex_`. The guarded members are accessed with
the mutex held, so a section is indivisible for the other threads. The exception is `start`, which
sets `isRunning_` and `quitSignal_` without it (`server.cpp:200`); no thread that could read them
runs then: the server thread of an earlier life has been joined, and client threads that `stop` gave
up on do not look at them. A `wait` releases the mutex, so it is split in two: falling asleep (`WaitSleeps`, `CheckSleeps`, `DrainSleeps`) and going on
(`WaitSucceeds`, `CheckAdmits`/`CheckQuits`, `Drained`), or giving up (`WaitExpires`, `DrainExpires`).
The set `clientsCV` holds the threads that are asleep; only a notification or a time out takes them
out, which is what makes lost wakeups visible.

| Code | Model |
|---|---|
| `start`, and its failures | `Start`, `StartFails` |
| `stop` | `Stop`, then `Wait…`, `Join`, `CloseDescriptors` (place in `owner`) |
| `run` | `LoopQuits`, `LoopFails`, `LoopAccepts`, `Leave` (place in `srv`) |
| `doAccept`, `checkForMaximumNumberClients` | `Accept`, `AcceptFails`, `Check…`, `Register` |
| `waitForClientsToFinish` | `DrainSleeps`, `Drained`, `DrainExpires` |
| `runClient`, `sleep`, `closeClientAndNotify` | `FirstSelect`, `ReadAll/ReadSome/ReadNothing`, `SleepInterrupted`, `SleepExpires`, `WritableSelect`, `SelectFails`, `WriteAnswer`, `CloseClientAndNotify` (place in `handler[c]`) |
| the peer | `PeerConnects`, `PeerSends`, `PeerCloses` (a peer is a `Client`: it sends one message and closes at any time) |

`sleep` is two actions because they differ in what may be expected of them: a readable pipe or socket
does end the `select` (`SleepInterrupted`), but nobody knows when a delay is over (`SleepExpires`),
so no property may rest on it. The faults are named one by one: `start`, the `select` of the main
loop (`loop`), those of the client threads (`select`), `accept4` with `EMFILE` and with another error
(`emfile`, `accept`).

Descriptors closed under a running `select` are the one place where the behaviour of the kernel is
unspecified: a `select` on a pipe that was closed may fail, may ignore the pipe, or may see the next
pipe that gets the number. `stale` records which threads are in that position. `abandoned` records
the threads `waitForClientsToFinish` gave up on; `StopIsComplete`, `QuitStaysVisible` and
`StopClosesEveryConnection` make an exception for these and no others. `getNumberOfClients` reads the
counter, and `CountExact` says that what it reads is true.

### Client

A call goes through `Begin`, `ConnectToServer`, `CheckPipeDescriptors`, `Count`, `ConnectSelect`,
`WriteMessage`, `AnswerSelect`, `ReadAll/ReadSome/ReadNothing`, `CloseAndNotify`; `SelectFails` is a
failing `select`, and `SelectExpires` is `timeOut_`. A stop goes through `StopBegins` (the counter, the write and falling asleep are one
critical section), `WaitSleeps`, `WaitSucceeds` or `WaitExpires`, and then `ConsumeByte` one byte at
a time, *outside* the mutex, as `consumePipe` does, until `StopReturns`. `pending` and `counted`
record, when a stop begins, the calls in progress and those of them that the counter knows of:
the gap between the two is the code's.

The server at the other end (`Establish`, `Refuse`, `Answer`, `ServerCloses`) can do everything
client.cpp could observe, including nothing at all. `StopsOverlap` says whether the application calls
`stop` from several threads at once. `Destroy` is only called when no other call is in progress.

`QuitRequests` is what a user of `stop` may rely on: a request asks the calls that are inside, and is
kept only when all of these have left, although others may have entered meanwhile; or it is given up;
and a call that was asked to leave does not come back. "Inside" is "counted by `numConnections_`" in
the mapping, so the abstract specification also says what it does *not* promise (finding 2 below).

### System

`System` extends `Server` and instantiates `Client` with the connections as its calls. A step is a
step of a thread of one side, the other side standing still, or a step of the network. The actions by
which each module models the other side are not used as such; they are joined:

| Network step | In `Server` | In `Client` | What joins them |
|---|---|---|---|
| `Connect` | `PeerConnects` | `Establish` | the server listens |
| `Refuse` | — | `Refuse` | it does not |
| `DeliverMessage` | `PeerSends` | — | the call has written its message |
| `DeliverAnswer` | — | `Answer` | the thread has written the answer |
| `DeliverEndOfCall` | `PeerCloses` | — | the call has closed its socket, and what it sent has arrived |
| `DeliverEndOfService` | — | `ServerCloses` | the server has closed its end, and what it wrote has arrived |

So what was assumed in the two modules is now derived: that a peer sends one message and closes in
the end, and that only whole messages are answered. `SystemIsServer` and `SystemIsClient` (proved)
say that the composition is a special case of either side, so every theorem about one side holds in it.

`Exchange` keeps the outcome of each call and three sets: the calls the server holds, those it has
taken, and those whose answer it has written.

### Progress

The three `Progress` modules add no behaviour. `OwnerCanStep`, `ServerThreadCanStep`,
`HandlerCanStep`, `StopCanStep` and `CallCanStep` say when a thread is not blocked: they are what
`select`, the condition variables and `join` wait for, without failures and time outs. They were
compared with `ENABLED` of the actions on small instances: on the client's side and for the network
(`ArrivesAtCall`, `ArrivesAtServer`) they are the same; on the server's side too, except that a
thread which watches a closed pipe is never counted on. The distances (`OwnerDistance`,
`SrvDistance`, `HandlerDistance`, `CallDistance`, `StopDistance`) number the places of a thread from
its end, and `ToRead` counts what the loop of `readMessage` may still find.

### Message and Delay

`Message` counts the units of one message in four places (not yet written, in the send buffer,
received, read), with the exact rule by which `readMessage` ends: a read that returns `BUFFER_SIZE`
at once is success, a shorter one is followed by another, and no data or end of file is failure.
`StepsLeft` counts what an exchange has left to do: three steps for a unit that has not been written,
two for one in the send buffer, one for one that has arrived, and the ways of both ends.

`Delay` follows the number through both directions. `Wrap` is the conversion to int of `atoi` (which
is `strtol`, 64 bits wide). The product of ints is undefined when it overflows, and the model lets it
be either of what a compiler produces: the wrapped int, or the product at the width of the 64-bit
`microseconds` it initialises. `select` rejects a negative `tv_usec`.

## 3. What TLC checks

| Run | Instance | Question | Result |
|---|---|---|---|
| `server_safety` | 2 connections, 1 slot, messages of 2 units, 2 starts, every fault | the safety properties of the server; nobody waits in a circle; threads and shutdown run out of steps; at most as many leaked connections as calls of `start`; and that it implements `ClientPool` | holds; about 159 thousand states up to symmetry |
| `server_live` | 2 connections, 1 slot, messages of 2 units, 1 start; `select` of a client thread and `accept4` (`EMFILE`) may fail | the main loop ends only by `stop`, `stop` returns, dead peers free their slots, waiting connections are served | holds; about 59 thousand states |
| `server_leak` | 2 connections, 1 slot, no fault | is every connection closed after `stop`? | **violated** |
| `client_safety` | 2 calls, 2 overlapping stops, messages of 2 units, every fault | the safety properties of the client; calls and stops run out of steps; and that it implements `QuitRequests` | holds; about 872 thousand states |
| `client_live` | 2 calls, 2 stops in sequence | the byte is there while it is needed; a stop is never stuck; stops and calls return | holds; about 455 thousand states |
| `client_missed` | 2 calls, 1 stop | does `stop` quit every pending call? | **violated** |
| `client_overlap` | 2 calls, 2 overlapping stops | is the byte still there while it is needed? | **violated** |
| `system` | 2 calls, 1 slot, messages of 1 unit, 1 start of the server | answers are earned; each end hears of the other's end; a call waits for nothing but delays; the system implements `Exchange`; the end of either side ends the other; peers close | holds; about 418 thousand states |
| `message_exchange` | a message of 6 units, a send buffer of 4 | nothing lost, no overrun, only whole messages accepted, the exchange runs out of steps, the reader ends | holds |
| `message_pieces` | a message of 2 units | is a whole message accepted? | **violated** |
| `delay_fits` | ints of 8 bits, factor 10, delays −400…400 | fitting delays are slept exactly; answers are increments | holds |
| `delay_overflow` | the same | is every answered delay slept as asked? | **violated** |

**Bounds.** Two connections and one slot are the smallest instance where a connection waits for a
slot while another holds it, where `stop` finds one thread in each wait, and where an accepted
connection is neither served nor queued; two starts let threads and connections of the first life
meet the second. Messages of two units are enough for a short read. (The safety run has also been
made with three connections and two slots, one start and every fault: a million states, no error.)
On the client's side, two calls and two stops are what it takes for one stop to eat the byte
of another, and for a call to begin while a stop empties the pipe. In `system` two calls and one slot give a
call that is served, one that is queued while the other holds the slot, and the end of each at every
point. `Client::stop` is left out of that run (`Stops = {}`): all the server sees of it is that a
call closes its socket early, and the time outs of the calls do that too, at the same points. That
the two programs together keep their promises with the quit byte of the client, and with messages
that arrive in pieces, is therefore not seen in this run. It rests on the theorems, which hold for
every `Stops` and `MessageSize`, and for the properties of liveness on the instances named next.
Three other instances were checked once and are too long to be part of the project: the
properties of `system` with one call, one stop, messages of two units, two starts, failing main
loop and selects on both sides (246 thousand states); `AnswersAreEarned` with two calls and messages
of two units (647 thousand states up to symmetry); and the safety properties of the server with
three connections, given above. `MaxStarts` is the only cap on a
counter; the other counters are bounded by the behaviour itself. The 8-bit ints and the factor of 10
keep every boundary of the arithmetic: zero, the largest delay that fits, wrapping to a negative and
again to a positive number, and the truncation of a wider delay.

**Deadlock** is not checked, because every instance comes to rest: the server when its starts are
used up and its peers are gone, the client when its calls and stops have returned. That
nobody rests too early is what `StopReturns`, `StopsReturn` and `CallsReturn` say.

**Fairness.** `ThreadFairness` is weak fairness of each thread separately, which the operating
system's scheduler gives; it is never assumed of time outs, failing calls, or anything the
application does. Failing calls are actions of their own (`SelectFails`, `LoopFails`, `AcceptFails`),
so that a failure is never what rescues a thread. So `StopReturns` and `StopsReturn` say that the handshakes work *without* their
time outs. `DeadPeerFreesSlot` and `PendingServed` also assume that every peer closes its socket in
the end, which `sendDelayToServer` does on every path because both its selects have a time out;
`StopReturns` is checked under the same specification. `PendingServed` has a premise of its own,
`EmfileEnds`: `accept4` does not fail with `EMFILE` for ever (strong fairness of `Accept`, stated in
the property because it is the environment's doing, not the scheduler's). `CallsReturn` assumes, in its own statement,
that the selects of a call do expire. Its run has messages of one unit, so it does not say how
`readMessage` comes out of short reads; `ReaderEnds` and `CallsRunOut` do. `system` assumes less than fairness of each thread
(`SystemFairness`): the machines do not stand still while some thread can run or the network has
something to deliver. It still excludes everything that waits for a clock: the delays on the server
(`SleepExpires`) and the time outs of the calls (`SelectExpires`), of which only `PeersClose` assumes, as its premise, that
they do expire. `PeersClose` is the fairness of the peers that the runs of the server alone assume:
with `Client` as the peer it is a consequence.

**What the violated properties show.** Each states what a comment of the code or its README says.

1. `StopClosesEveryConnection` (`server.cpp:260`): a connection that was accepted, and waits for
   capacity when `stop` is called, is dropped without `close`. Its descriptor leaks and its peer
   waits for its own time out. The first test of `test.cpp` sets this situation up (two clients more
   than the limit), but it stops those clients itself. `OneDropPerStart` bounds the leak
   over all lives together: after `n` calls of `start`, failed ones included, at most `n` connections,
   whatever else fails.
2. `StopQuitsPendingCalls` (`client.cpp:39`): a call is counted only after its `connect`; a `stop`
   before that returns at once and quits nothing.
3. `StopIsSeen` with overlapping stops (`client.cpp:33`): `consumePipe` runs without the mutex. In the
   counterexample one stop finds nobody counted and goes on to empty the pipe; before it does, a call
   is counted, and a second stop writes its byte for that call and waits. The first stop eats that
   byte. The call is never told to quit, and only its own time out, or the second stop's, ends the
   wait.
4. `WholeMessageIsAccepted` (`common.cpp:59`): a message that arrives in two pieces is read
   completely and then rejected, because the loop waits for one read of `BUFFER_SIZE` bytes.
5. `SleepsAsAsked` (`server.cpp:30`): the product overflows for delays above 2147483 ms; select then
   refuses the delay, or the answer comes early.

`server.h:114` also says that `run` lasts until `stop`. That holds for every failure of a single
client and for `EMFILE` (`RunsUntilStop`, `server.cpp:254`); any other error of `accept4`
(`server.cpp:257`), or a failing `select` of the main loop, does end it. `server_safety` includes
these failures, and the safety properties it checks hold with them.

Each property of a passing run is known to be sensitive to the code: for each, `PROJECT.json` names a
wrong version of a definition (a slot released twice, a missing `notify_all`, `<=` for `<`, a pipe
emptied after a time out, …) under which TLC finds the property violated. The wrong versions stand in
front of the definitions they vary and are not used by the model.

## 4. What is proved

All proofs hold for any number of connections, calls and stops, any limit, any message size, any set
of possible faults and any width of int. The assumptions are the `ASSUME`s of the modules:
finiteness of the sets of connections, calls and stops, and the types of the parameters.

**Server.** `ServerInv!IInv` is the inductive invariant. The safety properties are not inductive by
themselves; the parts added to them are the argument:

* `HandShake`: there is a server thread exactly from `start` to `join`, `isRunning_` says whether it
  is in `run`, and the pipe is open while the owner is between `start` and `close`.
* `Queueing`: a connection is in at most one place: the backlog, the hand of `doAccept`, or a thread.
  So `Register` never starts a second thread for a connection.
* `Admission`: between the check and the registration other threads only *decrease* the counter, so
  what was checked still holds. This is why two critical sections are enough.
* `PipeContent`: at most one byte from `stop` and one from `run`; none is missing while the quit
  signal is up and the server thread has not left `run`.
* `AllDrained`: `run` ends only when every client thread has ended or was given up on. With
  `HandShake` this gives `StopIsComplete`, and, with the fact that `consumePipe` is called only after
  `isRunning_` is cleared, `QuitStaysVisible`.
* `Sleepers`, `NoLostWakeup`: who may be asleep, and that its predicate is false.

`ServerProofs` has one lemma per group of actions (owner, main loop, end of `run`, client threads,
peers), then the theorems `TypeCorrect`, `CounterIsExact`, `LimitIsKept`, `NoWakeupIsLost`,
`QuitIsSeen`, `StopLeavesNobody`, and `RunLastsUntilStop`, whose hypothesis is that neither the main
loop's `select` fails nor `accept4` in another way than `EMFILE`. `ServerPoolProofs` proves `ServerImplementsPool`: initial states
map to initial states, and with the invariant every step of the server maps to a step of `ClientPool`
or to a stutter.

**Client.** `ClientInv!IInv` adds that only a stop in its wait is asleep, that nothing is in a pipe
that does not exist, that a counted call stays counted until it returns, and that without overlap the
pipe belongs to the one stop in progress. `ClientProofs` proves `TypeCorrect`, `CounterIsExact`,
`NoWakeupIsLost`, `NoByteIsLeft`, `StopOutlastsCalls`, and `LoneStopIsSeen`, which has
`~StopsOverlap` as its hypothesis: with overlapping stops the property is false (finding 3).

`ClientQuitsProofs` proves `ClientImplementsQuits`, with overlapping stops too. A call enters at
`Count` and leaves at `CloseAndNotify`; a stop asks at `StopBegins` and keeps its request at
`WaitSucceeds`, where `CountExact` turns "the counter is zero" into "nobody is inside".

**Why the threads end.** The prover has no rule for fairness, but the two facts that a fairness
argument rests on are safety properties, and are proved.

*Somebody can always make a step.* `NobodyIsStuck`: after `stop` the owner is awake, or the server
thread is, or every client thread it waits for is, whatever the peers do. The chain is the quit
signal (no wait for capacity outlasts it), `PipeContent` (the byte is there for every `select` to
come), `NoLostWakeup`, and `CountExact` (who sleeps in the drain waits for somebody). It needs three
facts that `IInv` leaves out (`ServerProgress!PInv`): the quit signal is up whenever the owner is not
between `start` and `stop`; `accept4` is called only with a connection waiting; and only threads that
were given up on watch a closed pipe. `LoneStopIsNotStuck` is the same for `Client::stop`, with
`~StopsOverlap` as its hypothesis, as `LoneStopIsSeen` has; it adds that a socket which was ready for
the message stays ready (`WriteIsReady`). With overlapping stops it is false (finding 3).

*Every step uses something up.* `ClientThreadsEnd` and `CallsEnd`: each step of such a thread brings
it nearer to its end or leaves fewer units to read, and no step of anybody else sends it back.
`ShutdownEnds`: from `stop` on, neither owner nor server thread goes back, and each falls asleep
again only after another thread has made way; a spurious round of notifications cannot go on for
ever. `StopsEnd` says so for the stops, overlapping ones too, and the bytes in the pipe.
`MessagesEnd` has it as one number: a message takes at most `3 * BUFFER_SIZE + 4` steps.

What is missing from these to `StopReturns`, `StopsReturn`, `CallsReturn` and `ReaderEnds` is that a
thread that can make a step does make it, which is `ThreadFairness` and stays with TLC, as does the
agreement of the guards with `ENABLED`.

`LeakIsBounded` proves `OneDropPerStart`, a bound over all lives together: a connection without a thread and without a queue is one
that `CheckQuits` let fall, and the server thread leaves its loop there.

**System.** Each side's invariant comes for free by `SystemIsServer`. `SystemInv!Link` adds what one end knows of the
other: past its read a thread has had the whole message and nothing of it is on its way
(`MessageRead`), nothing of an answer has reached a call before it was written (`AnswerWritten`), and
only calls make connections (`CallMade`). From these, `AnswersOnlyEarned`; and
`SystemImplementsExchange`, where the limit comes from the server's `Admission`, and that nothing is
taken twice from its `Queueing`. Both hold for any number of calls and stops, any faults on both
sides and any number of starts.

`EveryEndIsNoticed` is the safety half of `ServerStopEndsCalls` and `EndOfCallEndsService`: a call
whose service is over, or whose server was stopped, can go on, or the network has its answer, its
refusal or the end of its service; and a thread whose call is over can go on, or the network has the
rest of its message or its end. It names who is left out (`LeftBehind`): the connection `doAccept`
dropped, and those of the threads the server gave up on; these calls have only their own time out.
It needs `LinkedEnds`: a thread that is gone has closed its socket, a connection is queued until it
is accepted or the queue is closed, a server that is not started has no queue, and a call connects
once and keeps its socket until it reports its end.

`OnlyDelaysAreWaitedFor` is the absence of deadlock in the two programs together. A call in progress
can go on; or the network has something for it; or its thread can go on, waits for something that is
on its way, or sleeps for the delay it was asked for; or it is queued, and the server thread goes on
towards it or is full of calls of which all this is true. The one way out of this list is
`Unserved`: the main loop ended before it got to the call, by `stop` or by a failure, or `doAccept`
dropped it (finding 1). Without an application that calls `stop`, and without failures, the time
outs of the calls are therefore only ever needed for long delays and long queues. Two more parts of `LinkedEnds` are for this
theorem: a connection in the hand of `doAccept` or of a thread has an open socket (`ServedIsOpen`),
and the whole message is still to be read before the first `select` of its thread (`FirstReadsAll`),
so that a thread in that `select` never waits for a message that has been taken already.

**Message.** The two safety properties and the types are inductive together: because nothing is lost, a read of
`BUFFER_SIZE` units is a read of everything. `MessagesEnd` needs only the types.

**Types.** `Server` and `Client` have their type invariant checked by TLC and proved. Those of `Message`
and `Delay` are only proved (`TypeCorrect` in either module): their runs spend their time on other properties.

**Delay.** `Wrap` yields an int and leaves ints alone (`WrapIsInt`, `WrapOfInt`); a delay whose
microseconds are an int is an int (`FittingIsInt`). From these, `FittingDelays` and
`AnswersIncrement`.

**Only model-checked:** all liveness (`StopReturns`, `DeadPeerFreesSlot`, `PendingServed`,
`StopsReturn`, `CallsReturn`, `ReaderEnds`, `ServerStopEndsCalls`, `EndOfCallEndsService`, `PeersClose`), since the prover does not reason about fairness and
`ENABLED` (the two halves of the argument that are safety are proved, see above); and the violated properties, for which TLC gives the counterexample.

## 5. What is not modelled

* Descriptor numbers and their exhaustion: `EMFILE` is a fault that may occur, not a count; sockets
  and pipes left behind by a `start` that failed are not counted.
* `stop` without a successful `start` (joining a thread that does not exist throws) and exceptions of
  the `std::thread` constructor: both end the process.
* Peers that are not a pipetrick client and send more than one message: a peer that keeps sending
  short pieces would keep `readMessage` in its loop.
* A `select` for writing that does not return: the send buffer of the connection is empty then.
* Deleting a `Client` while a call is still leaving `closeAndNotify`, as one test does: the lifetime
  of a mutex is below the level of this model.
* Log, the tests, the leak check and the build. They keep no state and decide nothing: `log.cpp` prints,
  `valgrind_check.cpp` asks Valgrind for its counters and prints, `test.cpp` calls the two classes and
  asserts (its scenarios are the source of several properties: stop on either side, more clients than
  slots, a client that quits while the server sleeps).
* `testApps/valgrind/valgrind.h` and `memcheck.h` are vendored headers of Valgrind (7467 lines): macros
  with inline assembly that do nothing outside Valgrind. They are most of the lines of the
  repository, so the model covers a small share of *all* lines; of the 1141 lines that are the
  program's own it covers more than half, and what is left there is declarations, comments, includes,
  log messages, and the files named above. There is no further behaviour to model in them.
* Failures of `close`, of `ioctl` and of a `write` to the pipe: the code logs them, or takes the same way out
  as for another failure that is modelled.

## 6. Plan

Done: `Server`, `Client`, `Message`, `Delay` and `System`, each with its invariants, its liveness where it has
any, an abstract specification for the three that promise something (`ClientPool`, `QuitRequests`,
`Exchange`), the proofs of every safety and every action property that a run checks, and the safety halves of the
liveness arguments.

Left to prove: that the abstract specifications promise what a user reads into them (the limit and
the emptiness of a closed `ClientPool`, that a kept request of `QuitRequests` leaves nobody inside,
that `Exchange` answers each call once), stated once and carried over by the refinements; and a bound
on the steps of the whole of `System`, as far as it can be said step by step: the number itself is a sum
over the connections, which needs an induction.

Left, should the code grow: a count of descriptors, so that `EMFILE` is a state and not a fault; several
servers or clients in one process, which share nothing but descriptors today; and the number a call returns carried through
`System` (today `Delay` follows it alone, for one exchange).

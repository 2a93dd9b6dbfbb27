# A TLA+ model of NetProgServ4

NetProgServ4 is a C++ server with two services, a file server that replicates
its files to peers and a remote shell. Its parts were written one by one and
the repository does not build as a whole: `main.cpp` and `SyncServ.h` break off,
and some virtual functions are declared and defined nowhere. The parts that
carry the logic are complete, and this directory models those: the lock, the
accessors of files, their registry, the replication to peers, the shell's
sessions, the server's loop and sockets, and the main loop.

## 1. Inventory

| Component (source) | State | Operations | Talks to |
| --- | --- | --- | --- |
| Readers/writer lock (`readerWriter`) | `readers`, `rw_mutex`, `rw_cond`, shared by all copies | `rwlock_start_read`, `_end_read`, `_start_write`, `_end_write` | base class of the accessors; copied into the supervisor as `supLock_*` |
| File accessor (`FileAccesser`) | `fd`, `owners`, `opened`, one lock; in the kernel the descriptor and its position | `rw_open`, `rw_close`, `write_w`, `read_w`, `seek_w` | the kernel; a forked process per write; `FileSupervisor::setFileDescriptor` |
| File supervisor (`FileSupervisor`) | the maps `filesByString`, `filesByInt`, one static lock | `getSyncFileAccessorStr`, `getSyncFileAccessorInt`, `setFileDescriptor` | makes accessors; is called by `i_open` |
| Replicated accessor (`SyncFileAccessor`) | `peers`; the processes it forks | the accessor's five calls, each passed on to the peers; the vote of reads | the accessor below it; connections to the peers |
| Shell server (`ShellServ`) | per session: the last answer; shared: descriptors and children of the process | `receive_full_message`, `exec`, `start` | clients; forked programs through two pipes |
| Server base (`Server`) | `sockfd`, `serverNum` | `startServer`, `start`, receive and send with a time limit, `Message` | clients; `processData` |
| Shell part (`shell_part`) | – | the same text as the shell server, apart from an uninitialised socket number | – |
| TCP utilities (`tcp-utils`) | none | connect, listen, receive, send | sockets; `Server` and `SyncFileAccessor` call them |
| File server (`FileServ`) | the static `port` | `setPort`, `getPort` | `Server::getPassiveSock` |
| Main program (`main`) | ports, the two listening sockets | options, socket set-up, the accept loop | clients; what handles them is a comment |
| Peer server, worker | – | unfinished or empty | – |

What is hard in them:

* **Concurrency.** Threads serve clients and share accessors, the supervisor and
  the process's descriptors and children. A write is done by a forked process
  after the call has returned, and without the lock.
* **Failure.** `open`, `fork`, `bind`, `listen`, `connect`, `accept`, `recv` and
  `send` fail in ways that the code passes over. Two kinds of undefined behaviour (a push into an empty
  `optional`, a null pointer in `strcmp`) lie on ordinary paths.
* **Ordering.** Forked writers, forked messengers and foreign children finish in
  any order.
* **Stale state.** A closed accessor keeps a descriptor number that the kernel
  gives out again.
* **Limits.** Descriptors, ports and processes are taken and not given back.

What makes each of them correct is stated in section 4, property by property;
`PROJECT.json` lists the hazards at their lines with the properties that cover them.

## 2. Modules

| Module | Models | State and actions |
| --- | --- | --- |
| `RWLock` | what a readers/writer lock promises | `reading`, `writer`; one instant per call |
| `ReaderWriter` | `readerWriter.cpp` | one action per pthread call and per access of the counter; `pc` names the function and statement |
| `MCReaderWriter` | the same under a finite workload | bounds on requests and spurious wake-ups, which liveness needs |
| `FileAccessor` | `FileAccesser.cpp` | `fd`, `owners`, `opened` per file; `Enter` is the lock, `OpenFile`, `Close`, `Write`, `Read`, `Seek` the `i_` functions with the release; descriptor table, open descriptions, contents and forked writers are the kernel |
| `FileClients`, `MCFileClients` | `FileAccessor` with clients that share files, where only the one that got a file opened closes it | `holder` |
| `FileStore` | what one file promises to any clients | sessions with a position each; writes accepted and pending; one step per operation |
| `FileSupervisor` | `FileSupervisor.cpp` | the keys of the maps; `alive` is lost with an uncaught exception |
| `FileService` | `i_open` calling the supervisor | `FileAccessor` and an instance of `FileSupervisor` |
| `PeerSync` | `SyncFileAccessor.cpp` lines 23–93, 152–280, `tcp-utils.cpp` lines 46–84, 168–214 | `procs` is the process table, `inbox` what got to the peers |
| `ReadVote` | `SyncFileAccessor.cpp` lines 95–150 | the messages of a read, its answer, the read lock |
| `ShellSessions` | `ShellServ.cpp`, `shell_part.cpp` | `pc` per session; children with the pipe ends they inherited; connections |
| `ServerLoop` | `Server.cpp` lines 17–173 | the round of `start`, `serverNum`, and how long an answer and its buffer are |
| `ServerSockets` | `Server.cpp` lines 175–205, `tcp-utils.cpp` lines 102–139, `FileServ.cpp` | extends `ServerLoop`; `sock` is the kernel's table, `sockfd` each server's member; one action per system call of `passivesockaux` |
| `MainLoop` | `main.cpp` lines 44–205 | `pc` is main's point; `queue` the connections in the kernel; without the ports |
| `ReaderWriterProofs`, `FileAccessorProofs`, `FileSupervisorProofs`, `ReadVoteProofs`, `PeerSyncProofs`, `ShellSessionsProofs`, `ServerSocketsProofs`, `MainLoopProofs` | – | theorems, section 5 |

How they fit: `ReaderWriter` is shown to implement `RWLock`, and the modules of
the lock's users take what `RWLock` promises in its place: `FileSupervisor` and
`ReadVote` through an instance of it, `FileAccessor` by who is inside (`Inside`,
`Readers`, `Writers`), since there the threads' points already say who has the lock.

A component is modelled against the contract of what it calls, and separately
joined to what it really calls. `FileAccessor` lets `setFileDescriptor` return and
shows that the accessors implement `FileStore` for any clients, the kernel's
descriptors and forked writers included. `FileClients` asks for more: that a write
gets to the very file it was meant for. That takes clients that leave the close of
a file to the one that got it opened; they may otherwise share files as the answer
"file already opened, please use the supplied identifier" invites them to.
`FileService` puts the real supervisor in its place and finds that it never
returns; both parts are still what their own modules say there
(`ServiceImplementsItsParts`). `ReadVote` takes `e_read` to return the peers' messages; `PeerSync` finds
that it never returns. Without that, one early defect would hide everything
behind it. What is said to go wrong *in the code* is shown only by behaviours
that pass no such idealised call: the violations of section 4 about files are those of
`FileService`.

Decisions about the code:

* `CHECKOPEN` expands to `if(!open)`. `open` is open(2) and never null, so the
  macro lets every call through and is no guard anywhere.
* `owners`, `opened` and `fd` change only under the lock, so a body and the
  release after it are one action.
* `filesByInt.at(fd) = getSyncFileAccessorStr(name)` evaluates its right side
  first, as C++17 demands.
* `clientPids->push_back(...)` on an empty `optional` may crash the process that
  runs it, parent or child, or do nothing that shows; the `optional` stays empty.
* `wait(NULL)` with no child fails at once; a fork copies all open pipe ends;
  SIGPIPE is not handled anywhere, so it ends the process.
* `shell_part.cpp` and `ShellServ.cpp` have the same text; the map names the one
  or the other for different definitions of `ShellSessions`, and each applies to both.
* `SO_REUSEADDR | SO_REUSEPORT` is 2 | 15 = 15, `SO_REUSEPORT`: main's two
  sockets may share a port. The sockets of `passivesockaux` have no option: a port is
  free only when no socket is on it, connections included.
* A socket that poll calls writable takes `SendSpace` of an answer; the write of a longer
  one waits for the client to read, as the socket is a blocking one (`Blocks`).
* A TCP connect on a non-blocking socket answers EINPROGRESS unless it is done at
  once, which POSIX allows for a peer on the same host (`Near` in `PeerSync`).
* `addr_size` in `main` is indeterminate and stays so while accept refuses it:
  one choice at the start (`addrFits`).
* `make_shared<char>(n)` and `make_unique<char>(n)` make one char: what is written
  behind it may end the process or not.
* `processData`, and the order in which `getPassiveSock`, `acceptSock`, `startServer`
  and the destructor are called, are open in the repository: any result, any order.
* `TypeOK` says in each module what the variables hold. Each is a theorem (section 5); `lock`
  checks its own as well, since the counter's lower bound is at stake there.
* A slip: operators with that word in their comment are variants of the action
  beside them, kept to show that a property notices them. No specification uses them.

## 3. Bounds

Every bound is a constant and is named as one in the module that declares it.

| Run | Bounds | Why they are enough |
| --- | --- | --- |
| `lock` | 3 threads, nesting 2, 2 requests each, 1 spurious wake-up | two writers asleep while a nested reader leaves; a writer is overtaken and goes back to sleep; `read_w` nests no deeper |
| `accessor` | 2 threads, 2 files, 2 descriptors, 2 opens, 1 write, seeks by 1 | both files open at once; or one opened, closed and reopened, or its number reused; a seek between a write and its child; `open`, `fork` and `write` fail anywhere |
| `clients` | the same with 2 writes; files and threads interchangeable (`Symmetry`) | a number goes from one file to the other while a child is still to write; two children in either order, with reads and seeks between; a client that did not open a file writes to it, also when it was closed |
| `supervisor` | 3 threads, 2 names, 2 numbers | one thread in `setFileDescriptor`, one waiting to read, one to write |
| `service` | 2 threads, 2 files | a second open, of the same and of another file, after the first hangs |
| `peers` | 2 threads, 3 peers, 4 processes, 3 calls, writes and reads | both calls can have all their processes, and the process table fills before the calls run out, on every path; `open`, `close` and `seek` go the way of a write that gets no process of its own, which happens too |
| `vote` | 2 peers, bytes 0-2, 2 bytes each | ties, three different bytes, a NUL at either index, every mix of failures |
| `shell` | 2 sessions, 2 lines, all outputs | both orders of pipe, fork and close, and of the two exits and the two waits; a command followed by `CPRINT`; an error of `recv` adds the empty command; a line may be cut off in either session, behind a whole one too |
| `server` | 2 servers, 2 ports, 4 descriptors, 1 request each, 2 lengths of text | both servers at one port and at two; a listening socket and a client lost at each port take all descriptors, so that accept and socket fail; every status |
| `main` | 2 clients, 2 options, backlogs 0 and 20, 4 descriptors | both clients at one socket and one at each; one socket that does not listen; descriptors run out with a client in a queue |
| `service_fork` | those of `service` | one thread and one write show it |
| `shell_success` | 1 session | the smallest that shows it |

In `server` an answer is longer than `SendSpace` for the longer of the two texts, and
shorter for the other. The symmetry of `clients` is sound: its specification treats
threads alike and files alike, its properties are invariants, and the numbers of
descriptors, descriptions and blocks are not touched by it.

`CHECK_DEADLOCK FALSE` stands where the system may stop: a finite workload is
used up, the bound on calls is reached, the process is gone, or threads hang
(which is what `supervisor` and `service` are about).

## 4. Runs

### What holds

* `lock`: a writer is alone (`WriterIsAlone`); `readers` counts exactly
  (`CountIsExact`); no wake-up is lost although only one sleeper is signalled
  (`NoLostWakeup`); the whole implements `RWLock` (`ImplementsRWLock`); every
  writer gets in once readers stop coming (`WriterGetsIn`). *Fairness*: each thread goes on when it can
  (the kernel schedules it) and gives back what it took; nothing about who gets a
  mutex next.
* `accessor`: `owners` is 0 or 1 and tells the same as `opened`; no descriptor is
  leaked by any sequence of calls; each file is a `FileStore` (`ImplementsFileStore`): a
  late child never writes to another file nor at another session's position, and the
  writers of a session never overwrite one another. All of that is for any clients.
* `clients`: when a file is closed only by the client that got it opened, an open accessor's
  descriptor is its own (`DescriptorIsOwn`), and a write that was accepted while its file
  was open gets to no other file and to one place at most (`ContentIsWritten`), whoever made
  it. A write to a file that was closed meanwhile is no such write: `CHECKOPEN` lets it
  through, and it lands in whatever file has the number by then.
* `supervisor`: outside `setFileDescriptor` some
  thread can always go on; `setFileDescriptor` wedges the supervisor for good.
* `service`: so an open never gets past its registration and takes its file with it
  (`OpenWedgesFile`), and no write ever reaches a file (`NoWriteLands`).
* `peers`: no call reaches a peer twice (`ToldOnce`); what is done here has had a
  process for each peer but the first (`NothingIsDoneSilently`), so the process table cannot
  fill up between the peers and the server; calls do not wait for
  peers (`AnsweredWithoutPeers`); in the end the server runs out of processes, if no read
  has ended it before (`ServerRunsOutOfProcesses`).
  *Fairness*: the server's threads run and clients keep calling; nothing about
  the child processes.
* `vote`: each byte answered is one that most messages have; an answer that most
  messages agree on is the one given; after a failed read
  nobody gets the lock to write again, since the read lock stays taken.
* `shell`: sessions take each other's children, yet each `wait` has one; answers
  come after the program's exit; a line that was cut off is run only after a reset, not
  after a close (`HalfLinesRunOnlyAfterReset`); every command is answered or the server goes
  down; a client's reset while its session waits takes the server down, and so does a
  program that prints nothing (`SilentProgramTakesTheServerDown`).
  *Fairness*: threads run and programs end.
* `server`: a server's socket is its own (`HoldsItsOwn`); no failure on the way to a
  listening socket loses one, only `acceptSock` does (`OnlyAcceptLoses`), and for that
  reason a port serves one client in the life of the process (`PortServesOneClient`);
  what is sent holds the whole status, and then bytes from behind the buffer
  (`StatusArrivesWhole`); `start` returns, unless it is in a write that its client does not
  read (`StartReturns`). *Fairness*: a thread in `startServer` runs, but for that write.
* `main`: each
  connection is taken from its queue while there are descriptors, also beside a socket
  that failed to listen (`EveryClientIsTaken`); clients that come one after the other use
  up the descriptors (`RunsOutOfDescriptors`). *Fairness*: main runs; clients that were
  accepted or dropped leave in the end, and come again.

### What the repository says and the code does not do

Each of these runs checks one statement of a comment or an answer's text, and
TLC finds it violated; `PROJECT.json` quotes the line under `findings`.

| Run | Statement | What happens |
| --- | --- | --- |
| `service_fork` | `AcceptedWriteHasAProcess` | "Write will be completed" is answered also when `fork` failed and nobody will write |
| `shell_success` | `SuccessIsReported` | a program's exit status is not looked at |

Other lines that the code does not keep to, found while reading it; the modules
model what the code does:

* `FileAccesser.cpp:12-15`: `CHECKOPEN` "to verify if file is opened" verifies nothing (see
  section 2), so a write to a file that is not open is answered OK, and a call on a file
  that was closed works on whatever file has its number.
* `FileAccesser.cpp:74`: a failed `open` is answered as a success with
  descriptor -1, because the test is `fdTmp < -1`.
* `SyncFileAccessor.cpp:22`: "forks a process for every peer", but the loop starts at 1: no
  process is made for `peers[0]`. If that is meant to be the server itself, nothing in the
  repository says so.
* `SyncFileAccessor.cpp:53, 64, 73, 82, 91`: the `exit(1)` that "should never be
  reached" is how every child ends.
* `SyncFileAccessor.cpp:116`: when the own read fails too, the "local data" sent to
  the peers is the text of the error (`passedOn` in `ReadVote`).
* `SyncFileAccessor.cpp:207-209`: the OK of a peer that answered is replaced by
  `SYNC_FAIL` in the next statement, so line 116's "Most peers failed to sync"
  would be said when all of them answered. (`ReadVote` takes every message that
  `e_read`'s type allows, since otherwise there is no vote to check.)
* `Server.cpp:133-135`: "All function client-wise are non_blocking. If the client disconnects
  or times out, the command will return." The write of line 105 is on a blocking socket:
  a client that neither reads nor leaves keeps `start` in the write of an answer longer
  than the socket takes. This is the exception in `StartReturns`.
* `Server.cpp:38`: the size counts status, code and data, while the string that
  `toCString` makes is the status alone.
* `main.cpp:81`: the case of `-p` has no `break`: it prints the usage text and ends.
* `tcp-utils.cpp:43, 94`: `s_port` has network byte order already and is turned once more.
* `tcp-utils.h:115-120`: `recv_nonblock` answers -1, not `recv_nodata`, when there is
  no data, and clears `errno` after an error; `tcp-utils.h:125`: `readline` reads on
  without a bound when `max` is below 2, and compares `tmp = '\r'`.
* `tcp-utils.h:54`: the errors listed leave out the -1 of a failing `fcntl`, which is `err_host`.

## 5. Proofs

All theorems hold for every value of the constants under the module's named
assumption; none bounds the number of threads, files, descriptors or keys. The
assumptions say which constants are finite sets or numbers, and that the default of
`main.cpp` is among the backlogs. Every `TypeOK` is a theorem.

* `ReaderWriterProofs` (from `LockAssumption`: finitely many threads, nesting at
  least 1). The inductive invariant adds to `TypeOK`, `CountIsExact` and
  `NoLostWakeup` who owns the mutex: a thread at a point inside a critical
  section is its owner, a thread that holds the write lock has seen the counter
  at zero, and the counter is positive at the points that follow an increment.
  `WriterIsAlone` is not inductive by itself: it needs that the writer's mutex
  keeps readers out and that a zero counter means no read lock, which is
  `CountIsExact`, a statement about cardinalities; the lemmas `TokenAdded` and
  `TokenRemoved` carry it through the increments. The same invariant makes each
  step a step or a stutter of `RWLock` (`Refinement`), and shows that the functions never
  all wait for one another (`LockNeverDeadlocks`): the mutex has an owner that goes on, or
  it is free and a sleeping writer has a reader, or a thread that was woken, to rely on.
  `CanAdvance` spells out the guards of the steps, and `AdvanceIsGuarded` shows that no
  step is taken without them.
* `FileAccessorProofs` (from `FileAssumption`). `OwnersIsAFlag` and
  `NoDescriptorLeak` are proved from an invariant that adds that the writers of a
  lock are alone (`LockIsKept`) and that a file whose open is being registered
  is not open yet (`RegistersAnOpen`); without these, a second open could
  overwrite the descriptor between the first one's open(2) and its `opened`.

  From these follows the refinement `FilesAreStores` (`ImplementsFileStore`), action by
  action and for any clients. The session of the abstract file is the live open
  description that leads to it; `NoDescriptorLeak` makes it the one behind the
  accessor's descriptor (`SessionsAreLive`), if the file is open. A call on a file that
  is closed is a call to the store whose number it has. A child writes through
  the description it was given, so a late write stays in its own session.

  *Clients that share files.* Each of their steps is a step of `FileAccessor`
  (`PoliteStep`), so the invariant above holds for them. `DescriptorIsOwn` needs two
  things more: a file has one closer at most, counting the one whose answer is on its
  way (`OneClient`), so no close reaches a file between its close and the next open; and
  a file that is being registered already leads home (`AccessorsLeadHome`).

  `FilesHoldWhatWasWritten` (`ContentIsWritten`) needs that a block tells its write: writes
  are numbered (`WritesAreNumbered`), and a child has the block of an accepted write, whose
  file its description leads to if that was open; no other child has it, and no file holds
  it yet (`ChildrenHaveWrites`).

  *The service.* A thread that registers its file is either still outside the supervisor or
  waits in setFileDescriptor (`NothingRegistered`), which returns to nobody: so an
  open that got its descriptor keeps the lock of its file for good (`OpensWedgeFiles`).
  So no accessor is open with a descriptor, and a child that could write has nothing to
  write to: `WritesAreLost` (`NoWriteLands`). `ServiceImplementsItsParts`: each step of the
  service is a step of the accessors or a stutter, and of the supervisor.
* `ReadVoteProofs` (from `VoteAssumption`). The loop of `most_common` over the bytes is a
  recursive function. That there is one (`ScanDefined`) and what it finds is shown by
  a least counterexample (`LeastOf`), as induction theorems are out of reach here. From
  it follow `VotesAreRight` and `MajoritiesAreAnswered`. A read that was answered FAIL
  has kept its read lock (`LockPerRead`, `FailsAreBounded`) and readers keep writers
  out (`ReadersKeepOut`), so nobody gets the lock to write again (`FailedReadsEndWriting`).
* `FileSupervisorProofs` (from `SupervisorAssumption`). With the empty maps, a
  thread in `setFileDescriptor` past its first point has the lock and waits to
  read, so no other thread has a read lock. From it follows
  the action property `SetFileDescriptorWedges`. `OnlySetFileDescriptorHangs` is the
  provable form of `WaitersWaitForRunners`: `CanStep` spells out the guards of the steps
  where the run has `ENABLED`, and `StepsAreGuarded` shows that no step is taken without
  them.
* `PeerSyncProofs` (from `PeerAssumption`). Calls have numbers of their own, peerFork
  makes one process for each call and peer (`OneProcessEach`), and each message in an
  inbox has such a process, which is past its send (`ToldByItsProcess`): so a second
  message of one call has nobody to send it (`ToldOnce`). The peers peerFork has
  passed have their processes (`PassedHaveAProcess`), from which
  `NothingIsDoneSilently` follows. A call and its peer, or its i_write
  (`OneWriterEach`), are in the process table once and stay when the process moves on.
  `CallsComeCloser`: the steps that a call is away from its answer
  (`Distance`) get fewer with each of its thread's, and the processes change nothing about it.
* `ShellSessionsProofs` (from `ShellAssumption`). `OneChildPerWait` needs that a new
  child is one more: its pid is free, as there are more numbers than children
  (`PidIsFree`, a pigeonhole), and that a session at its wait has forked
  (`ForkedBefore`), since the child it takes may be another's. A program that runs
  keeps its session from the end of the output (`RunsInItsSession`), from which
  `AnswersAfterItsProgram` follows. `HalfLinesRunOnlyAfterReset` is proved step by step.
  `WaitsOnlyGetShorter`: a program that starts while a session reads its output has not
  that session's pipe, since the server has closed its write ends by then.
  `ResetsLeaveNoWayBack`: a session whose client broke off (`Doomed`) stays one until the
  process ends, and its own steps only lead on to the answer that ends it.
* `ServerSocketsProofs` (from `SocketAssumption` and `ServerAssumption`). Besides who has
  which socket at which point (`SocketOfThePoint`, `NobodyShares`), a port has one
  socket that is bound or listens (`OnePassivePerPort`), and the listening socket of
  a port whose client was accepted is open and nobody's (`AcceptedLeavesLost`): so the
  port cannot be bound again, and `PortServesOneClient`. `OnlyAcceptLoses` goes
  through the failures of `passivesockaux` one by one. `serverNum` is the number of
  servers in startServer (`RunningServersAreCounted`). `StartComesToItsEnd`: what is left of
  start (`Remaining`, from what is unread and the point in the loop) shrinks with each step.
* `MainLoopProofs` (from `MainAssumption`). Nobody is queued where nobody listens
  (`NobodyWaitsInVain`), and accept finds the connection that select saw (`FoundIsThere`).
  `EveryTurnComes`: while there are descriptors, main takes the first
  client of a queue or comes nearer to it with each step (`Turn`), at most a round and a
  half of the loop away; others only come in behind.

Only model-checked, as they rest on fairness: `WriterGetsIn`,
`AnsweredWithoutPeers`, `ServerRunsOutOfProcesses`, `EveryCommandIsAnswered`,
`ResetTakesTheServerDown`, `SilentProgramTakesTheServerDown`, `StartReturns`,
`EveryClientIsTaken` and `RunsOutOfDescriptors`; and `WaitersWaitForRunners`, because of `ENABLED`. Every other
property of a run that passes is a theorem.

What most of these rest on that needs no fairness is proved, for every value of the
constants:

| Property | Theorem | What is left to fairness |
| --- | --- | --- |
| `WriterGetsIn` | `LockNeverDeadlocks` | that who can go on does, and that readers stop coming |
| `AnsweredWithoutPeers` | `CallsComeCloser` | that the server's threads run |
| `EveryCommandIsAnswered` | `WaitsOnlyGetShorter`, `AChildForEveryWait` | that programs end and threads run |
| `ResetTakesTheServerDown` | `ResetsLeaveNoWayBack` | the same |
| `StartReturns` | `StartComesToItsEnd` | that the thread runs, unless its write blocks |
| `EveryClientIsTaken` | `EveryTurnComes` | that main runs |
| `WaitersWaitForRunners` | `OnlySetFileDescriptorHangs` | nothing: that a step is possible where its guards hold is TLC's part, as in `LockNeverDeadlocks` |

## 6. Not modelled

* What messages say, the splitting of command lines into words (with the overflow of
  `argv_command` behind 99 spaces), and the options of `main` that nothing reads.
* The ports of `main`: no client is served, so it makes no difference to the loop which
  service one meant. `htons` takes an option modulo 65536 (`-s 74537` is port 9001).
* A negative size of `read_w`, for which `resize` throws (`FileAccesser.cpp:106`).
* The accessor's lock and the supervisor inside a replicated call: `PeerSync!Local` is one
  step that may always be taken, while an `rw_open` that gets a descriptor never returns
  (`OpenWedgesFile`). `AnsweredWithoutPeers` is about the peers only.
* The `wait(NULL)` of shell sessions in the same process, which may reap one of the
  processes that `PeerSync` counts. It reaps one for each command; as `main` starts
  neither service, the two are kept apart. Nor do the shell's waits take the children of
  writes that way.
* The children of `i_write` that were forked before a failed read: they write without the
  lock, so `FailedReadEndsWriting` speaks of who gets the lock.
* Copies of a `Server` (`FileServ.h:17`), which would close the copied socket twice, and
  calls of several threads on one object: `ServerSockets` has one thread per object, and
  `setPort` between any two of their steps.
* What a blocked send has room for is one number (`SendSpace`) for every socket, and a client
  that reads is one whose answer was short enough, or that leaves.
* Time: a time limit is a step that may be taken at any moment.
* Programs that close their output or leave processes of their own behind.
* The uninitialised socket number of `shell_part.cpp`'s `shellThread`; the file is not in
  the build. Its functions have the text of `ShellServ.cpp`'s, and where the map names
  `shell_part.cpp` the definition stands for both.
* What a peer does with a message: no receiver is in the repository, so there is no
  promise about the order of messages to check (`inbox` keeps the order of arrival).
* `SyncServ`, `Worker`, `startWorkers`, `FileServ::start`: unfinished, empty, or made of
  undeclared names. `readline` and the wrappers of `connectbyportint` and
  `passivesocket` by name: nothing calls them.
* `cmake-build-debug/`: generated.

## 7. Plan

Done, in this order: the lock with its abstract form and proofs; the accessor
with its proofs and its clients; the supervisor with its proofs and the service;
replication and the vote; the shell's sessions; the server's loop; then the abstract
file, the sockets of servers, connecting and sending to peers, lines that break off,
and the main loop; then the proofs of clients, peers, shell, sockets and main; then
those of the abstract file, the service, the vote and all types; then what files hold,
that the service keeps to its parts, and what the liveness properties rest on; then
clients that share files, writes that block, pipes that fail and programs that print nothing.

Next:

1. *A replicated service*: `PeerSync`'s local step as `FileAccessor`'s calls, so that
   peers and own file are compared: what the peers were told against what was
   done here, for failing opens and for the restore.
2. *Proofs*: of that composition, when it is there: what the peers were told against
   what was done here.

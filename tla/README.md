# TLA+ models of the AGH operating-systems exercises

The repository holds ten sets of exercises, `cw01` to `cw10`, each a small C
program (or a family of programs built from one source with different flags).
They share no code, so the project has one group of modules per program and no
module that composes two programs. The programs that run several processes or
threads carry the logic that is hard to test and have the largest models. Paths
below are relative to `src/`.

## Inventory

| Part | State | Operations and interactions | What is hard | What makes it correct |
|---|---|---|---|---|
| cw07 barber shop (zad1 POSIX, zad2 System V) | shared memory: ring of seats, `barber_sleeping`, `barber_chair`, four semaphores and one per seat (System V: the ids of sets) | barber loop, client visits, a listener that spawns batches of clients on the key `s`, exit on a signal | every access interleaves; a seat is reused while its invitation is pending; processes die anywhere; sets are removed under waiting processes | one client at the chair; no sleep over a waiting client; everybody is served; the sets in use exist and no others |
| cw09 producer/consumer (monitor and semaphore programs) | ring buffer, mutex, two conditions or three semaphores | producers, consumers, a main thread that joins or cancels them | lost wakeups, spurious wakeups, cancellation at any cancellation point, buffer full or empty | FIFO, exactly once; no lost wakeup; termination; lines are left over only if a consumer that was about to take one is cancelled |
| cw06 message server (zad1 System V, zad2 POSIX) | server: `clients[]`, `end`; client: `client_id`, `nostop`; the queues | HANDSHAKE, MIRROR, CALC, TIME, END, STOP; cleanup at exit and on SIGINT | reused slots, messages of clients that have gone, full queues, END overtaken by requests | a slot has one owner and is freed; answers match requests and arrive; END stops the server |
| cw10 calculation server (zad1 streams, zad2 datagrams) | `clients[]` under `clients_mx`, `free_cl`, sockets and the numbers of their descriptors, poll set | accept threads, listener, pinger, operator's thread, shutdown; the clients | check and insert in two sections, unlocked accesses, descriptor numbers that are used again, silent clients, lost datagrams, cancelled threads | consistent list, unique names, fair choice of clients, silent clients dropped, clients end with the server but those whose connection is reset |
| cw04/zad2 permissions by signals | parent: `request_count`, `children_states`, `children` | SIGUSR1 requests and permissions, real-time signals, `wait`, SIGINT | standard signals merge; a request can precede the child's entry in the table; handlers interrupt `wait` | a request is lost in no other way; permissions only to children that wait; no child left behind |
| cw04/zad3 counted signals | `sent`, `received`, `usr1_received`; the child's `received_count` | three modes of signalling, SIGUSR2 to end | merged signals; a signal before the handler; an answer before the wait | exact in mode 2, nothing lost in mode 3; both ends terminate |
| cw04/zad1 toggle | `child_pid` | SIGTSTP starts or kills the child that runs `showdate.sh`, SIGINT ends | uninitialised `sigaction` | - |
| cw01 challoc | table of blocks, static table | create, add, remove, search | failing allocations, empty tables, index arithmetic | no leak, no double free, no access past the table; the nearest block is found |
| cw02/zad1 records | a file and a position | generate, sort, copy | seeks relative to the position, at the first record | sorted and stable, no record lost; copies are copies |
| cw02/zad2, cw03/zad1 directory listing | none beyond the recursion | walk, in cw03 a process per directory | I/O | - |
| cw03/zad2, zad3 interpreter | one line buffer, words that point into it | split a line in place, run it, stop at a failure | what earlier lines left in the buffer | a line runs with its own words; nothing runs after a failure |
| cw05/zad1 pipelines | descriptor 0 of the shell, pipes and who holds their ends | pipe, vfork, dup2, waitpid | ends left open, an error in the middle of a line | programs see the end of their input; lines end; nothing is left over |
| cw05/zad2 FIFO | the FIFO, who has it open | slaves write, master prints, SIGINT | open and end of file depend on who is there | no line lost but a late slave's; all come to an end |
| cw08 image filter | image, `pixels_processed`, `pp_sem` | thread t filters pixels t, t + count, ... and reports | the counter is shared and its semaphore only tried; edges of the image | every pixel once; progress exact; no read outside the image |

`PROJECT.json` lists all of them under "components", modelled or not, and under
"hazards" the places in the code that a test would hardly reach.

## Modules and the code they model

| Module | Models |
|---|---|
| `HaircutService` | abstract: one chair, sit down / cut / get up |
| `BarberShop` | `cw07/zad1/src/barber.c`, `client.c`, `barber-shop.c`, POSIX build |
| `BarberSysV` | the same sources with `-DSYS_V` (zad2); extends `BarberShop` |
| `BarberShopProofs`, `MCBarberShop`, `MCBarberBuilds` | theorems; instances for TLC |
| `LineChannel` | abstract: a FIFO channel of lines |
| `ProdCons` | `cw09/zad1/src/buffer.c`, `cl.c` (the filter), `runner.c` |
| `MonitorPC`, `SemPC` | `main-monitor.c`, `main-sem.c`; both extend `ProdCons` |
| `ProdConsProofs`, `MonitorProofs`, `SemProofs` | lemmas on the ring; theorems of the two programs |
| `MCMonitorPC`, `MCSemPC` | instances for TLC |
| `MsgServer`, `MCMsgServer`, `MsgServerProofs` | `cw06/zad1/src/server.c`, `client.c`, both builds (`POSIXQ`) |
| `CalcServer`, `MCCalcServer`, `CalcServerProofs` | `cw10/zad1/src`, both builds (`Datagram`) |
| `Permissions`, `PermissionsProofs` | `cw04/zad2/src/main.c`, `children.c` |
| `CountedSignals` | `cw04/zad3/src/main.c`, `child.c` |
| `Pipelines` | `cw05/zad1/src/command_runner.c`, `interpret_file`, `main.c` |
| `Fifo` | `cw05/zad2/src/master.c`, `slave.c` |
| `ImageFilter` | `cw08/zad1/src/main.c`, `apply_filter`, `pgm_get_pixel`, `pgm_set_pixel` |
| `Records` | `cw02/zad1/src/operations.c`, `file_desc.c`, `main.c` |
| `Challoc` | `cw01/zad1/src/challoc.c`, `cw01/zad2/src/main.c` |
| `Batch` | `cw03/zad3/src/interpreter.c`, `command_runner.c`; `interpret_line` of cw05/zad1 |
| `Programs`, `MCPrograms` | the sum of the eight modules above; its inputs for TLC |
| `ProgramsProofs` | theorems about seven of them: all but `Permissions`, which has a module of its own |

Definitions whose comment starts with "Mutant:" are deliberate defects; no
specification uses them, they only show that the property listed with them in
`PROJECT.json` notices the defect.

**BarberShop.** Variables are the fields of `struct barber_shop_mem` under
their own names, the values of the semaphores, and a label per process
(`bpc`, `cpc`) that names the next operation. A step is one access to the shared
memory or one semaphore operation. `StartClient` is the process a batch spawns,
`Kill` the exit on a signal: a killed process keeps its label, releases nothing,
and only the barber's exit unlinks the memory. `served` is a history variable.
Two pairs of accesses are one step: `WakeBarber` clears the flag and posts
(client.c:56-57), and `TakeSeat` takes the seat and makes its semaphore
(barber-shop.c:35-55). Nobody else can come between, because the process has the
waiting-room mutex; but a signal between them is not a behaviour of the model. It
would leave the mutex locked, so no safety property could notice it.

**BarberSysV.** In the System V build a seat carries the id of a semaphore set, so
`waiting[s]` is an id here, `sets` the sets of the seats that the kernel keeps, with
their values, and `blocked[c]` the set for which a client waits: it is the one
whose id is in the seat when the client calls `semop`. `Removed` says that
the barber's exit has removed the four sets of the shop. Every operation on them
then fails and ends the client (`ShopRemoved`), except the wait for the haircut,
whose failure is only reported (`WaitFails`). Steps that do not touch a seat's
set are those of `BarberShop`. The four removals and that of the memory
(barber-shop.c:193-200) are one step, together with the signal that causes them.

**ProdCons, MonitorPC, SemPC.** `buffer`, `buffer_start`, `buffer_length` are
those of `buffer.c`; a line is its producer and its number in the file. `pc`
names the next operation of a thread. A section under the mutex is split where a
thread can wait, be cancelled or log. `pthread_cond_wait` is three steps (wait,
woken by `Signal` or `SpuriousWakeup`, `Relock`), and a cancelled waiter takes
the mutex again before `unlock_mx` releases it (`Unwind`). Cancellation strikes
at cancellation points, the log lines included when `Verbose`. A waiter can be
cancelled before it is woken and, as POSIX allows, after: in the second case it
passes the signal on to another waiter, or the signal is gone. `dismissed` is a history
variable: the consumers that were cancelled between being woken and coming back from
the wait, or before they locked the mutex for the first time. So are `sent`, `log`
and `taken`.

**MsgServer.** A step is one queue operation with what follows it up to the
next. Queues are named by their client. The uninitialised `queue` of a
slot whose `prepare_client_queue` failed is a nondeterministic choice. The first
word of a line and what follows it (space, newline, end of file) are kept,
because the client cuts the newline off the text only. A text is a
client and a line number, so that `mirror_text` can be told from the identity.

**CalcServer.** Sections under `clients_mx` without a cancellation point are one
step. A stream has a descriptor, a number of which `fd` says whose connection it is;
`accept` gives the lowest free one (`LowestOf`), and `close` frees it, whoever has
it by then. A slot keeps the number (`cl_sock`) and the poll set has numbers.
`setup` is a variable that never changes: the build, the length of the client list,
who comes, and what may happen (requests, crashes, a shutdown), so that one run can
have behaviours of both builds. The pinger holds the mutex for a round and is
modelled slot by slot; its `cl_inactivity++` is a read and a write, since
`handle_pong` writes without the mutex. `send_request` reads its slot without the
mutex, as in the code. A send to a stream whose client has gone may end the server
(SIGPIPE). A client that finds the end of its stream ends; one whose connection is
reset, because the server closed it with a message unread or never accepted it, gets
ECONNRESET, which `receive_request` takes for a timeout (client.c:148-156), and goes
on for ever: "retry". At shutdown the joins do not wait: `pthread_timedjoin_np`
takes an absolute time and gets second 1 of the epoch. `missed` is a history
variable, and so is `misclosed`: an UNREGISTER handled after its slot was dropped
has closed the slot's number again, which another connection had by then
(server_listen.c:65, server_cllist.c:135-137).

**Permissions.** `pc` is where the parent is, `child[c]` what process c does.
`usr1` is the one SIGUSR1 that can be pending at the parent, with its sender: a
second one is dropped, which `merged` remembers. `Stored` are the children whose
pid is in `children[]`; a request handled before is counted and its sender not
found, which `early` remembers. A handler is one step between any two steps of
the parent, except that `wait` and the marking of the child it returned are two.
`HandleInterrupt` includes what `int_handler` does with an entry of `children[]`
that is not set yet: the value on the stack is nobody's pid or, as 0, the group.

**CountedSignals.** `toParent` and `toChild` are the pending signals: one of a
standard signal, any number of a real-time one. `Blocked` is the mask that mode 2
has between `sigprocmask` and `sigsuspend`; the test of `usr1_received` and the
call are two steps. The child installs its handlers one by one, and a signal
that comes before its handler kills it. SIGUSR2 may interrupt the handler of
another signal after it counted and before it answered.

**Pipelines.** A pipe is its content and the sets of processes that hold its
ends, 0 being the shell. Every child inherits what the shell holds, which is why
the shell's `close(fd[1])` and the unclosed `fd[0]` matter for all later children.
`vfork` holds the shell until the child has executed its program, so fork, `dup2`
and `exec` of the child are one step. With `source = "stdin"` the shell reads its
lines from descriptor 0, which a pipeline replaces (`ReadLeftover`); with "buffered"
its lines are in the buffer of the stream already, as those of a redirected file are,
and are run before it reads from the descriptor again.

**Fifo.** `master` and `slave[s]` are where the processes are; the content of the
FIFO includes what the master's stream has read ahead. Opening waits for the
other side, the end is no data and no writer, and between the end the master
found and its exit ("closing") a slave can still open the FIFO (`late`).

**ImageFilter.** The local variables of `thread_run` per thread. Each pixel, the
`sem_trywait`, the read and the write of `pixels_processed` and the `sem_post` are
steps of their own. A pixel is how often it was written.

**Records, Challoc, Batch** are sequential. Files have a cursor in rows and
records remember where they came from; blocks are the sums of their characters
(NULL is -1, as in `chblk_sum`) and the heap counts what is allocated; the line
buffer keeps every character class that `interpret_line` tells apart, and its old
content. Accesses past the table end in the state "undefined".

## Runs

A run answers one question about one program, except `programs`, `msg_builds`,
`barber_builds` and `calc_builds`, each of which is a sum: a variable (`program`,
`build`, `setup`) that never changes says which program or build runs in a
behaviour. In the first two the state of each part is in variables of its own, and
those of the others stay as in the initial state. The behaviours are those of the
parts, the states add up instead of multiplying, and a property of a part is
checked in exactly the behaviours of that part. Fairness is that of the part that
runs. For a sum TLC names only its next-state relation as an action; that each
action of each part is taken shows in the counts per line of `tlc -coverage 1`.

| Run | Instance | What it shows |
|---|---|---|
| `barber_two_batches` | 4 clients, 2 seats, 2 haircuts each, one signal | the chair protocol is safe however processes interleave and die; it implements `HaircutService`; the inductive invariant holds |
| `barber_builds` | POSIX: 3 clients, 3 seats, 2 haircuts each. System V: 3 clients, 2 seats, one signal | POSIX: nobody is turned away, the client that follows a call is the one the barber read, everybody is served. System V: until the third client comes exactly the sets in use exist and nobody gives up (`SysVSetsInUse`); when the barber has ended, every client is released but those in the waiting room (`SysVClientsEndWithBarber`) |
| `barber_lost_call` (violation) | 2 clients, 1 seat | an invitation is lost when a seat is reused, and the shop stands still |
| `monitor_channel` | 2+2 threads, 2 cells, file of three lines (one empty), cancellation, logging, a spurious wakeup, failing opens | FIFO and exactly-once delivery; no wakeup lost (`NoWakeupLost`) |
| `monitor_to_the_end` | 2+2 threads, 2 cells, logging, cancellation anywhere, a spurious wakeup | the program ends and has printed every selected line that is not left in the buffer; lines are left only if a consumer was `dismissed` (`LinesLeftOnlyByDismissal`) |
| `sem_channel` | as `monitor_channel` | FIFO, token accounting (`TokensAccounted`), no line lost in a consumer's hands |
| `msg_builds` | POSIX: 2 clients, 2 slots, queues of 2, SIGINT at the prompt and while waiting. System V: 2 clients, 1 slot (the limit) or 2 (the client with id 0 is not answered, the one with id 1 has a session), queues of 2, SIGINT anywhere | POSIX: slots have one owner and are not leaked (`SlotsOwned`), answers are right (`AnswersMatch`), handshakes and queued requests are answered (`EverythingAnswered`), and the server stops when a client understood `end`, and only then (`EndStopsServer`); `end` with its newline is not understood. System V: an interrupted client never hangs in its cleanup |
| `calc_streams` | streams, 2 slots: 3 clients on one socket, two of one name, the first may leave; 2 clients on two sockets, of one name or not, one may leave; or 2 clients and 2 requests | until a late UNREGISTER closes another's descriptor, active slots have open, polled descriptors of their own clients (`ActiveSlotsOpen`); nobody is passed over for a turn |
| `calc_builds` | datagrams: 2 clients that may die, one behind a lossy network, 1 slot. Streams: 1 client that may die, SIGINT at any moment; 2 clients on 1 slot, the first may leave | datagrams: dead clients are dropped, requests are settled. Streams: every client ends when the server does, but for those whose last message was left unread or that were never accepted (`ClientsEndWithServer`) |
| `calc_same_name` (violation) | streams, 2 clients of one name | both can be registered |
| `programs` | see below | the properties of the eight small programs |
| `challoc_nearest` (violation) | 3 blocks, sums 0 to 2, 4 operations | a search does not find the nearest block; that it answers `blk_no` itself although there are other blocks is excluded too |

In `programs`:

| Part | Properties | Instance | What they say |
|---|---|---|---|
| `Permissions` | `PermissionsKept`, `EndsUnlessLost` | 3 children, every threshold, SIGINT at any moment | permissions go to children that wait for them, once; from the threshold on no request is held back; a request is lost only by merging or by coming before the pid is stored, and without a loss the program ends; no child is left |
| `CountedSignals` | `CountsAgree`, `SignallingEnds` | up to 3 signals, all modes | mode 2 is exact and ends, mode 3 loses nothing, no counter runs ahead, the child ends too |
| `Pipelines` | `PipesHeld`, `PipelinesEnd` | 2 lines of up to 3 programs, pipes of one line, failing `pipe` and `vfork` | a program waits only for the one before it; nothing remains of earlier lines or after the shell; lines end unless a full pipe is left |
| `Fifo` | `LinesKept`, `MasterAndSlavesEnd` | 2 slaves, up to 2 lines each, 2 lines in the FIFO, an old FIFO | lines keep their order and are printed unless the slave came late; everybody ends |
| `ImageFilter` | `ImageComplete` | up to 3 threads, 5 x 4 pixels, empty images, filters of 1, 3 and 4 | every pixel once, exact progress, reads inside the image |
| `Records` | `RecordsKept` | all files of up to 3 records over 3 bytes and 4 over 2, every `record_count` | the sort is a stable sort and has every record at each step; copies |
| `Challoc` | `TableConsistent` | up to 3 blocks with sums of -1, 0 and 2, 4 operations, failing allocations | heap and table agree; only `search_element` is unchecked; answers exist |
| `Batch` | `RunAsWritten` | all pairs of lines of up to 4 characters out of three kinds | lines run with their own words; nothing runs after a failure |

Most of these are conjunctions of named parts in the module of the program.

**Bounds.** Two clients or threads of a kind are needed for a race between
equals, one more than seats or slots for reuse and for the limit; the barber's
second batch needs four clients on two seats. For the System V
build three clients on two seats are enough: the first two are a batch of its own
until the third takes a seat again. Buffers and queues of one or two
cells are full and empty within a few steps and their indices wrap around;
more cells add no kind of state. `Haircuts = 2` lets a client come back to state
left over from its first visit. In the passing runs of `CalcServer`
`INACTIVITY_MAX` is 0, so that a client is timed out after one unanswered ping: with a larger
value each handled pong admits more pings than it answers, and the backlog of a
slow client grows without bound. `calc_same_name` uses 1; the code's value is 3.
`SocketBuffer` bounds the messages in a socket far below what the kernel takes;
a send waits beyond it. `MaxDescriptors` is 2: the number of a client that
leaves is given to another while a second one is in use, and with three clients the
third is accepted only then. In `calc_streams` a late UNREGISTER does close such a
number. `MaxRequests`, `MaxLines`, `MaxKills` and `MaxSpurious`
bound the operator's requests, the lines a user types, signals and spurious
wakeups. Of the small programs, three children are the least for a threshold
between one and all; two signals merge and a third shows that counting goes on;
two lines show what the first leaves to the second, and pipelines of three have a
program with a pipe on either side; 20 pixels are the least with which two
threads report twice. Symmetry is used only for clients or threads that start alike and only
in runs without liveness properties.

**Deadlock** is not checked (`CHECK_DEADLOCK FALSE`) because all programs end or
come to wait for a user; that they do not stand still by mistake is what the
liveness properties say.

**Fairness.** Each process and thread is weakly fair: the kernel runs what can
run. Semaphores are weakly fair too, which is enough for the properties stated.
Signals, crashes, losses, spurious wakeups and the operator's requests are not
fair. A message client's user is assumed to type or to end the input.
In the small programs every process is weakly fair, pending signals are delivered
and `wait` returns a zombie; nobody has to start a slave or to press a key.
In `CalcServer` the accept threads and the listener, which need `clients_mx`, are
strongly fair: between two rounds the pinger sleeps for seconds with the mutex free,
so a thread that asks for it again and again gets it. The clients, the
pinger, the operator's thread and the shutdown are weakly fair.

## Findings

`barber_lost_call`, `calc_same_name` and `challoc_nearest` are in `PROJECT.json`
with the lines they contradict. The same modules show further disagreements between code and text.
They are not runs of their own; each can be seen by changing constants:

- `MonitorPC` with `TimeLimit` and `Verbose` (as `cw09/zad1/config1`) violates
  `Termination`: a producer cancelled in `log_producer` (main-monitor.c:63)
  keeps the mutex, and the consumers are never joined.
- `MonitorPC` without a time limit can lose the last lines: `run` cancels the
  consumers when the producers have ended (runner.c:65), and one of them may have been
  woken for a line without having come back from `pthread_cond_wait`, or have not
  begun. `LinesLeftOnlyByDismissal` says that there is no other way.
- `SemPC` without a time limit leaves a line in the buffer already with one thread
  of each kind: a consumer that saw the buffer empty is cancelled in the wait for
  the token the last push posted (main-sem.c:95-101).
- `MsgServer` with `POSIXQ = FALSE` violates `HandshakeAnswered`: the first
  client has id 0, the id is the message type of the answer, and `msgsnd` refuses
  type 0 (server.c:197).
- The help of cw06 says "end -- stop the server" (client.c:175), but in a line of
  this word alone the newline stays attached to it (client.c:216-222), and the
  command is unknown. `end` stops the server with a space after it, or at the end of
  the input: that is what `EndStopsServer` says of it.
- `MsgServer` with `"shake"` in `InterruptAt` violates `SlotIsTheClients`: a STOP
  sent before the id was received carries id 0 (client.c:39), which may be
  somebody else's.
- `CalcServer` over streams: the listener unregisters the `client_id` it looked up
  without the mutex (server_listen.c:65). When the pinger has dropped the slot in
  between, `unregister_client` closes the number of its socket a second time
  (server_cllist.c:135-137), and that may be the connection of another client by then:
  the other slot stays active with a closed descriptor, and a later
  `add_to_poll` of such a number fails and ends the server (server.c:42). `misclosed`
  records it, and `ActiveSlotsOpen` without it does not hold.
- `CalcServer`: a client whose connection is reset when the server ends does not
  end. errno is ECONNRESET and not 0, so that `receive_request` tries again
  (client.c:148-156). `ClientsEndWithServer` says which clients that can be.
- `SilentClientsDropped` of `CalcServer` is stated for datagrams. Over streams it
  does not hold: a ping to a client that has gone raises SIGPIPE
  (connection.c:68-72) and ends the server.
- config.h:10-11 of cw10 says "after sending 3 pings and not receiving a single
  pong, the client is disconnected"; `TimedOut` compares with `>`
  (server_pinger.c:22), so a fourth ping is sent, and a pong handled between
  `ReadInactivity` and `Ping` is lost.
- server.c:101 says of `clients_mx` "no one is using it"; `ThreadEnds("pinger")`
  can happen in a round, and the mutex is then destroyed while locked.
- barber.c:133 says "so the chair is already taken"; the client posts
  `sem_barber_sleeping` (client.c:57) before it writes `barber_chair` (client.c:61).
- `BarberSysV` with more clients than seats: `delete_seat(my_seat)` (client.c:85)
  removes the set of the client that has taken the seat in the meantime. That
  client exits with "Cannot wait" (`SeatRemoved`), and the barber, when it comes to
  the seat, fails to post and ends (`InviteFails`). The call of `barber_lost_call` can be
  lost in this build too: a client that is slow to wait reads the id of the new set.
- `BarberSysV`: sets of clients that are killed, and of clients that fail after
  the barber's exit, are never removed.

Behaviour of the small programs that a reader of the code may not expect, each
visible in its module:

- cw05/zad1: main.c:12 says "If no file is specified, commands are read from
  stdin"; after a pipeline descriptor 0 is the pipe before the last program
  (command_runner.c:36), so the shell reads what that program left there and then
  the end of file (`ReadLeftover`, `EndOfInput`).
- cw05/zad1: the shell never closes `fd[0]`, so a program that writes more than a
  pipe holds to one that does not read it is not ended by SIGPIPE while the shell
  lives, and the shell waits for it for ever. `Drained` in `LinesEnd` excludes that case.
- cw03, cw05: `WEXITSTATUS` of a command killed by a signal is 0, so the script goes
  on after a command that hit its limit of time (interpreter.c:115).
- cw03, cw05: a last line without newline can get words that an earlier line left
  in the buffer (interpreter.c:60-69).
- cw02/zad1: a copy over a longer file keeps the rest of it with `sys` and not with
  `lib`: `open` lacks O_TRUNC (file_desc.c:36).
- cw02/zad1: a sort that is killed between the shifts and the insertion has lost
  the record in hand and has another one twice (`NothingLost`).
- cw01: `chfree` does not free the array of a table of no blocks (challoc.c:22),
  `dropped` in `HeapIsTheTable`; `search_element` does not check its argument.
- cw04/zad2: `int_handler` may signal a pid that was never stored, or one that
  `wait` has returned already and that may be another process by then.
- cw04/zad3: a SIGINT between a `kill` and its `++sent` prints one signal too few.

## Proofs

A theorem holds for any number of processes, seats, cells, lines, haircuts and
signals, under the named assumptions of its module: sizes are positive naturals,
processes of different kinds are different, `File` is a sequence of naturals, and
the threads of cw09 are finitely many (`CountAssumption`). What a theorem assumes
beyond that is its hypothesis and is named below. Every safety invariant and action
property of a passing run is stated by a theorem. Each inductive invariant was checked by TLC on the instance of
its run first. Where a run checks it, or several modules share it, it is defined with
the model; where only a proof needs it (`IInv` of `CalcServer`, `MsgServer` and
`Permissions`, `EndInv`, `PrintedInv`, `SetInv`, `BatchInv`), at the head of the proof module.

**BarberShopProofs.** `Invariance`: `Spec => []Inv`. `OneClientServed` is not
inductive: whether a second client may go to the chair depends on
`barber_sleeping`, on the invitation under way and on who owns the token in
`sem_customer_ready`, which means "seated" once and "gone" the next time. `Inv` has
two halves. `ChairInv`: the waiting-room mutex is 0 exactly while somebody is
inside (`RoomMutex`); what the flag says while the barber sleeps (`FlagStable`,
`ChairIdle`); what each label of the barber says about the clients
(`BarberPhase`) and the reverse (`ClientPhase`); at most one invitation is pending
(`OneInvitation`); and whose token is in which semaphore (`TokenOwner`). `QueueInv`:
the ring holds exactly the clients that wait (`RingFilled`), but for the one the
barber has popped (`PoppedOne`). Killed processes keep their labels, so signals
preserve all of it. From it: `TypeCorrect`, `ServesOneClient`, `SleepingMeansFree`,
`NeverSleepsOverWaiting`, the refinement `ImplementsService`, and the action property
`CalledComes`, also with more clients than seats. With no more clients than seats
(`EnoughSeats`) `SeatsForAll` counts the clients against the seats, and
`NoInvitationLost` says that the invitation lost in `barber_lost_call` needs a
second batch. `PosixSeatsForAll` and `PosixCalledComes` carry two of them over to the
specification that `barber_builds` checks.

`SysVSetsKept` states `SysVSetsInUse` for a System V shop of any size (`SysVSeats`,
`SysVHaircuts`, `SysVKills`: the two builds of `MCBarberBuilds` have their own). The
invariant of the POSIX build does not carry over: the invitations are in the sets of
the seats, a client has the labels "seated" and "left" as well, and after the
barber's exit waits fail and clients go on. `SetInv` has two halves again.
`SetChairInv` is the chair protocol, always; after the barber's exit only the part of
it that still holds. `SetQueueInv` holds while the barber lives and no more clients
have come than there are seats (`Roomy`): every client between `new_seat` and
`delete_seat` is in the ring with its own set there, or is the one whose seat the
barber has popped (`OneOut`); the kernel's sets are those of these clients and of the
one in the chair (`SeatSets`); and the ring cannot come round to a popped seat before
its client has deleted its set, because that takes one client more than there are
seats. `Come` never shrinks, so that a state with seats for all has only such states
before it.

**ProdConsProofs, MonitorProofs, SemProofs.** `ChannelInv` is the inductive
invariant of both programs: types, the mutex is with whoever is between lock and
unlock, `pos` is one line ahead of `sent` exactly while a producer tries to push
(`ReadAhead`), a consumer past `buffer_pop` holds a line (`LineHeld`), and the
cells of the ring from `buffer_start` on are the lines pushed and not yet popped
(`RingFIFO`). The lemmas on the ring (different offsets are different cells; push
and pop preserve `RingFIFO` and are a `Put` and a `Take` of the channel) are
proved once and cited by both. For each program: `ChannelInvariance`, `TypeCorrect`,
`MutualExclusion`, `ImplementsChannel`, and `NothingTakenIsLost` by `PrintedInv`: a
line that was taken is printed, not selected, or with a consumer that is not
cancelled while it holds it. `WakeupsReachSomebody`: `NoWakeupLost` is inductive
together with `ChannelInv`, because it counts: a signal makes one waiter awake, a
thread that goes to wait leaves the set of those awake with the buffer full (or
empty), and cancelling a signalled waiter leaves somebody else to be counted.
`TokensInStep` counts tokens and the threads that are about to look at the buffer
in the same way. `EverythingPrinted` states `LinesLeftOnlyByDismissal` under the hypothesis `ToTheEnd`:
no time limit, files that open, and at least one consumer. Logging, cancellation of
woken waiters and spurious wakeups are in it. `EndInv` is its invariant: consumers are
cancelled only after the producers have ended (`CancelsLate`), a producer that has
ended has pushed its whole file (`ReadToTheEnd`), the log has every line up to `sent`,
once (`LogComplete`), and a line in the buffer has a consumer that will look again or
a producer about to signal, unless a consumer was dismissed (`LinesAttended`).

**PermissionsProofs.** `PermissionsAlwaysKept`, for any number of children and any
threshold. `IInv` adds to it what does not exist before `fork` (`NotYetForked`), that
the parent's records are true (`RecordsTrue`) and that a pending SIGUSR1 is of a
child that waits (`PendingAwaited`). `RequestsAccounted` is a count of sets of
children; a merged signal moves its sender from one to another.

**MsgServerProofs.** `SlotsAlwaysOwned` and `AnswersAlwaysMatch` under
`WholeSessions`: the POSIX build, SIGINT at the prompt or while waiting for an
answer. In the System V build, or when a handshake is interrupted, the properties
do not hold (see Findings), so the hypothesis is that of the run. `IInv`: each message
in the server's queue fits what its sender is doing (`MessageFits`), two messages of
one client are a request and the STOP after it (`MessagesInOrder`), the response in
hand is for the owner of its slot (`ResponseFits`), and slots in use are apart
(`SlotsApart`). `Text` and the replies are compared, not computed, so nothing is
assumed of `mirror_text`.

**CalcServerProofs.** `Invariance`, `SlotsAlwaysOpen` and `NobodyEverPassedOver`, for
both builds, any clients, names, length of the list and number of descriptors, with
crashes, losses and the shutdown. No part of `IInv` takes for granted that a number
stands for one client. A client is in one slot at most, because it sends one REGISTER
(`RegisterFirst`), and the thread that received it is the only one that registers it
(`Enrolled`, `ThreadsInv`, `SlotsInv`). `OwnInv` is about the numbers: until one is
misclosed, an active slot has the number of its own client's connection, a number
that is polled belongs to an active slot, and a thread that registers a client has
that client's. So two active slots never share a number, the close in
`unregister_client` of an active slot takes nobody else's, and `accept`, which
gives a free one, takes none from a slot; that `LowestOf` finds the lowest is
from the well-foundedness of the naturals. `NobodyPassedOver` becomes inductive as
`TurnsCome`: how often slot i was passed over and how many slots come before it stay
together below `CLIENTS_MAX`.

**ProgramsProofs** extends `Programs` and proves the property of each instance from the
specification of its module (`CS!Spec => []CountsAgree`, and so on). What a theorem
needs of the constants is its hypothesis, and only says of which type they are.

| Theorem | Inductive invariant |
|---|---|
| `LinesAlwaysKept` | `LinesKept` and who may have the FIFO open for writing when (`WritersKnown`) |
| `CountsAlwaysAgree` | where the signals are that were sent and not counted: one under way in mode 2 (`OneUnderWay`), in queues in mode 3 (`NoneLost`), and in no mode more than were sent (`NoneAppears`) |
| `PipesAlwaysHeld` | who holds the write end of a pipe that is somebody's input, and of the one in hand (`WritersFit`); the shell keeps every read end (`ShellReads`), so nobody gets SIGPIPE while it lives |
| `RecordsAlwaysKept` | `RowsInv`, `HandInv`: rows up to the one in hand are in order, by byte and then by first position, but for the row that waits for the record in hand; `CopyInv` |
| `TableAlwaysConsistent` | which states come before the mode is read (`Started`). The scan of `chfind` is a recursive function over the blocks; that its result is a block needs no induction, because a least number of steps exists at which it could have gone wrong |
| `ScriptRunAsWritten` | `BatchInv`: from `pos` on the buffer is what `fgets` put there (`Unread`), the words found so far end before `pos` (`ArgsEnded`), and they and the words of the rest of the line are the words of the line (`SplitSoFar`) |
| `ImageAlwaysComplete` | thread t stays at pixels of remainder t (`SharesInv`), a pixel is written once and only when its thread has passed it (`ImageInv`), one thread at a time reports (`SemInv`). Progress is exact because the pixels filtered and not reported are a set of pairs of a thread and a number, whose size is counted against that of the pixels written |

`ScriptRunAsWritten` compares what the buffer holds with `Words`, a recursive function
of the line. That `Words` is defined for every line, and that blanks do not change
the words of what follows, is shown without an induction theorem: if it failed for
some position, it would fail for a least number of characters from the end
(`LeastNatural`), and one equation of the recursion refutes that. Its hypotheses are a
`BUFFER_SIZE` of at least 2 and lines that fit into the buffer with their newline. The
part that looks least certain in the code, the scan for blanks that goes on behind
the end of the string (interpreter.c:60-69), is covered: with a newline the scan
stops at the 0 that `fgets` put behind it; without one it may run on, and then only
words of earlier lines are added behind the line's own.

**Only model-checked.**

- All liveness: fairness and ENABLED are beyond the proof system.
- That the recursive functions of `Challoc` find the right block is the violated
  `challoc_nearest`; there is nothing to prove.

## Not modelled

- cw07: logging and `BS_SLEEP`, failing `semget`, `ftok` and `shm_open`.
- cw09: parsing of the configuration, SIGINT (exit destroys conditions that
  threads wait on), failing `pthread_create`.
- cw06: SIGKILL, a second SIGINT during cleanup, what `bc` and `date` print.
- cw10: messages cut off in the middle, cancellation in a `printf` of the
  registering threads, parsing and arithmetic of requests. When `add_to_poll`
  fails the server ends at once, without the goodbyes of its exit handler.
- cw04/zad2: a SIGINT that the terminal sends to the whole group, failing
  `sigaction`. cw04/zad3: a second SIGINT.
- cw05/zad1: words and quotation marks of a line (they are in `Batch`), programs
  other than the six kinds of `Process`. `exit` in a `vfork` child, which also flushes the
  shell's streams, is taken as the exit of the child alone.
- cw05/zad2: a slave whose `popen` fails, masters after the first.
- cw08: values of pixels, the formats of images and filters, the generator of
  filters; failing `malloc` and `pthread_create`.
- cw02/zad1: short and failing reads and writes, sorting more records than there
  are, a copy of a file onto itself. With `lib` the sort writes after a read without
  a seek between, which C leaves undefined and the C library in use allows.
- cw01: loading the library at run time, times. cw03: lines longer than the
  buffer or of more words than `ARGS_MAX` (256, which `interpret_line` does not
  check), the printed times, the testers.
- cw04/zad1: `main` installs its handler with a `struct sigaction` whose `sa_flags`
  and `sa_mask` are never set; what the program does depends on the stack.
- cw02/zad2, cw03/zad1: a walk of a directory tree that prints as it goes. The
  processes of cw03 share nothing; there is no state to relate.

## Plan

What the plan has left: for `MsgServer`, an abstract specification of sessions
(connect, ask, answer, leave) and a refinement, by `IInv`.

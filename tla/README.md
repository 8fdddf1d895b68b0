# Verification of the CN network programs

The repository is a collection of independent network programs in C. It has no
tests; what a program is meant to do is in its prompts, its comments and a few
`README.md` files under `select_servers/`. This project models the programs with
concurrency, failure and protocol logic of their own, checks them with TLC and
proves the central results with TLAPS.

## 1. Inventory

| part | state | operations | interaction | what makes it correct | hard behaviour |
|---|---|---|---|---|---|
| `unixsockets/csemulti` | per class server: `clients_no`, `threads[]`, loop variable `fd`; counter: loop, pid in shared memory | accept, read class, pass descriptor, spawn thread, pass on when full, signal and exit | SCM_RIGHTS over five stream sockets, SIGUSR1, shared memory | each client is served once, by the cheapest class with room; shutdown reaches everyone and only when tickets are sold | threads read a variable the loop overwrites; EOF read as descriptor 0; SIGPIPE; signal at any point; start-up order |
| `unixsockets/bs` | `cfd[]`, `clients_no`, `pid`; backup: `csfd[]`, `nfd` | accept and record; handover on SIGUSR1; receive, serve | SIGUSR1 and descriptor passing, pid in shared memory | no recorded client loses its connection; the backup serves them all | signal overtakes start-up; exit against delivery; array overrun |
| `c137261@nitwstudios` | director: connections that gave permission; registries: questions left; sets and actors: `available_count` | type a job, ask registry, ask permission, pass descriptors, pay | TCP and UNIX sockets, descriptor passing | everyone who gave permission is paid; script and director agree on the counts | director exits half way, counters never reset, order of two counts |
| `rawsockets/trainmain`, `exam/4` | availability of platforms, `newfd` | train arrives, station master announces it and passes it on, platform serves | TCP and UNIX sockets, descriptor passing, raw messages | a train gets one free platform, and comes to it | announcements to the wrong platform, stale descriptor, platforms not running |
| `select_servers/chatserver`, older chat servers | FIFOs of the clients, read set | type, broadcast, leave | `select` over two FIFOs for each client | a message reaches everyone else, once, in one order | a full FIFO stops the broadcast; departures; the end of a FIFO |
| `select_servers/serviceserver` | `status[]`, flag `gotserver` | request, allocate, leave | two FIFOs shared by all clients | a server serves one client at a time | flag without a lock, answers taken by others, precedence in a condition |
| `select_servers/multiserver`, `logserver`, `allinoneserver` | counter in shared memory, FIFO numbers | take a number, connect, forward | FIFOs, shared memory | numbers are unique | decrement without a lock |
| `rpc/nfs`, `rpc/arraysum`, `rpc/square`, `end/rpc` | files, current directory, static results | read, write, list, remove, create, change directory | RPC over UDP | a call takes effect once and its answer belongs to it | retransmission, shared directory, accumulated static result |
| `mid/mss`, `mid/tss`, `unixsockets/tss`, `mid/multithreaded`, `mid/prethreaded` | tables of services, variable `nfd` or `fd` shared with threads | register, start, choose, pass on, serve | sockets, `fork` and `execve`, descriptor passing | a request reaches the chosen service and is answered | threads read a variable late; blocking `accept`; failed `execve`; `SIGPIPE` |
| `mid/inetd`, `mid/superserver`, `end/dupserver`, `end/selectserver` | read set, descriptors, children | select, accept, fork, execute, wait | sockets, `fork` and `execve` | a client gets a server of its own | failed `execve`, interrupted `select`, descriptors and zombies that add up |
| `ftp` | control and data connection | send name and port, connect, transfer | two TCP connections | the file arrives whole | port announced before anybody listens |
| `errcorrection` | none | CRC, Hamming, parity | none | a single error is found or corrected | condition with `=` |
| `mid/heap.c` | array heap | insert, extract | none | extraction in order | sentinel, index limits |
| other servers, raw packets, exercises | none of their own | | | | |

`PROJECT.json` lists every part with its files, also those that are not modelled,
and the hazards at their lines.

## 2. Plan

Done, in this order:

1. `CseMulti` with the abstract `TicketOffice`, `CseStartup`, and the proofs
   `CseMultiProofs`.
2. `BackupServer`, `Studios`, `TrainStation`.
3. `Rpc` with `NfsServer` and `RpcSums` against the abstract `AtLeastOnce`.
4. `ChatServer`, `MultiServer`, `ServiceServer`, `LogServer`.
5. `Workers` with `Mss`, `Tss` and `ThreadServers`; `PassServer`.
6. `FifoStation`, `Ftp`.
7. `Crc`, `Hamming`, and `Heap` against the abstract `PriorityQueue`.
8. `ChatRelay`, `ForkServers`.

9. Proofs of the safety properties: `TrainStationProofs`, `BackupServerProofs`,
   `StudiosProofs`, `RpcProofs`, `CseStartupProofs`, `SelectProofs` and
   `MultiplexProofs`.

Left, the most useful first:

1. Proofs of what is only model-checked so far: the chat's order (`ChatBroadcast`) and the
   codes (`CrcCorrect`, `HammingCorrect`, `HeapSorts`).
2. The older versions of the log and multi servers as variants of the modules of
   `select_servers`, and `end/conserver` beside `Workers`.

## 3. Modules

### CseMulti: counter and class servers in service

Five programs: `client.c`, the counter `tc.c` and the class servers `c.c`, `s.c`,
`e.c`. A step of the model is one blocking call, or the work between two points
at which another process, a thread or the signal can be noticed.

* Descriptors. A client connection is named by its client. Passing it on
  (`send_file_descriptor`) copies the reference into the socket buffer `chan[l]`;
  the sender keeps its own, since no program closes one. A connection stands while
  the backlog, some buffer or some descriptor table (`open`) refers to it.
* `recv_file_descriptor` returns 0 at the end of file and the callers take it for a
  descriptor: `Junk`. A class server whose sender has ended receives `Junk` for ever,
  gives it threads and, when full, passes it on.
* A thread is given the address of the loop's `fd` and reads it later
  (`ThreadLoad`). `s.c` and `e.c` declare `fd` in two blocks: unoptimised builds
  give them two stack slots, optimised ones a single slot; `SharedSlot` covers both.
* `SIGPIPE` ends a class server whose thread sends to a client that has ended, and
  a sender whose receiver has ended. The contents of `threads[t]` stay as a record.
* `TcRecv` does not look at what `recv` returns: for a client that ends without
  sending, the number in `buffer` is an earlier client's or, the first time,
  arbitrary.
* `e` signals the counter and exits in two steps; the signal interrupts the
  counter at any point of its loop.

What the threads and clients say to each other afterwards carries no state and is
left out, except that a client ends when nobody holds its connection.

### TicketOffice: what they promise

Tickets of three classes in limited supply. A client owns at most one ticket, of
the cheapest class from its own upwards that is not sold out. Tickets for nobody
appear only after a client has left or the office is closing, and it closes when
the last class is sold out or after somebody left. `CseMulti` implements it under
the mapping `Office`.

### CseStartup: how the four servers come up

The code of the four mains before their loops, each as a script of listen, connect,
greet, accept, recv and the two accesses to shared memory, with failing connects
(the program exits) and restarts by the user. A counter's connections succeed
through the backlog before the servers accept them, so the counter can be in its
loop while the others are not: in `CseMulti` this is a class server that has not
taken its first step. `CseMulti` starts from the state in which `LinksStand` and
`FreshPid` hold.

### BackupServer: server and hot standby

`server.c`, `backserver.c` and `client.c` of `unixsockets/bs` with their start-up.
The pid segment may be missing or left by an earlier backup. The two handlers
interrupt their mains at every point; a signal that finds the backup before
`accept` makes `recvmsg` fail on descriptor 0, one that finds it before the
greeting is read takes a byte of the greeting and no descriptor. The main's
30-byte `recv` then also swallows the byte, and with it the descriptor, of the first
connection if that is there. `PastThreads` says what the linker puts behind
`threads[]`: `pid` when built with common symbols, padding otherwise. The client that
fills the table then replaces the pid, and the server has no backup to signal.

### Studios: script, director, registries, sets, actors and producer

The programs of `c137261@nitwstudios`. The two registries (`studio.c`, `actor.c`)
differ in their ports only, and so do `set.c` and `act.c`: both are indexed by a kind.
A job is what the user of `script.c` types; `ListOf` is what the director reads of it,
with the two lists exchanged as in the code. A connection to a set or actor is named by
its place in the order of accept. The director exits when a connect fails
(`DirectorDies`): threads that wait on connections nobody else holds read their end,
and the registry it leaves in the middle of its loop answers into a closed connection
until its count is used up or `SIGPIPE` ends it (`RegistryOrphan`). The race on
`&nfd` in `set.c` and `act.c` needs two connections at a time, and the director waits
for each permission before it makes the next one, so it is not in the model. The
script, the registries, the running sets and actors and the producer are started
first. Numbers are not repeated in a list. The director does not compare its counts with
the sizes of its arrays of five: `ArraysAssumption` limits the sets and actors that run,
each of which gives `Permits` permissions at most, to what the arrays hold, and `TypeOK`
says that they then never overflow.

### TrainStation: station master, platforms, trains

`sm.c`, `plat.c` and `t.c` of `rawsockets/trainmain`; the station master runs from the
start, platforms are started at any time or never. A connection from the master to
a platform is named by the train it was made for; trains are numbered in the order in
which they connect. `newfd` keeps its value from one
train to the next, and is `Bad` when the socket assigned to it was not connected.
Platforms are numbered from 1 as their sockets are. At most three trains are ever
announced, since `plat_available` is never set again, so the state is finite for any
number of trains.

### Rpc, NfsServer, RpcSums: remote procedures over UDP

`Rpc` is what rpcgen makes of every program: the stub (`nfs_clnt.c`), the server's
registration and loop (`nfs_svc.c`) and the main program of a client. `clnt_call` and
`svc_run` are the library's and marked external: a request is sent again until the
answer with its transaction id comes or `TIMEOUT` is over; the network delays, loses and
reorders; the server executes whatever arrives and remembers nothing. A server can end
by a fault of its own and be started again, and a client that still has the port of the
old one is refused. `Rpc` takes the procedures as the parameter `Serve`:

* `NfsServer`: the nine procedures of `nfs_server.c` on a tree of files with
  permissions, and the lines `nfs_client.c` accepts. The current directory, the table of
  descriptors and the static buffer of `nfs_read_1_svc` belong to the process and so to
  all clients. `ls` and `touch` do not close what they open. The client passes a name on
  as it was typed, so a name is any sequence of parts, `.` and `..` among them, followed
  from `/` or from the current directory; how the kernel follows it (`Enter`, `Trail`) is
  marked external. Any directory that is empty can be removed, the current one too: by
  `../e`, by its path from `/`, or by another client. It then goes on existing without a
  name (`gone`), has no entries, and leads back into the tree by `..`. The root of the tree
  is `/`, where the server is started, and all nodes belong to the user who started it.
* `RpcSums`: `arraysum` (a static sum that is never reset), `add` and `square`.

`AtLeastOnce` is what such a service promises: a call runs any number of times, also
after its caller has given up, and returns a result of one of its own executions.

### Ftp: active and passive transfer

A client with a server. The side that will listen announces its port on the control
connection first and listens afterwards; the other side connects once and goes on
whether or not that worked. `fscanf` and `feof` are modelled by what they do at the end
of the file: after a last newline the last word is sent again. The client does not look at
what `recv` returns: when nothing can come any more (`NothingComes`: the server has ended,
or the data connection was never made), it prints its buffer again for ever
(`ClientRepeats`, which `MaxPrinted` bounds).

### FifoStation: the station of exam/4

Station master, platforms and trains over FIFOs that outlive the programs. Opening a
FIFO for writing waits for a reader; a FIFO is emptied when its last descriptor is
closed; `SIGPIPE` ends the writer of one that nobody reads. `poll` of a platform looks
at its two FIFOs one after the other, and the model lets announcements and trains arrive
in between.

### ChatServer, MultiServer, ServiceServer, LogServer: select_servers

* `ChatServer`: the server reads one line from each client that `select` names and
  writes it to all the others in turn. A FIFO holds `Cap` messages; the write to a full
  one waits. Everybody opens FIFOs for reading and writing, so none is ever at its end.
* `MultiServer`: the number in shared memory is decremented by a load and a store;
  `overlap` records that two clients did so at the same time. The two threads of a
  client share `fd` and `gotserver`.
* `ServiceServer`: the request is the flag `gotserver`; one `read` takes several
  requests and looks at the first; `j=atoi(buf)!=0` makes `j` one. All clients read the
  same FIFO of answers.
* `LogServer`: the log server makes `Fifos` FIFOs and selects on `argc-1` of them, that
  is one.

### ChatRelay: the older chat servers

`chatserver` waits with `poll`, `selectservers/chatserver` with `select`; the variable
`select` says which it is. What clients typed since the last read is one line. For each
of the others the server opens the FIFO, which waits when the client has left and fails,
ending the server, when it never came; writes, which ends the server if the client left
in between; and clears the buffer, so that only the first of the others gets the line.
`select` takes the FIFO of a client that left for readable for ever, `poll` does not.

### ForkServers: a process for each client

The four servers that accept, fork and execute `server1` on the connection; a table in
the module says in what they differ. `present` says whether `server1` can be executed:
when it cannot, the child goes on in the server's loop, with its listening sockets open
(a second server) or closed (`select` and `accept` fail at once and it forks again, until
there are no processes left). The limits of descriptors and processes are part of the
model: `fork` and `accept` fail, nobody looks, and a program that starts with its
descriptor table full ends in the loader. The `len` that `mid/inetd` and
`mid/superserver` leave uninitialised is either harmless or makes `accept` lose the
client (`badlen`). A signal to `end/selectserver` leaves every port in the set.

### Workers, Mss, Tss, ThreadServers, PassServer: a thread for each client

`Workers` is what the services of `mid/mss`, `mid/tss` and the servers of
`mid/multithreaded` and `mid/prethreaded` have in common: `accept` into one variable, a
thread that is given its address, `SIGPIPE`. Only the services of `mid/tss` count their
threads (`Refusing`) and close a connection beyond the limit. Those of `mid/mss` and
`mid/multithreaded` start a thread for every connection and write `threads[count++]` past
the array in the end: the program goes on (`Spawn`) or faults (`Overrun`). `mid/prethreaded`
makes its threads in advance. `Mss`, `Tss` and `ThreadServers`
extend it with how clients come to a service: from a multiplexer where services
register (its loop never clears the clients' socket from the set, so that it waits in
`accept` for clients while services wait for it), from a main server that starts the
services (when `execve` fails the child goes on as a second main server), or directly.
`PassServer` is `unixsockets/tss`, where the connection is passed to the other process.

### Crc, Hamming, Heap

`Crc` is the shift register of `crc1.c` step by step, with `crc.c`'s division as an
operator; the reference is division of polynomials. `Hamming` computes the redundancy
bits as `hamming.cpp` does, clears a bit and looks for it. `Heap` runs the sifting
loops of `Insert` and `DeleteMin` step by step and implements `PriorityQueue`: a bag of
which the least element is taken. `Sentinel` is `-INT_MAX`, so one `int` lies below it.

### MC modules

`MCCseMulti`, `MCBackupServer` and `MCStudios` give constants their values. `MCStarts`,
`MCRpc`, `MCSelect`, `MCMultiplex` and `MCCodes` put programs that share nothing side by
side: which of them runs is chosen in the initial state, and the others keep their
initial values. `MCStarts` and `MCSelect` extend the module of one of their programs
(`CseStartup`, `MultiServer`) and have instances of the others. `MCStarts`, `MCRpc` and
`MCMultiplex` leave their instances to the `.cfg`: lines, files, tree, services and bounds
are constants, for which they define small values (`FirstOnes`, `TypedLines`, `TypedSums`,
`SmallTree`, `ShortFiles`), and what the proofs need of them is assumed by name
(`StationAssumption`, `LinesAssumption`, `TreeAssumption`, `BoundsAssumption`,
`FtpAssumption`, `ProgramsAssumption`, and `FdsAssumption` of `NfsServer`). Their properties are
conjunctions of the modules' properties, gathered by what they are about: what is
delivered or allotted, who is stuck for ever, and who is served in the end.
In `MCSelect` and `MCMultiplex` the last of these is one formula: `Waiting` says of the
server that runs that somebody is to be served, and `[]<>~Waiting` that nobody is so for
ever.
`SafeHandover`, `Payments` and `OneTrainEach` gather those of `BackupServer`, `Studios`
and `TrainStation` in the same way.

## 4. Runs

| run | instance | shows |
|---|---|---|
| `CseSafety` | 3 clients, class 1 or 3, tickets 1/1/2, one stack slot | types; nobody skips a class with tickets; a connection is in one place; no thread serves an earlier client; while nobody leaves the counter closes only when `e` is sold out |
| `CseLiveness` | 2 clients, classes 1 to 3, tickets 1/1/1, two stack slots | `CseMulti` implements `TicketOffice`; the shutdown reaches everybody; the end of a server spreads upwards; requests are settled while nobody leaves |
| `CseTicketsFull` | 2 clients | violated: "Tickets are full" is printed with tickets unsold |
| `Starts` | ticket counter, each program started up to 3 times; or 2 trains and 2 platforms, one stop | the pid is fresh, links stand, nobody waits for ever; a platform takes in at most one train before its announcement, a train arrives no more often than it was started, a train that is ready arrives unless somebody is stopped or missing |
| `BsHandover` | 3 clients, table of 3 | no gap, same table, backup after server, no earlier client served; every recorded client is served by the backup in the end |
| `BsEarly` | 2 clients | violated: the backup begins and serves nobody |
| `Studios` | 4 jobs, 3 starts of the director, set 2 and actor 3 not running | permissions are neither lost nor invented, everyone is paid, older ones more often; no director is kept waiting by a registry; a job comes to its end |
| `TrainStation` | 4 trains, 3 platforms | a platform serves its own train only; no collision; a stranded platform never wakes; a platform on its own train's announcement serves it |
| `RemoteFiles` | 2 clients, 2 calls in all, 2 transmissions each, 2 starts of the server; or ftp with files of up to 2 words, of which the client prints up to 4 | `Rpc` implements `AtLeastOnce`; no more executions than transmissions; calls answered at once run in order; sums stay exact under repetition; only `ls` and `touch` leak; the tree stays a tree, and the current directory is in it or was removed by someone's call; a directory without search permission locks out everybody whose name begins there; calls return; ftp prints the file from its beginning and then only its last word, a file comes whole once the connection stands, and a connection tried too early is never made up for |
| `SelectServers` | 3 clients: chats with room for one message in a FIFO; 2 FIFOs and one server of each kind; 3 service servers. 2 servers with 2 log FIFOs | one order and no omission in the chat, a dead client's full FIFO stops it for good, otherwise lines arrive; the pool is not oversold, FIFOs are shared only after overlapping decrements, a refused client stays so, others are settled; requests are swallowed but not invented, only the first service server is ever given twice; logs without gaps, servers on other FIFOs than 0 stop for ever; in the older chats a word reaches the first of the others and nobody else, only `select` repeats a client's end, and a client that is missing ends or stops the server |
| `Multiplexers` | 3 clients (2 in mss), 2 services in mss, 2 in tss of which one is not there, one each of `multithreaded` and `prethreaded`, room for 1 thread in mss and 2 elsewhere; 4 processes and 2 descriptors for the servers that fork | late threads never serve an earlier connection; the limit of tss holds, and elsewhere the third client overruns the array; prethreaded workers serve what they accepted; a port told stays right; a multiplexer waiting for a client registers nobody; a dead service is lost to its clients; clients are answered; the main server follows the server it passes to; a forked server has its client to itself, `accept` after `select` blocks only after a signal or a failed execution, and used up descriptors or processes are never given back |
| `Codes` | generators up to degree 3, frames up to 4 bits; 1, 4, 5 or 11 data bits; up to 7 elements | bursts are found, both divisions agree, the verdict is that of polynomial division; the error is located, codewords differ in three places; the heap is a priority queue, also where sifting goes down two levels, and what happens below the sentinel |

Bounds. In `Studios` the wishes include an empty list, a list that meets the missing set
first and last, and three sets, so that a registry is left with two questions open.
In `TrainStation` the third train meets the platform that is not announced to and the
fourth finds none. In the ticket counter and the backup server, capacities are scaled
down (1/1/1 or 1/1/2 for the code's 1/2/3, 3 for 5) so that two or three clients fill
every table, overflow through the chain and meet phantoms at `e`. `SockBuf` and `Backlog` are 1: smaller buffers only make senders
wait, and with three clients no longer queue forms that matters. Clients connect
once. `Requests` varies over the runs so that every action fires: class 1 overflows over
two servers, two or three clients of class 3 sell out `e`, so that the counter closes while
nobody has left, and a client that leaves without sending is sent wherever the buffer says.
A client without an argument (`NoArg`) is in no run; the proofs cover it. Clients are interchangeable, so the ticket
counter's safety run and `BsEarly` use symmetry; runs with liveness properties do not, and
where a leads-to property is stated for one client it stands for all of them.

`MaxTries` 2 lets a request be executed twice and its second answer come after the next
call has begun; `MaxCalls` 2 is the number of calls of both clients together; `MaxStarts` 2 lets a request wait for a server that is gone; `MaxFds` 1
lets the second `ls` find the table full. The lines typed hold every procedure, names from
`/`, a name that removes the current directory, one line with an argument missing and a word
that is none. `MaxPrinted` 4 lets the client of ftp print a file of two words, its last word
sent again, and its buffer once more. `Cap` 1 in the chats and the log lets a
FIFO fill up with the second message, and three lines go beyond it. Two FIFO pairs for
three clients leave one without. In `Mss` the loop runs three times after a `select`
and in `Tss` up to four main servers come to be, as many as three clients of a missing
program can cause. In `ForkServers` the second connection fills a descriptor table and
the third client finds it full, and three children use up the processes; with `server1`
missing two clients connect (`MaxLost`), one of them when no process is left. In
`FifoStation` the users of train 1 and platform 1 may stop their
program, once altogether; a program that `SIGPIPE` ended is restarted only by a user who
may stop it. Frames of 11 data bits are the longest `hamming.cpp` has room for.

Deadlock is not checked: the servers wait for clients, and clients are finite.

Fairness. Every process and thread that can step does so at last: the kernel
schedules all of them, and the programs have no locks and poll without blocking
each other. A process gets one weak fairness condition over all its steps, not one
per action, so nothing is assumed of the order in which it serves its links. Threads
that share a process each have their own. Of the RPC programs only the stubs are fair,
for their timers run: nothing is assumed of the network or the server.
Starting, typing, quitting, stopping and signalling are the users' choices and are not
fair. `EveryRequestSettled` concerns runs in which nobody leaves: a departure can end the
server that holds another client, which the counter's copy of the descriptor then
keeps waiting for ever. Most other leads-to properties name their exceptions in the same
way: what excuses a server is in the formula, as a late thread, a dead program or a
missing platform.

## 5. Proofs

Eight modules hold proofs. In each, an inductive invariant is a conjunction of named
parts, there is a lemma for each action (and, where it is large, for each part it can
disturb), and the theorems follow from the invariant. What the theorems state was checked
with TLC first, in the runs.

### CseMultiProofs

For every set of clients, all capacities, buffer sizes and
both stack layouts, under the assumptions named in `CseMulti` (the model values
differ, capacities and buffers are positive, requests are service numbers):

* `TypeCorrect`: `Spec => []TypeOK`, with `SentNumber` (only a client with an argument
  has sent a number) as the strengthening.
* `OverflowCorrect`, `OnePlaceCorrect`, `GenuineShutdownCorrect`.
* `Implementation`: `Spec => ImplementsOffice`.
* `ServiceNeverStale`: `Spec => []NoStaleService`.

`OverflowOnlyWhenFull` and `OnePlace`
need `ClassOnce`: the counter reads a class once, so that an entry made for a client
stays true while its connection travels. `GenuineShutdown` needs `GenuineClose`, which
speaks of the signal from its sending, and that needs `NoPhantomYet`: before anybody
leaves and before the signal, all servers run and no phantom is in any buffer, slot
or table. That in turn needs `Ends` (who has ended, and that `e` exits only after
signalling). `Implementation` maps a thread's creation to a sale, a phantom's to a
wasted ticket, and everything else to a stuttering step or a step of the same name.
`NoStaleService` speaks of what a thread has loaded. It becomes inductive as `NotStale`,
which says the same of the variable a thread has yet to load: neither holds the client of
an earlier ticket, and that follows from `OnePlace`.

### CseStartupProofs

`ServersStartRight`: `[]StartedRight` for any number of starts. `OneConnection` says of
each link that there is one connection on it, of the process that now runs, after it has
connected, and none before; a counter that gives up half-way (`halfway`) leaves others.
That nothing is left of an earlier process needs `NothingYet`: the programs fail only at
their first step, before anything has come to them. `Published` orders the pid in shared
memory against the counters that connected to `e`, from which `FreshPid` follows.

The module is about `MCStarts` and so has the station of `exam/4` too.
`ArrivalsAreRight`: `[]RightArrivals` for any numbers of trains, platforms and stops, under
`StationAssumption`. `StationInv` is `StationTypes`, `MasterInv` (what the station master
has read and told), `AskedInv`, which counts how often a train was started against how often
it asked, was announced and arrived, `ReadersInv`, which holds until somebody is stopped (a
FIFO that is written to has its reader), and `AheadInv`, by which the trains a platform took
in, or will, are covered by announcements to it that were read or still wait (`Owed`), but
for the one it may be ahead while it is past its look at them.

### BackupServerProofs

For any clients the tables have room for (`BoundAssumption`; more would write past
`cfd[]`), both layouts and an old segment or none: `HandoverIsSafe` (`[]SafeHandover`) and
`ThreadsAreNotStale` (`[]NoStaleThread`).

`SignalInv` says how far the two signals have come: the backup's handler runs only after
the server's has started, and interrupts main where `bstart` says. `ServerInv` keeps the
recorded connections open until the server exits, `ClientsInv` has each client in one
place, `ThreadInv` has the threads in the order of the table with `nfd` ahead of it, and
that is what makes `NoStaleThread` inductive. `ChannelInv` is the core: what is between
the servers is the greeting and then exactly the part of the table that was sent and has not
been received. With `TableInv`, on when the backup's table is complete, it gives
`SameTable`, and from these follow the other parts of `SafeHandover`.

### StudiosProofs

`PaymentsAreRight`: `[]Payments` for all wishes without repeated numbers, all running
sets and actors within `ArraysAssumption`, any starts of the director. `BudgetInv` counts:
no set or actor has more connections than jobs were typed, so that a connection has a place
in its array. `ConnInv` says where a permission is kept (the director's array, the
producer, or the answer just read), `PermInv` that the connection asked is new to both,
`AccpInv` that older entries of an array were paid at least as often and that the producer
has a prefix of each array, without which a round that was broken off would break the
order, and `BoxInv` when the producer has connections.

### TrainStationProofs

For any number of trains: `PlatformsAreExclusive` (`[]OneTrainEach`) and
`StrandedPlatformsStay` (the action property `StrandedForEver`). The difficulty is
`newfd`, which keeps an earlier train's connection when no socket is made for a train:
`PassInv` says that on a connection a platform still reads from the first train is the one
that was announced, since what is passed on an old `newfd` comes after it. `QueueInv` says
that announcements are in the queue of their platform once, `MasterInv` that a platform is
given to one train and the master works on the train it was given to last.

### RpcProofs

About the programs of `MCRpc`, for all clients, lines, trees, files and bounds under its
assumptions:

* `NoMoreRunsThanSent`: no request is executed more often than it was sent.
* `Implementation`: `Spec => ImplementsAtLeastOnce`.
* `ResultsAreRight`: `[]RightResults`, what users see of sums, of calls answered at once
  and of ftp.
* `FileServerIsSound`: `[]ServerSound`, leaks and the tree.
* `LostStaysLost`: the action property `LostForEver`.

`RpcInv` is about the calls and knows nothing of the procedures: `Values` (there is some set
of results), `CallsInv` (a client has at most one call in progress), `DatagramsInv` (each
datagram belongs to its call), `CountInv` (executed and in flight are no more than sent).
`DataInv` is about the server's data: it is the state of a server (`IsServer`) that runs
procedures. That the tree stays a tree needs to know where a name leads. `IsPlace` says what
a place is (a node of the tree, or one of the removed directories below it that the current
one hangs on), and `TrailFacts` that every part of a name leads from places to places, by
induction over its parts. `Fine` is what each procedure then does to the server: the tree
and the current directory stay what they are, a directory is lost only by `remove`,
descriptors only by `ls` and `touch`, and when the current directory cannot be searched, a
name that begins there changes nothing.

`RightResults` needs a second layer, `SeenInv`: `ConnInv` (which server a client knows),
`ResultsInv` (every result logged or in flight is right for its line) and `TurnsInv`, by
which, as long as a lone client was answered at once, server and log are those of its calls
run in turn (`RanInTurn`). For ftp, `TransferInv` with `WordsInv` says that what was printed,
what is on its way and what is unread are the file, with its last word repeated, and that
nothing is repeated before the end of the file was noticed.

### SelectProofs

It extends `MCSelect`, so that its theorems are about the properties of the run.

* `PoolIsNotOversold`: `[]MultiAllotted` for any finite set of clients, any FIFOs and
  servers. `Pool` counts: given, promised in an answer nobody has read, and free servers of
  a kind are no more than there are. `InTurn` says what holds while no two clients count
  down at the same time, `CountedDown` bounds the number by who has stored.
* `ServiceServersAllotted`: `[]ServiceAllotted` for any finite set of clients and any number
  of servers. `ServiceRequests` counts what became of the requests: in the FIFO (where one read
  makes all of them one), behind the flag, being answered, answered. `Marked` relates
  `status[]` to who has a server, and `NamedOnce` says that while there are servers for all
  requests none is named twice, except the first one after a client left (`Once`); that
  `FirstFree` finds one then is a pigeonhole argument (`AllNamed`).
* `LogsHaveNoGaps`: `[]LogsNoGaps` for any finite set of servers, at least one FIFO and any
  capacity. What is logged and what waits in FIFO 0 are one sequence (`Written`) that is in
  order and ends, for each server, with the last line it copied (`Order`); `Flow` says where
  the lines typed are.
* `StuckStayStuck`: the action property `StuckForEver`, for two or more clients in the chats.
  For the chats it needs types and that a line being passed on has someone to go to; the log
  server's part follows from `LogInv`. A refused client stays refused because of `ServiceRequests`:
  a FIFO nobody has taken is as it was made, and on that of a client alone there is one
  request, one answer or one refusal.

### MultiplexProofs

About the programs of `MCMultiplex`, for any finite set of clients and any services, limits,
ports, processes and descriptors under `ProgramsAssumption`: `RightConnections`
(`[]RightConnection`), `RightServices` (`[]RightService`) and `LostStaysLost` (the action
property `LostForEver`).

The invariant is `MultiplexInv`. For the programs with threads it is `WorkerInv`, whose core
is `ThreadsOf`: the loop's variable is at the newest connection or past it, so that a late
thread reads the descriptor of its own connection or a later one. It holds with and without
a limit; only the services that count their threads, or make them in advance, have one that
is kept. `Connected` says that a client is at the service whose port it was told and, if it
was answered in time, has a thread. `MssInv` adds that a port sent stays right, and `TssInv`
that a program was executed at most as often as there are main servers that have marked it
(`Knowing`), since a main server marks before it executes. `PassInv` is about `unixsockets/tss`,
where the loop's variable after the end of file means that no connection is left. `ForkInv` is
about the servers that fork: who runs the loop (`Loops`), that a client is in one queue or was
accepted by one process (`Queues`), and that what `select` returned still holds as long as
only one process accepts (`ReadyPorts`).

### Only model-checked

* All liveness, `NotKeptWaiting` of the directors among it: fairness and ENABLED are out of
  the prover's reach.
* `ChatBroadcast`: it says which subsequence of the lines a client gets, by selecting from a
  sequence, which the provers cannot unfold.
* `CrcCorrect`, `HammingCorrect` and `HeapSorts`: the codes and the heap are defined by
  recursion over their data and by folds; their runs are over all data of the sizes given.
* `TicketsAreFull` and `BackupBegins` are violated.

## 6. What is not modelled

Everything marked `not_modelled` in `PROJECT.json`. Packet construction and printing,
generated conversions and exercises of single library calls have no state or protocol
to check; `exam/5` does not compile; the loop of `select_servers/allinoneserver` uses a
descriptor that is never initialised, so that nothing can be said of what it reads. The
older log and multi servers are earlier versions of the ones in `select_servers`.

In the modelled parts: the text of messages; failing system calls other than `connect`,
`open`, `execve` and, in `ForkServers`, `accept` and `fork`; and what lies behind the end of an array: clients beyond `cfd[]` in
`unixsockets/bs`, lines longer than the buffers of `select_servers/serviceserver`, more
than eleven data bits in `hamming.cpp`, the unterminated copy in `crc.c`. In
`unixsockets/tss`, `Overrun` covers the descriptor beyond `threads[]`. In `mid/multithreaded`
and `mid/mss` the threads beyond `threads[]` are modelled as a program that goes on or faults;
what they overwrite is not. Of the file server, links, other owners, the umask and slashes at
the end of a name; of ftp, words longer than 255 bytes, a `recv` that brings a part of a
word, and a user who stops the server. `int` does not overflow in the sums and heaps of the
instances.

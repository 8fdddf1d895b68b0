---------------------------- MODULE FifoStation ----------------------------
(***************************************************************************)
(* exam/4: station master sm.c, platforms p.c and trains t.c over FIFOs.   *)
(* A train has a FIFO to the master ("platform") and one from it           *)
(* ("train"), a platform one for announcements ("platbrod") and one for    *)
(* what trains tell it ("platinfo").  FIFOs stay when programs end, and    *)
(* may have been left by an earlier day.  Users start the programs, and    *)
(* stop them, when they like: none of them ends by itself, but SIGPIPE     *)
(* ends the writer of a FIFO that nobody reads any more.                   *)
(***************************************************************************)
EXTENDS Integers, Sequences, FiniteSetsExt

CONSTANTS
    NTrains, NPlatforms,
    MayStop,     \* the programs whose users may stop them
    MaxKills     \* how many they stop

VARIABLES
    pc,          \* what each program does, "off" when it is not running
    made,        \* the FIFOs there are
    fifo,        \* what is in them
    open,        \* descriptors: program, FIFO, reading or writing
    revents,     \* the master: trains its last poll found and it has not served yet
    i,           \* the master: the train it serves
    k,           \* the master: the platform it announces to
    plat,        \* the platform a train was told
    \* records of what happened
    ahead,       \* trains a platform took in, less the announcements it read or missed
    arrivals,    \* of a train at platforms
    starts,
    kills

vars == <<pc, made, fifo, open, revents, i, k, plat, ahead, arrivals,
          starts, kills>>
records == <<ahead, arrivals, starts, kills>>
master == <<revents, i, k>>

Trains == 1 .. NTrains
Platforms == 1 .. NPlatforms
T(t) == <<"t", t>>
P(p) == <<"p", p>>
SM == <<"sm", 0>>
Programs == {SM} \cup {T(t) : t \in Trains} \cup {P(p) : p \in Platforms}

ReadyFifo(t) == <<"platform", t>>
TrainFifo(t) == <<"train", t>>
BrodFifo(p) == <<"platbrod", p>>
InfoFifo(p) == <<"platinfo", p>>
Fifos == {ReadyFifo(t) : t \in Trains} \cup {TrainFifo(t) : t \in Trains}
             \cup {BrodFifo(p) : p \in Platforms} \cup {InfoFifo(p) : p \in Platforms}

HasReader(f) == \E d \in open : d[2] = f /\ d[3] = "r"

\* a FIFO forgets what is in it when its last descriptor is closed
Closed(contents, descriptors) ==
    [f \in Fifos |-> IF \E d \in descriptors : d[2] = f THEN contents[f] ELSE <<>>]

Init ==
    /\ pc = [x \in Programs |-> "off"]
    /\ made \in {{}, Fifos}
    /\ fifo = [f \in Fifos |-> <<>>]
    /\ open = {}
    /\ revents = {} /\ i = 1 /\ k = 1
    /\ plat = [t \in Trains |-> 1]
    /\ ahead = [p \in Platforms |-> 0]
    /\ arrivals = [t \in Trains |-> 0]
    /\ starts = [x \in Programs |-> 0]
    /\ kills = 0

Goto(x, l) == pc' = [pc EXCEPT ![x] = l]

\* open(f, O_WRONLY), which waits until somebody has f open for reading
OpenToWrite(x, f, l) ==
    /\ f \in made /\ HasReader(f)
    /\ open' = open \cup {<<x, f, "w">>}
    /\ Goto(x, l)
    /\ UNCHANGED <<made, fifo>>

\* x ends: its descriptors are closed
Ends(x) ==
    /\ Goto(x, "off")
    /\ open' = {d \in open : d[1] # x}
    /\ fifo' = Closed(fifo, open')

\* a write into f by a program that has it open, and the descriptors it has afterwards;
\* without a reader the signal SIGPIPE ends the program
WriteAndKeep(x, f, msg, descriptors, l) ==
    /\ UNCHANGED made
    /\ \/ /\ HasReader(f)
          /\ fifo' = Closed([fifo EXCEPT ![f] = Append(@, msg)], descriptors)
          /\ open' = descriptors
          /\ Goto(x, l)
       \/ ~HasReader(f) /\ Ends(x)
WriteAndClose(x, f, msg, l) == WriteAndKeep(x, f, msg, open \ {<<x, f, "w">>}, l)

Read(f) == fifo' = [fifo EXCEPT ![f] = Tail(@)]

\* mkfifo and open(..., O_RDONLY|O_NONBLOCK) of the FIFOs a program reads.  A program
\* is started once, and those that may be stopped once more for each stop.
Starts(x) ==
    /\ pc[x] = "off" /\ starts[x] < (IF x \in MayStop THEN 1 + MaxKills ELSE 1)
    /\ starts' = [starts EXCEPT ![x] = @ + 1]
Makes(fs) == made' = made \cup fs
Opens(x, fs) == open' = open \cup {<<x, f, "r">> : f \in fs}

-----------------------------------------------------------------------------
(* sm.c *)

\* nothing in the program ever changes it
plat_available == [p \in Platforms |-> 1]
FirstFree == Min({p \in Platforms : plat_available[p] = 1})

StationStart ==
    /\ Starts(SM)
    /\ Goto(SM, "poll")
    /\ Makes({ReadyFifo(t) : t \in Trains}) /\ Opens(SM, {ReadyFifo(t) : t \in Trains})
    /\ revents' = {} /\ k' = 1
    /\ UNCHANGED <<fifo, i, plat, ahead, arrivals, kills>>

\* Mutant of Poll: the last FIFO is left out.
PollShort ==
    /\ pc[SM] = "poll" /\ revents = {}
    /\ revents' = {t \in Trains : t < NTrains /\ fifo[ReadyFifo(t)] # <<>>}
    /\ UNCHANGED <<pc, made, fifo, open, i, k, plat, records>>

\* the FIFOs with data in them; an ended writer alone is no event
Poll ==
    /\ pc[SM] = "poll" /\ revents = {}
    /\ revents' = {t \in Trains : fifo[ReadyFifo(t)] # <<>>}
    /\ UNCHANGED <<pc, made, fifo, open, i, k, plat, records>>

ReadReady ==
    /\ pc[SM] = "poll" /\ revents # {}
    /\ i' = Min(revents) /\ revents' = revents \ {i'}
    /\ Read(ReadyFifo(i'))
    /\ Goto(SM, "broadcast")
    /\ UNCHANGED <<made, open, k, plat, records>>

NextPlatform(l) == k' = k + 1 /\ Goto(SM, IF k < NPlatforms THEN "broadcast" ELSE l)

\* open and write of a platform's FIFO, or the open that fails for want of one
BroadcastOpen ==
    /\ pc[SM] = "broadcast"
    /\ OpenToWrite(SM, BrodFifo(k), "announce")
    /\ UNCHANGED <<master, plat, records>>
BroadcastFails ==
    /\ pc[SM] = "broadcast" /\ BrodFifo(k) \notin made
    /\ NextPlatform("tell")
    /\ ahead' = [ahead EXCEPT ![k] = @ - 1]
    /\ UNCHANGED <<made, fifo, open, revents, i, plat, arrivals, starts, kills>>
BroadcastWrite ==
    /\ pc[SM] = "announce"
    /\ k' = k + 1
    /\ WriteAndClose(SM, BrodFifo(k), "coming", IF k < NPlatforms THEN "broadcast" ELSE "tell")
    /\ UNCHANGED <<revents, i, plat, records>>

\* the descriptor of the train's FIFO is never closed
TellOpen ==
    /\ pc[SM] = "tell"
    /\ OpenToWrite(SM, TrainFifo(i), "told")
    /\ UNCHANGED <<master, plat, records>>
TellWrite ==
    /\ pc[SM] = "told"
    /\ WriteAndKeep(SM, TrainFifo(i), FirstFree, open, "poll")
    /\ i' = 1 /\ k' = 1
    /\ UNCHANGED <<revents, plat, records>>

StationStep ==
    \/ Poll \/ ReadReady \/ BroadcastOpen \/ BroadcastFails \/ BroadcastWrite
    \/ TellOpen \/ TellWrite

-----------------------------------------------------------------------------
(* p.c *)

PlatformFifos(p) == {BrodFifo(p), InfoFifo(p)}
\* the master's shared memory, which it makes just before its FIFOs: without it a
\* platform faults before it has made anything
Segment == \A t \in Trains : ReadyFifo(t) \in made
PlatformStart(p) ==
    /\ Starts(P(p)) /\ Segment
    /\ Goto(P(p), "poll")
    /\ Makes(PlatformFifos(p)) /\ Opens(P(p), PlatformFifos(p))
    /\ UNCHANGED <<fifo, master, plat, ahead, arrivals, kills>>

\* poll looks at the announcements first, and a moment later at what trains say
Announced(p) == fifo[BrodFifo(p)] # <<>>
ReadBroadcast(p) ==
    /\ pc[P(p)] = "poll" /\ Announced(p)
    /\ Read(BrodFifo(p))
    /\ ahead' = [ahead EXCEPT ![p] = @ - 1]
    /\ UNCHANGED <<pc, made, open, master, plat, arrivals, starts, kills>>
\* Mutant of NoBroadcast: what trains say is looked at without a look at the announcements.
NoBroadcastUnasked(p) ==
    /\ pc[P(p)] = "poll"
    /\ Goto(P(p), "second")
    /\ UNCHANGED <<made, fifo, open, master, plat, records>>

NoBroadcast(p) ==
    /\ pc[P(p)] = "poll" /\ ~Announced(p)
    /\ Goto(P(p), "second")
    /\ UNCHANGED <<made, fifo, open, master, plat, records>>
ReadInfo(p) ==
    /\ pc[P(p)] = "second" /\ fifo[InfoFifo(p)] # <<>>
    /\ Goto(P(p), "poll")
    /\ ahead' = IF Head(fifo[InfoFifo(p)]) = "sequence"
                THEN [ahead EXCEPT ![p] = @ + 1] ELSE ahead
    /\ Read(InfoFifo(p))
    /\ UNCHANGED <<made, open, master, plat, arrivals, starts, kills>>
NoInfo(p) ==
    /\ pc[P(p)] = "second" /\ fifo[InfoFifo(p)] = <<>>
    /\ Goto(P(p), "poll")
    /\ UNCHANGED <<made, fifo, open, master, plat, records>>

PlatformStep(p) == ReadBroadcast(p) \/ NoBroadcast(p) \/ ReadInfo(p) \/ NoInfo(p)

-----------------------------------------------------------------------------
(* t.c *)

TrainStart(t) ==
    /\ Starts(T(t))
    /\ Goto(T(t), "new")
    /\ Makes({TrainFifo(t)}) /\ Opens(T(t), {TrainFifo(t)})
    /\ UNCHANGED <<fifo, master, plat, ahead, arrivals, kills>>

\* the user types a number: the train is ready.  Without the master's FIFO the error is
\* printed and the train waits all the same
ReadyOpen(t) ==
    /\ pc[T(t)] = "new"
    /\ OpenToWrite(T(t), ReadyFifo(t), "say")
    /\ UNCHANGED <<master, plat, records>>
ReadyFails(t) ==
    /\ pc[T(t)] = "new" /\ ReadyFifo(t) \notin made
    /\ Goto(T(t), "wait")
    /\ UNCHANGED <<made, fifo, open, master, plat, records>>
ReadyWrite(t) ==
    /\ pc[T(t)] = "say"
    /\ WriteAndClose(T(t), ReadyFifo(t), "ready", "wait")
    /\ UNCHANGED <<master, plat, records>>

ReadPlatform(t) ==
    /\ pc[T(t)] = "wait" /\ fifo[TrainFifo(t)] # <<>>
    /\ plat' = [plat EXCEPT ![t] = Head(fifo[TrainFifo(t)])]
    /\ Read(TrainFifo(t))
    /\ Goto(T(t), "arrive")
    /\ UNCHANGED <<made, open, master, records>>

InfoOpen(t) ==
    /\ pc[T(t)] = "arrive"
    /\ OpenToWrite(T(t), InfoFifo(plat[t]), "sequence")
    /\ UNCHANGED <<master, plat, records>>
Arrived(t) == [arrivals EXCEPT ![t] = @ + 1]
\* a platform that was never started: the train sleeps there as well
InfoFails(t) ==
    /\ pc[T(t)] = "arrive" /\ InfoFifo(plat[t]) \notin made
    /\ Goto(T(t), "wait")
    /\ arrivals' = Arrived(t)
    /\ UNCHANGED <<made, fifo, open, master, plat, ahead, starts, kills>>
SequenceWrite(t) ==
    /\ pc[T(t)] = "sequence"
    /\ arrivals' = IF HasReader(InfoFifo(plat[t])) THEN Arrived(t) ELSE arrivals
    /\ WriteAndKeep(T(t), InfoFifo(plat[t]), "sequence", open, "sleep")
    /\ UNCHANGED <<master, plat, ahead, starts, kills>>
LeavingWrite(t) ==
    /\ pc[T(t)] = "sleep"
    /\ WriteAndClose(T(t), InfoFifo(plat[t]), "leaving", "wait")
    /\ UNCHANGED <<master, plat, records>>
TrainStep(t) ==
    \/ ReadyWrite(t) \/ ReadPlatform(t) \/ InfoOpen(t) \/ InfoFails(t)
    \/ SequenceWrite(t) \/ LeavingWrite(t)

-----------------------------------------------------------------------------
\* a user stops a program
Kill(x) ==
    /\ x \in MayStop /\ pc[x] # "off" /\ kills < MaxKills
    /\ kills' = kills + 1
    /\ Ends(x)
    /\ UNCHANGED <<made, master, plat, ahead, arrivals, starts>>

Next ==
    \/ StationStart \/ StationStep
    \/ \E p \in Platforms : PlatformStart(p) \/ PlatformStep(p)
    \/ \E t \in Trains : TrainStart(t) \/ ReadyOpen(t) \/ ReadyFails(t) \/ TrainStep(t)
    \/ \E x \in Programs : Kill(x)

-----------------------------------------------------------------------------
TypeOK ==
    /\ pc[SM] \in {"off", "poll", "broadcast", "announce", "tell", "told"}
    /\ \A p \in Platforms : pc[P(p)] \in {"off", "poll", "second"}
    /\ \A t \in Trains : pc[T(t)] \in {"off", "new", "say", "wait", "arrive", "sequence",
                                       "sleep"}
    /\ made \subseteq Fifos /\ \A d \in open : d[2] \in made
    /\ \A t \in Trains : fifo[TrainFifo(t)] \in Seq(Platforms)
    /\ revents \subseteq Trains /\ i \in Trains /\ k \in 1 .. NPlatforms + 1
    /\ plat \in [Trains -> Platforms]

\* A platform takes in at most one train that was not announced to it before.  It
\* looks at the announcements first; poll looks at the two FIFOs one after the other,
\* and in between an announcement and the train it is about can both arrive, but then
\* the announcement is read before the next train.  Announcements made before the
\* platform had a FIFO are lost.
AtMostOneAhead ==
    kills = 0 => \A p \in Platforms : ahead[p] <= 1

\* A train comes to a platform at most once for each time it was started, although the
\* answer to an earlier one that was stopped stays in its FIFO, which the master keeps
\* open, and is read by the next.
NoMoreThanAsked == \A t \in Trains : arrivals[t] <= starts[T(t)]

\* The master waits for a platform that is not running, whose FIFO was left behind.
HeldUp ==
    \/ pc[SM] = "broadcast" /\ BrodFifo(k) \in made /\ pc[P(k)] = "off"
    \/ \E t \in Trains : /\ pc[T(t)] = "arrive" /\ InfoFifo(plat[t]) \in made
                         /\ pc[P(plat[t])] = "off"

\* What a train said to the master brings it to a platform, unless a program is stopped
\* or somebody waits for a platform that is not running.
Ready(t) == fifo[ReadyFifo(t)] # <<>>
Excused == kills > 0 \/ HeldUp
=============================================================================

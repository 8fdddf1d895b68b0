----------------------------- MODULE ChatServer -----------------------------
(***************************************************************************)
(* select_servers/chatserver: one server between clients that each made    *)
(* two FIFOs, <name> for what is typed and <name>write for what the others *)
(* said.  All ends are opened O_RDWR: no FIFO is ever at its end, and what *)
(* a client that ended would have read stays in its FIFO.                  *)
(***************************************************************************)
EXTENDS Naturals, Sequences, FiniteSets, SequencesExt

CONSTANTS
    N,          \* the clients 0 .. N - 1 that argv names
    Cap,        \* the broadcasts of 200 bytes a FIFO holds
    MaxSay      \* bound: lines typed, all clients together

VARIABLES
    user,       \* user[c]: "absent", "typing" or "gone"
    said,       \* said[c]: the lines c has typed
    in,         \* in[c]: the FIFO <c>, 100 bytes a line
    out,        \* out[c]: the FIFO <c>write, in halves of 100 bytes
    seen,       \* seen[c]: the messages whose two halves c has printed
    half,       \* half[c]: has c read the first half of the next message
    server,     \* "off", "select", "scan" or "ended"
    readset,    \* the descriptors select left in the set
    msg,        \* the broadcast in progress: [from, n]
    k           \* the next client of the broadcast

vars == <<user, said, in, out, seen, half, server, readset, msg, k>>

Ids == 0 .. N - 1
Lines == FoldSet(LAMBDA c, s : s + said[c], 0, Ids)

Init ==
    /\ user = [c \in Ids |-> "absent"] /\ said = [c \in Ids |-> 0]
    /\ in = [c \in Ids |-> <<>>] /\ out = [c \in Ids |-> <<>>]
    /\ seen = [c \in Ids |-> <<>>] /\ half = [c \in Ids |-> FALSE]
    /\ server = "off" /\ readset = {}
    /\ msg = [from |-> 0, n |-> 0] /\ k = N

(***************************************************************************)
(* The clients                                                             *)
(***************************************************************************)
MakeFifos(c) ==
    /\ user[c] = "absent"
    /\ user' = [user EXCEPT ![c] = "typing"]
    /\ UNCHANGED <<said, in, out, seen, half, server, readset, msg, k>>

thread_write(c) ==
    /\ user[c] = "typing" /\ Lines < MaxSay
    /\ said' = [said EXCEPT ![c] = @ + 1]
    /\ in' = [in EXCEPT ![c] = Append(@, [from |-> c, n |-> said[c] + 1])]
    /\ UNCHANGED <<user, out, seen, half, server, readset, msg, k>>

\* a message of 200 bytes takes two reads of 100
thread_read(c) ==
    /\ user[c] = "typing" /\ out[c] # <<>>
    /\ half' = [half EXCEPT ![c] = ~@]
    /\ out' = [out EXCEPT ![c] = IF half[c] THEN Tail(@) ELSE @]
    /\ seen' = [seen EXCEPT ![c] = IF half[c] THEN Append(@, Head(out[c])) ELSE @]
    /\ UNCHANGED <<user, said, in, server, readset, msg, k>>

Leave(c) ==
    /\ user[c] = "typing"
    /\ user' = [user EXCEPT ![c] = "gone"]
    /\ UNCHANGED <<said, in, out, seen, half, server, readset, msg, k>>

(***************************************************************************)
(* The server                                                              *)
(***************************************************************************)
\* a FIFO that does not exist yet ends the server
OpenFifos ==
    /\ server = "off"
    /\ server' = IF \E c \in Ids : user[c] = "absent" THEN "ended" ELSE "select"
    /\ UNCHANGED <<user, said, in, out, seen, half, readset, msg, k>>

Select ==
    /\ server = "select"
    /\ readset' = {c \in Ids : in[c] # <<>>}
    /\ readset' # {}
    /\ server' = "scan"
    /\ UNCHANGED <<user, said, in, out, seen, half, msg, k>>

\* the next ready client's line is read ...
ReadLine ==
    /\ server = "scan" /\ readset # {} /\ k = N
    /\ LET j == CHOOSE x \in readset : \A y \in readset : x <= y IN
       /\ msg' = Head(in[j]) /\ in' = [in EXCEPT ![j] = Tail(@)]
       /\ readset' = readset \ {j} /\ k' = 0
    /\ UNCHANGED <<user, said, out, seen, half, server>>

\* ... and written to each other client in turn; a full FIFO blocks the server
OthersButLast == k # msg.from /\ k < N - 1
Others == k # msg.from

BroadcastSkips ==
    /\ server = "scan" /\ k < N
    /\ out' = IF Others /\ Len(out[k]) < Cap THEN [out EXCEPT ![k] = Append(@, msg)] ELSE out
    /\ k' = k + 1
    /\ UNCHANGED <<user, said, in, seen, half, server, readset, msg>>

Broadcast ==
    /\ server = "scan" /\ k < N
    /\ Others => Len(out[k]) < Cap
    /\ out' = IF Others THEN [out EXCEPT ![k] = Append(@, msg)] ELSE out
    /\ k' = k + 1
    /\ UNCHANGED <<user, said, in, seen, half, server, readset, msg>>

Again ==
    /\ server = "scan" /\ readset = {} /\ k = N
    /\ server' = "select"
    /\ UNCHANGED <<user, said, in, out, seen, half, readset, msg, k>>

ServerStep == Select \/ ReadLine \/ Broadcast \/ Again
ClientStep(c) == MakeFifos(c) \/ thread_write(c) \/ thread_read(c) \/ Leave(c)
Next == OpenFifos \/ ServerStep \/ \E c \in Ids : ClientStep(c)

-----------------------------------------------------------------------------
\* The variables have their types; a FIFO never holds more than its capacity.
TypeOK ==
    /\ user \in [Ids -> {"absent", "typing", "gone"}]
    /\ server \in {"off", "select", "scan", "ended"}
    /\ readset \subseteq Ids /\ k \in 0 .. N /\ half \in [Ids -> BOOLEAN]
    /\ \A c \in Ids : Len(out[c]) <= Cap

\* what reached c, printed or still in its FIFO, without what d typed
Got(c, d) == SelectSeq(seen[c] \o out[c], LAMBDA m : m.from # d)

\* Two clients see what the others say in the same order, and the one that is
\* behind misses nothing: the server finishes a broadcast before it reads again.
SameOrder ==
    \A c, d \in Ids : c < d => \/ IsPrefix(Got(c, d), Got(d, c))
                               \/ IsPrefix(Got(d, c), Got(c, d))

\* Between two broadcasts every line the server read has reached every other client,
\* once, in the order in which it was typed.
Complete ==
    k = N => \A c, d \in Ids : c # d =>
        SelectSeq(seen[c] \o out[c], LAMBDA m : m.from = d)
            = [i \in 1 .. said[d] - Len(in[d]) |-> [from |-> d, n |-> i]]

\* A client that ended is still written to: once the server waits on its full FIFO
\* nobody's lines are passed on any more.
Stuck == server = "scan" /\ k < N /\ Others /\ user[k] = "gone" /\ Len(out[k]) = Cap
StuckForEver == [][Stuck => Stuck']_vars

\* While nobody leaves, what is typed is to be printed by everyone else.
AllPrinted ==
    \A c, d \in Ids : c # d => Len(SelectSeq(seen[d], LAMBDA m : m.from = c)) = said[c]
Undelivered ==
    server \in {"select", "scan"} /\ ~AllPrinted /\ \A c \in Ids : user[c] # "gone"
=============================================================================

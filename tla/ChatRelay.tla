----------------------------- MODULE ChatRelay -----------------------------
(***************************************************************************)
(* chatserver and selectservers/chatserver: the server makes a FIFO for    *)
(* each client and reads it; each client makes its own, <name>B, which the *)
(* server opens, writes and closes for every line.  The two servers differ *)
(* in how they wait: select takes a FIFO that all writers have closed for  *)
(* readable, poll with POLLRDNORM does not.                                *)
(***************************************************************************)
EXTENDS Naturals, Sequences, SequencesExt, FiniteSetsExt

CONSTANTS
    N,          \* the clients 0 .. N - 1 that argv names, at least two
    Cap,        \* the lines of 100 bytes a FIFO holds
    MaxSay      \* bound: words typed, all clients together

VARIABLES
    select,     \* is it the server with select
    user,       \* user[c]: "absent", "typing" or "gone"
    said,       \* said[c]: the words c has typed
    in,         \* in[c]: the FIFO <c>, at most 100 bytes
    out,        \* out[c]: the FIFO <c>B, a sequence of readbufs
    heard,      \* heard[c]: the words c has printed
    server,     \* "wait", "scan", "open", "write" or "ended"
    readset,    \* the FIFOs that are still to be read
    readbuf,    \* the words in readbuf
    to          \* the clients the line is still to be written to

vars == <<select, user, said, in, out, heard, server, readset, readbuf, to>>
users == <<select, user, said, heard>>

Ids == 0 .. N - 1
Total(S) == FoldSet(LAMBDA c, s : s + said[c], 0, S)

Init ==
    /\ select \in BOOLEAN
    /\ user = [c \in Ids |-> "absent"] /\ said = [c \in Ids |-> 0]
    /\ in = [c \in Ids |-> <<>>] /\ out = [c \in Ids |-> <<>>]
    /\ heard = [c \in Ids |-> <<>>]
    /\ server = "wait" /\ readset = {} /\ readbuf = <<>> /\ to = {}

(***************************************************************************)
(* The clients.  One that is started a second time finds its FIFO <name>B  *)
(* there and exits.                                                        *)
(***************************************************************************)
Run(c) ==
    /\ user[c] = "absent" /\ server # "ended"
    /\ user' = [user EXCEPT ![c] = "typing"]
    /\ UNCHANGED <<select, said, in, out, heard, server, readset, readbuf, to>>

\* without the server the write ends the client (SIGPIPE)
writer(c) ==
    /\ user[c] = "typing" /\ Total(Ids) < MaxSay
    /\ IF server = "ended"
       THEN user' = [user EXCEPT ![c] = "gone"] /\ UNCHANGED <<said, in>>
       ELSE /\ said' = [said EXCEPT ![c] = @ + 1]
            /\ in' = [in EXCEPT ![c] = Append(@, [from |-> c, n |-> said[c] + 1])]
            /\ UNCHANGED user
    /\ UNCHANGED <<select, out, heard, server, readset, readbuf, to>>

reader(c) ==
    /\ user[c] = "typing" /\ out[c] # <<>>
    /\ out' = [out EXCEPT ![c] = Tail(@)]
    /\ heard' = [heard EXCEPT ![c] = @ \o Head(out[c])]
    /\ UNCHANGED <<select, user, said, in, server, readset, readbuf, to>>

Leave(c) ==
    /\ user[c] = "typing"
    /\ user' = [user EXCEPT ![c] = "gone"]
    /\ UNCHANGED <<select, said, in, out, heard, server, readset, readbuf, to>>

(***************************************************************************)
(* The server                                                              *)
(***************************************************************************)
Readable(c) == in[c] # <<>> \/ (select /\ user[c] = "gone")

Wait ==
    /\ server = "wait"
    /\ readset' = {c \in Ids : Readable(c)} /\ readset' # {}
    /\ server' = "scan"
    /\ UNCHANGED <<users, in, out, readbuf, to>>

\* what was typed since the last read comes as one line; at the end, nothing comes
Read ==
    /\ server = "scan"
    /\ LET i == Min(readset) IN
       /\ readbuf' = readbuf \o in[i] /\ in' = [in EXCEPT ![i] = <<>>]
       /\ readset' = readset \ {i} /\ to' = Ids \ {i}
    /\ server' = "open"
    /\ UNCHANGED <<users, out>>

\* a client that never ran has no FIFO: the server exits; one that left does not read:
\* the server waits
Open ==
    /\ server = "open" /\ user[Min(to)] # "gone"
    /\ server' = IF user[Min(to)] = "absent" THEN "ended" ELSE "write"
    /\ UNCHANGED <<users, in, out, readset, readbuf, to>>

\* readbuf is cleared after each write; a reader that left since the open ends the
\* server (SIGPIPE)
Write ==
    /\ server = "write"
    /\ LET j == Min(to) IN
       IF user[j] = "gone"
       THEN server' = "ended" /\ UNCHANGED <<out, readbuf, to>>
       ELSE /\ Len(out[j]) < Cap
            /\ out' = [out EXCEPT ![j] = Append(@, readbuf)]
            /\ readbuf' = <<>> /\ to' = to \ {j}
            /\ server' = IF to' # {} THEN "open" ELSE IF readset # {} THEN "scan" ELSE "wait"
    /\ UNCHANGED <<users, in, readset>>

ServerStep == Wait \/ Read \/ Open \/ Write
ClientStep(c) == Run(c) \/ writer(c) \/ reader(c) \/ Leave(c)
Next == ServerStep \/ \E c \in Ids : ClientStep(c)

-----------------------------------------------------------------------------
\* The variables have their types.
TypeOK ==
    /\ user \in [Ids -> {"absent", "typing", "gone"}]
    /\ server \in {"wait", "scan", "open", "write", "ended"}
    /\ readset \subseteq Ids /\ to \subseteq Ids
    /\ \A c \in Ids : Len(out[c]) <= Cap

FirstOther(d) == Min(Ids \ {d})
Reached(c) == heard[c] \o FlattenSeq(out[c])
By(d, s) == SelectSeq(s, LAMBDA w : w.from = d)

\* The buffer is cleared after the first write: every word reaches the first of the
\* other clients, once and in order, and no other client.
FirstHears ==
    \A d \in Ids :
        /\ By(d, Reached(FirstOther(d)) \o readbuf) \o in[d]
               = [i \in 1 .. said[d] |-> [from |-> d, n |-> i]]
        /\ \A c \in Ids \ {d, FirstOther(d)} : By(d, Reached(c)) = <<>>

\* A broadcast starts with something to say, although any number of lines may have been
\* read and cleared; only the server with select repeats the end of a client that left,
\* a blank line to the others each time round.
Starting == server = "open" /\ Cardinality(to) = N - 1
Quiet == Starting /\ readbuf = <<>> => select /\ \A i \in Ids \ to : user[i] = "gone"

\* The server ends only when a client it was started for has not come or has left.
EndsMissing == server = "ended" => \E c \in Ids : user[c] # "typing"

\* Once the server opens the FIFO of a client that left, it does so for ever.
Stuck == server = "open" /\ user[Min(to)] = "gone"
StuckForEver == [][Stuck => Stuck']_vars

\* While all clients are there, every word is to be printed by the first of the others.
AllHeard == \A d \in Ids : Len(By(d, heard[FirstOther(d)])) = said[d]
Undelivered == ~AllHeard /\ \A c \in Ids : user[c] = "typing"
=============================================================================

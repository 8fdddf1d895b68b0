------------------------------- MODULE MCRpc -------------------------------
(***************************************************************************)
(* Remote files and sums for TLC: nfs_client.c with its server, the        *)
(* clients that make one call with theirs, or a client and a server of     *)
(* ftp.  They are separate programs: which ones run is chosen at the       *)
(* start.                                                                  *)
(***************************************************************************)
EXTENDS NfsServer, RpcSums, FiniteSets

CONSTANTS
    c1, c2,         \* two clients
    Clients,
    NfsLines,       \* what the users of nfs_client.c type
    SumLines,       \* what those of the clients with one call ask for
    Tree,           \* the files when the server of nfs is started first
    FtpFiles,       \* the files ftp is asked for
    MaxCalls, MaxSumCalls, MaxTries, MaxStarts, MaxPrinted

VARIABLES
    service,
    server, gen, up, bound, state, asked, sent, log, requests, replies, runs,
    mode, file, ft_server, ft_client, control, linked, rest, eof, buf, data, got

rpc == <<server, gen, up, bound, state, asked, sent, log, requests, replies, runs>>
ftp == <<mode, file, ft_server, ft_client, control, linked, rest, eof, buf, data, got>>

Line(word, args) == [word |-> word, args |-> args]

Name(parts) == [abs |-> FALSE, parts |-> parts]
FromRoot(parts) == [abs |-> TRUE, parts |-> parts]

\* each procedure, names from /, a line with an argument missing, a word that is none
TypedLines ==
    {Line("ls", <<Name(<<".">>)>>), Line("read", <<Name(<<"f">>), 0, 2>>),
     Line("write", <<Name(<<"f">>), <<"b">>, 1, 1>>),
     Line("cd", <<Name(<<"d", "e">>)>>), Line("getattr", <<Name(<<"f">>)>>),
     Line("setattr", <<Name(<<".">>), <<4, 0, 0>>>>),
     Line("setattr", <<FromRoot(<<>>), <<7, 0, 0>>>>),
     Line("remove", <<Name(<<"f">>)>>), Line("remove", <<Name(<<"d">>)>>),
     Line("remove", <<Name(<<"..", "e">>)>>), Line("mkdir", <<Name(<<"e">>), <<7, 0, 0>>>>),
     Line("touch", <<Name(<<"f">>), <<6, 4, 0>>>>), Line("touch", <<Name(<<"f">>)>>),
     Line("dir", <<>>), Line("exit", <<>>)}

TypedSums ==
    {arraysum_1(<<1, 2>>), arraysum_1(<<2>>), addition_1(<<1, 2>>), addition_1(<<>>),
     square_calc_1(3)}

\* a directory with a file, and a directory with an empty one
SmallTree ==
    (<<>> :> [kind |-> "dir", data |-> <<>>, mode |-> 448])
     @@ (<<"f">> :> [kind |-> "file", data |-> <<"a", "c">>, mode |-> 416])
     @@ (<<"d">> :> [kind |-> "dir", data |-> <<>>, mode |-> 448])
     @@ (<<"d", "e">> :> [kind |-> "dir", data |-> <<>>, mode |-> 448])

\* files of up to two words, with and without a last newline
ShortFiles == [words : {<<>>, <<1>>, <<1, 2>>}, newline : BOOLEAN]

ASSUME BoundsAssumption == MaxStarts \in Nat /\ MaxTries \in Nat \ {0}
ASSUME FtpAssumption == \A f \in FtpFiles : f.words \in Seq(Nat) /\ f.newline \in BOOLEAN

\* What the programs for sums ask for is nothing a user of nfs_client.c can type; a name
\* typed is made of strings, and not empty.
ASSUME LinesAssumption ==
    /\ \A l \in SumLines : l.word \in {"arraysum", "add", "square"}
    /\ \A l \in NfsLines : l.word \notin {"arraysum", "add", "square"}
    /\ \A l \in NfsLines : LineKind(l) = "call" =>
           /\ l.args[1].abs \in BOOLEAN /\ l.args[1].parts \in Seq(STRING)
           /\ l.args[1].abs \/ l.args[1].parts # <<>>

\* fs is a tree of files, in which every node but the root lies in a directory.
IsTree(fs) ==
    /\ <<>> \in DOMAIN fs /\ fs[<<>>].kind = "dir"
    /\ \A p \in DOMAIN fs \ {<<>>} : Front(p) \in DOMAIN fs /\ fs[Front(p)].kind = "dir"

ASSUME TreeAssumption ==
    /\ IsTree(Tree) /\ Tree = [p \in DOMAIN Tree |-> Tree[p]]
    /\ \A p \in DOMAIN Tree :
           /\ p \in Seq(STRING) /\ Tree[p].kind \in {"dir", "file"}
           /\ Tree[p] = [kind |-> Tree[p].kind, data |-> Tree[p].data, mode |-> Tree[p].mode]

Files == NewProcess([fs |-> Tree, cwd |-> At(<<>>), fds |-> 0, rbuf |-> <<>>])

AlwaysCall(l) == "call"
NoResults(s) == NoResult

N == INSTANCE Rpc WITH Lines <- NfsLines, Kind <- LineKind, Loops <- TRUE, None <- Null,
                       InitServer <- Files, Boot <- NewProcess, Serve <- nfs_remote_1
S == INSTANCE Rpc WITH Lines <- SumLines, Kind <- AlwaysCall, Loops <- FALSE, None <- Null,
                       InitServer <- NoResult, Boot <- NoResults, Serve <- sums_1,
                       MaxCalls <- MaxSumCalls

T == INSTANCE Ftp WITH
    Files <- FtpFiles, Missing <- Null, Rubbish <- Blank,
    server <- ft_server, client <- ft_client

vars == <<service, rpc, ftp>>

IdleFtp ==
    /\ mode = "active" /\ file = Null /\ ft_server = "off" /\ ft_client = "off"
    /\ control = <<>> /\ linked = FALSE /\ rest = <<>> /\ eof = FALSE /\ buf = Blank
    /\ data = <<>> /\ got = <<>>

Init ==
    \/ service = "nfs" /\ N!Init /\ IdleFtp
    \/ service = "sums" /\ S!Init /\ IdleFtp
    \/ service = "ftp" /\ S!Init /\ T!Init

InNfs == service = "nfs" /\ UNCHANGED <<service, ftp>>
InSums == service = "sums" /\ UNCHANGED <<service, ftp>>
InFtp == service = "ftp" /\ UNCHANGED <<service, rpc>>

Nfs == InNfs /\ N!Next
Sums == InSums /\ S!Next
Transfer == InFtp /\ T!Next
Next == Nfs \/ Sums \/ Transfer

\* the timers of clnt_call run: a stub that waits is not left alone for ever; client and
\* server of ftp go on when they can
FairSpec ==
    /\ Init /\ [][Next]_vars
    /\ \A c \in Clients : WF_vars(InNfs /\ N!Poll(c)) /\ WF_vars(InSums /\ S!Poll(c))
    /\ WF_vars(InFtp /\ T!ServerStep) /\ WF_vars(InFtp /\ T!ClientStep)

\* Stub, network and server together are the service that executes what it is
\* asked any number of times, perhaps after the caller has given up, and answers
\* with the result of one of the call's own executions: a stub never returns the
\* result of another call, whatever is still in flight.
ServeAny(s, l) == IF l \in SumLines THEN sums_1(s, l) ELSE nfs_remote_1(s, l)
BootAny(s) == IF "fs" \in DOMAIN s THEN NewProcess(s) ELSE NoResult
Abstract == INSTANCE AtLeastOnce WITH Lines <- NfsLines \cup SumLines, None <- Null,
                Serve <- ServeAny, Boot <- BootAny, got <- log
ImplementsAtLeastOnce == Abstract!Spec

\* The add and square servers begin each result anew, so that a request that was
\* sent, and executed, again gives the same answer: what the user sees is the sum
\* of the numbers typed, whoever else uses the server.
Exact ==
    \A c \in Clients : \A n \in DOMAIN log[c] :
        /\ asked[c][n].word = "add" /\ log[c][n] # Null => log[c][n] = SumOf(asked[c][n].args)
        /\ asked[c][n].word = "square" /\ log[c][n] # Null => log[c][n] = asked[c][n].args[1] * asked[c][n].args[1]

\* A client that has a server process to itself, and is answered at once, sees the
\* procedures run one after the other, once each: neither the static results nor the
\* datagrams in flight mix its calls.
FirstServer == IF service = "nfs" THEN Files ELSE NoResult
InTurn(c) ==
    LET after[n \in 0 .. Len(asked[c])] ==
            IF n = 0 THEN [server |-> FirstServer, log |-> <<>>]
            ELSE LET t == ServeAny(after[n - 1].server, asked[c][n])
                 IN  [server |-> t.server, log |-> Append(after[n - 1].log, t.res)]
    IN  after[Len(asked[c])]
AloneInOrder ==
    \A c \in Clients : N!Quick(c) => InTurn(c) = [server |-> server, log |-> log[c]]

\* What a user sees is right: sums as above; the calls of a client that were answered at
\* once ran one after the other, and no request more often than it was sent (Rpc); a file
\* is printed in order and without a gap (Ftp).
RightResults ==
    /\ Exact
    /\ N!RunsWithinSent
    /\ AloneInOrder
    /\ service = "nfs" => N!TypeOK
    /\ T!TypeOK /\ T!Exact

\* Executed, in this process, for some client.
Ran(words) == \E c \in Clients : \E n \in DOMAIN asked[c] :
                  asked[c][n].word \in words /\ runs[c][n] # <<>>

\* Only ls and touch leave descriptors behind, one for each execution, and the
\* server crashes only when they have used up the table: read and write close
\* what they open, on every path and however often they are executed.
OnlyListAndTouchLeak ==
    service = "nfs" =>
        /\ server.fds > 0 => Ran({"ls", "touch"})
        /\ gen > 0 /\ ~up => server.fds = MaxFds

\* The tree stays a tree under executions that come twice or late: every node has
\* a directory above it.  The current directory, which all clients share, is one of the
\* tree, or someone's call has removed it and what is left leads back into the tree.
TreeKept ==
    service = "nfs" =>
        /\ IsTree(server.fs)
        /\ server.cwd.path \in DOMAIN server.fs /\ server.fs[server.cwd.path].kind = "dir"
        /\ server.cwd.gone # <<>> => Ran({"remove"})

\* Under executions that come twice or late the server leaks and loses nothing else.
ServerSound == OnlyListAndTouchLeak /\ TreeKept

\* The current directory is one for all clients: once someone has taken the permission to
\* search it, no call by a name that begins there changes a file or leaves the directory,
\* not even by "." or "..", until the server is started again.  A name from / still does.
LockedOut ==
    [][service = "nfs" /\ gen' = gen /\ ~Searchable(server, server.cwd) =>
          \/ server'.fs = server.fs /\ server'.cwd = server.cwd
          \/ \E r \in requests : /\ r.line.args[1].abs
                                 /\ server' = nfs_remote_1(server, r.line).server]_vars

\* What is lost is not made up for: the permission to search the current directory, and
\* a data connection of ftp that was tried before the other side listened.
LostForEver == LockedOut /\ T!MissedForEver

\* Every call returns: answered, or failed after its last transmission.  The clients are
\* alike, so that what holds of one holds of all.
CallReturns == state[c1] = "calling" ~> state[c1] # "calling"

\* Ftp: over a data connection the file arrives whole.
FtpDelivered == T!Delivered
=============================================================================

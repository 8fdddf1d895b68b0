----------------------------- MODULE MCSelect -----------------------------
(***************************************************************************)
(* The programs of select_servers and the older chat servers for TLC.      *)
(* They share nothing: which one runs is chosen at the start, and the      *)
(* variables of the others keep their initial values.  MultiServer has the *)
(* names of its module, the others a prefix.                               *)
(***************************************************************************)
EXTENDS MultiServer

CONSTANTS
    N,              \* clients of a chat
    Cap,            \* lines a FIFO of a chat or of the log holds
    LogServers,     \* servers that write logs
    LogFifos,       \* FIFOs of the log server
    Count,          \* service servers
    Nobody          \* no service server

OneOfEach == [s \in Kinds |-> 1]

VARIABLES
    program,
    ch_user, ch_said, ch_in, ch_out, ch_seen, ch_half, ch_server, ch_readset, ch_msg,
    ch_k,
    se_clientfifo, se_clientfifowrite, se_gotserver, se_status, se_start, se_writer,
    se_client, se_fd, se_got, se_heard, se_asks,
    lo_number, lo_logging, lo_server, lo_local, lo_logno, lo_typed, lo_in, lo_line,
    lo_logfifo, lo_logged,
    re_select, re_user, re_said, re_in, re_out, re_heard, re_server, re_readset, re_readbuf,
    re_to

chat == <<ch_user, ch_said, ch_in, ch_out, ch_seen, ch_half, ch_server, ch_readset,
    ch_msg, ch_k>>
service == <<se_clientfifo, se_clientfifowrite, se_gotserver, se_status, se_start,
    se_writer, se_client, se_fd, se_got, se_heard, se_asks>>
logs == <<lo_number, lo_logging, lo_server, lo_local, lo_logno, lo_typed, lo_in, lo_line,
    lo_logfifo, lo_logged>>
relay == <<re_select, re_user, re_said, re_in, re_out, re_heard, re_server,
    re_readset, re_readbuf, re_to>>

Chat == INSTANCE ChatServer WITH
    MaxSay <- 3, user <- ch_user, said <- ch_said, in <- ch_in,
    out <- ch_out, seen <- ch_seen, half <- ch_half, server <- ch_server,
    readset <- ch_readset, msg <- ch_msg, k <- ch_k
Service == INSTANCE ServiceServer WITH
    clientfifo <- se_clientfifo, clientfifowrite <- se_clientfifowrite,
    gotserver <- se_gotserver, status <- se_status, start <- se_start, writer <- se_writer, client <- se_client,
    fd <- se_fd, got <- se_got, heard <- se_heard, asks <- se_asks
Logs == INSTANCE LogServer WITH
    Servers <- LogServers, Fifos <- LogFifos, MaxLines <- 3, number <- lo_number,
    logging <- lo_logging, server <- lo_server, local <- lo_local, logno <- lo_logno,
    typed <- lo_typed, in <- lo_in, line <- lo_line, logfifo <- lo_logfifo,
    logged <- lo_logged
Relay == INSTANCE ChatRelay WITH
    MaxSay <- 2, select <- re_select, user <- re_user,
    said <- re_said, in <- re_in, out <- re_out, heard <- re_heard,
    server <- re_server, readset <- re_readset, readbuf <- re_readbuf, to <- re_to

allVars == <<program, chat, vars, service, logs, relay>>

AllInit ==
    /\ program \in {"chat", "multi", "service", "logs", "relay"}
    /\ Chat!Init /\ Init /\ Service!Init /\ Logs!Init /\ Relay!Init
    /\ re_select => program = "relay"

InChat == program = "chat" /\ UNCHANGED <<program, vars, service, logs, relay>>
InMulti == program = "multi" /\ UNCHANGED <<program, chat, service, logs, relay>>
InService == program = "service" /\ UNCHANGED <<program, chat, vars, logs, relay>>
InLogs == program = "logs" /\ UNCHANGED <<program, chat, vars, service, relay>>
InRelay == program = "relay" /\ UNCHANGED <<program, chat, vars, service, logs>>

AllNext ==
    \/ InChat /\ Chat!Next
    \/ InMulti /\ Next
    \/ InService /\ Service!Next
    \/ InLogs /\ Logs!Next
    \/ InRelay /\ Relay!Next

\* every process and thread that can go on does: the servers poll, the readers read;
\* users type, leave and start programs as they please
FairSpec ==
    /\ AllInit /\ [][AllNext]_allVars
    /\ WF_allVars(InChat /\ Chat!ServerStep)
    /\ \A c \in Chat!Ids : WF_allVars(InChat /\ Chat!thread_read(c))
    /\ WF_allVars(InMulti /\ MainStep)
    /\ \A c \in Clients : WF_allVars(InMulti /\ (thread_read(c) \/ SetGot(c)))
    /\ WF_allVars(InService /\ Service!thread_read)
    /\ WF_allVars(InService /\ (Service!SeeFlag \/ Service!ClearFlag \/ Service!Give))
    /\ \A c \in Clients :
           WF_allVars(InService /\ (Service!TakeAnswer(c) \/ Service!SetGot(c)))
    /\ WF_allVars(InLogs /\ Logs!Log)
    /\ \A s \in LogServers : WF_allVars(InLogs /\ (Logs!Read(s) \/ Logs!Copy(s)))
    /\ WF_allVars(InRelay /\ Relay!ServerStep)
    /\ \A c \in Chat!Ids : WF_allVars(InRelay /\ Relay!reader(c))

-----------------------------------------------------------------------------
\* ChatServer: every line read reaches every other client once, and all clients see one
\* order without gaps.  ChatRelay: every word reaches the first of the others and nobody
\* else, only select repeats the end of a client that left, and the server ends
\* only when a client is missing.
ChatBroadcast ==
    /\ Chat!TypeOK /\ Chat!SameOrder /\ Chat!Complete
    /\ Relay!TypeOK /\ Relay!FirstHears /\ Relay!Quiet /\ Relay!EndsMissing
\* ServiceServer: no more servers are given than asked for, only the first can get a
\* second client, after someone left, and a request reaches a service server only when
\* answers were swapped.
ServiceAllotted == Service!ServiceAllotted
\* LogServer: the log of a server has no gaps.
LogsNoGaps == Logs!TypeOK /\ Logs!NoGaps
\* Who is stuck stays so: a chat at the FIFO of a client that ended, the client
\* that was refused a server, the server whose log FIFO is never read.
StuckForEver ==
    Chat!StuckForEver /\ Relay!StuckForEver /\ RefusedForEver /\ Logs!UnreadForEver
\* Someone waits to be served: a line of the chat while nobody leaves, a word while all
\* clients are there, a client alone on its FIFO, a client that runs alone, what is typed
\* to the server with FIFO 0.
Waiting ==
    \/ program = "chat" /\ Chat!Undelivered
    \/ program = "relay" /\ Relay!Undelivered
    \/ program = "multi" /\ \E c \in Clients : Pending(c)
    \/ program = "service" /\ \E c \in Clients : Service!Lone(c)
    \/ program = "logs" /\ \E s \in LogServers : Logs!Unlogged(s)
\* They are served in the end, whichever server it is.
Settled == []<>~Waiting
=============================================================================

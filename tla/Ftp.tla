-------------------------------- MODULE Ftp --------------------------------
(***************************************************************************)
(* The file transfers of ftp/active and ftp/passive, one client with one   *)
(* server.  On the control connection the side that will listen for the    *)
(* data connection announces its port; it listens later, after it has      *)
(* closed the control connection, and the other side connects once.  Error *)
(* returns are printed and otherwise ignored.                              *)
(*                                                                         *)
(* The file is sent word by word, 255 bytes each; a word is a number here. *)
(***************************************************************************)
EXTENDS Naturals, Sequences, SequencesExt

CONSTANTS
    Files,       \* contents: words, and whether a newline ends the last one
    Missing,     \* no file of the name the client sends
    Rubbish,     \* what is in a buffer nothing was read into
    MaxPrinted   \* bound on what a client prints once nothing more can come

VARIABLES
    mode,        \* "active": the client listens, or "passive": the server does
    file,        \* the file asked for
    server,      \* what the server does
    client,      \* what the client does
    control,     \* messages on the control connection
    linked,      \* whether the data connection was made
    rest,        \* words the server has not read
    eof,         \* feof(fp)
    buf,         \* the server's buffer
    data,        \* words on the data connection
    got          \* what the client has printed

vars == <<mode, file, server, client, control, linked, rest, eof, buf, data, got>>
reading == <<rest, eof, buf>>
fixed == <<mode, file>>

Init ==
    /\ mode \in {"active", "passive"} /\ file \in Files \cup {Missing}
    /\ server = "off" /\ client = "off" /\ control = <<>> /\ linked = FALSE
    /\ rest = IF file = Missing THEN <<>> ELSE file.words
    /\ eof = FALSE /\ buf = Rubbish /\ data = <<>> /\ got = <<>>

-----------------------------------------------------------------------------
(* The control connection *)

ServerStart ==
    /\ server = "off" /\ server' = "accept"
    /\ UNCHANGED <<fixed, client, control, linked, reading, data, got>>

\* the connection waits in the server's backlog; without a server the next send is a
\* SIGPIPE
ClientStart ==
    /\ client = "off"
    /\ client' = IF server = "accept" THEN "connected" ELSE "ended"
    /\ UNCHANGED <<fixed, server, control, linked, reading, data, got>>

\* active: port and name are sent, and the connection closed
ClientSendsBoth ==
    /\ mode = "active" /\ client = "connected"
    /\ control' = <<"port", "name">> /\ client' = "open"
    /\ UNCHANGED <<fixed, server, linked, reading, data, got>>
ServerReadsBoth ==
    /\ mode = "active" /\ server = "accept" /\ control = <<"port", "name">>
    /\ control' = <<>> /\ server' = "connect"
    /\ UNCHANGED <<fixed, client, linked, reading, data, got>>

\* passive: the server sends the port, the client the name
ServerSendsPort ==
    /\ mode = "passive" /\ server = "accept" /\ client \notin {"off", "ended"}
    /\ control' = <<"port">> /\ server' = "name"
    /\ UNCHANGED <<fixed, client, linked, reading, data, got>>
ClientSendsName ==
    /\ mode = "passive" /\ client = "connected" /\ control = <<"port">>
    /\ control' = <<"name">> /\ client' = "connect"
    /\ UNCHANGED <<fixed, server, linked, reading, data, got>>
ServerReadsName ==
    /\ mode = "passive" /\ server = "name" /\ control = <<"name">>
    /\ control' = <<>> /\ server' = "open"
    /\ UNCHANGED <<fixed, client, linked, reading, data, got>>
\* the client has left before it sent anything: what recv returns is not looked at, and
\* port and name are what was in the buffers
ServerReadsEnd ==
    /\ client = "left"
    /\ \/ mode = "active" /\ server = "accept" /\ control = <<>> /\ server' = "connect"
       \/ mode = "passive" /\ server = "name" /\ control # <<"name">> /\ server' = "open"
    /\ UNCHANGED <<fixed, client, control, linked, reading, data, got>>

-----------------------------------------------------------------------------
(* The data connection *)

ClientListens ==
    /\ mode = "active" /\ client = "open"
    /\ client' = "listening"
    /\ UNCHANGED <<fixed, server, control, linked, reading, data, got>>
ServerListens ==
    /\ mode = "passive" /\ server = "open"
    /\ server' = "listening"
    /\ UNCHANGED <<fixed, client, control, linked, reading, data, got>>

\* one attempt: it fails when nobody listens yet
ServerConnects ==
    /\ server = "connect"
    /\ linked' = (client = "listening")
    /\ server' = IF linked' THEN "fopen" ELSE "unconnected"
    /\ UNCHANGED <<fixed, client, control, reading, data, got>>
ClientConnects ==
    /\ client = "connect"
    /\ linked' = (server = "listening")
    /\ client' = IF linked' THEN "read" ELSE "unconnected"
    /\ UNCHANGED <<fixed, server, control, reading, data, got>>

\* the listening side accepts the connection that was made
ClientAccepts ==
    /\ client = "listening" /\ linked
    /\ client' = "read"
    /\ UNCHANGED <<fixed, server, control, linked, reading, data, got>>
ServerAccepts ==
    /\ server = "listening" /\ linked
    /\ server' = "fopen"
    /\ UNCHANGED <<fixed, client, control, linked, reading, data, got>>

-----------------------------------------------------------------------------
(* The file *)

\* feof of a file that could not be opened is a fault, and the first send on a socket
\* that is not connected a SIGPIPE
FileOpens ==
    /\ server \in {"fopen", "unconnected"}
    /\ server' = IF file # Missing /\ linked THEN "send" ELSE "ended"
    /\ UNCHANGED <<fixed, client, control, linked, reading, data, got>>

\* Mutants of fscanf: the end of the file is noticed one word early, or clears the buffer.
fscanfEarly ==
    IF rest = <<>> THEN eof' = TRUE /\ UNCHANGED <<rest, buf>>
    ELSE buf' = Head(rest) /\ rest' = Tail(rest) /\ eof' = (Len(rest) <= 2)
\* fscanf(fp,"%s",buf): the end of the file is noticed when a word ends there, and
\* after a newline only by the next attempt, which leaves buf as it was
fscanf ==
    IF rest = <<>> THEN eof' = TRUE /\ UNCHANGED <<rest, buf>>
    ELSE buf' = Head(rest) /\ rest' = Tail(rest) /\ eof' = (Len(rest) = 1 /\ ~file.newline)

\* one round of the loop; when the client has left, a send may end the server
Round ==
    /\ server = "send" /\ ~eof
    /\ fscanf
    /\ data' = Append(data, buf')
    /\ \/ server' = IF eof' THEN "sent" ELSE "send"
       \/ client = "left" /\ server' = "ended"
    /\ UNCHANGED <<fixed, client, control, linked, got>>

ClientReads ==
    /\ client = "read" /\ data # <<>>
    /\ got' = Append(got, Head(data)) /\ data' = Tail(data)
    /\ UNCHANGED <<fixed, server, client, control, linked, reading>>

\* what recv returns is not looked at: once the server has ended, or when the connection
\* was never made, the buffer is printed as it is, again and again
NothingComes ==
    \/ client = "unconnected"
    \/ client = "read" /\ server \in {"sent", "ended"}
ClientRepeats ==
    /\ NothingComes /\ data = <<>> /\ Len(got) < MaxPrinted
    /\ got' = Append(got, IF got = <<>> THEN Rubbish ELSE got[Len(got)])
    /\ UNCHANGED <<fixed, server, client, control, linked, reading, data>>

ClientLeaves ==
    /\ client \notin {"off", "left", "ended"}
    /\ client' = "left"
    /\ UNCHANGED <<fixed, server, control, linked, reading, data, got>>

ServerStep ==
    \/ ServerReadsBoth \/ ServerSendsPort \/ ServerReadsName \/ ServerReadsEnd
    \/ ServerListens \/ ServerConnects \/ ServerAccepts \/ FileOpens \/ Round
ClientStep ==
    \/ ClientSendsBoth \/ ClientSendsName \/ ClientListens \/ ClientConnects
    \/ ClientAccepts \/ ClientReads \/ ClientRepeats
Next == ServerStart \/ ClientStart \/ ClientLeaves \/ ServerStep \/ ClientStep

-----------------------------------------------------------------------------
TypeOK ==
    /\ server \in {"off", "accept", "connect", "name", "open", "listening", "fopen",
                   "unconnected", "send", "sent", "ended"}
    /\ client \in {"off", "connected", "open", "connect", "listening", "read",
                   "unconnected", "left", "ended"}
    /\ control \in {<<>>, <<"port">>, <<"name">>, <<"port", "name">>}
    /\ eof \in BOOLEAN /\ linked \in BOOLEAN

\* What ought to come over the data connection, if there is one.
Words == IF linked /\ file # Missing THEN file.words ELSE <<>>

\* The client prints the file from its beginning, in order and without a gap, and then
\* nothing but its last word again; rubbish when no word comes.
Exact ==
    \A i \in DOMAIN got :
        got[i] = IF i <= Len(Words) THEN Words[i]
                 ELSE IF Words = <<>> THEN Rubbish ELSE Words[Len(Words)]

\* Once the data connection stands the file arrives whole, unless the client leaves.
Delivered ==
    server = "send" ~> (got # <<>> /\ IsPrefix(Words, got)) \/ client = "left"

\* The side that listens waits for the one connection that was tried before it did.
Missed ==
    /\ ~linked
    /\ \/ mode = "active" /\ client \in {"open", "listening"}
          /\ server \in {"unconnected", "ended"}
       \/ mode = "passive" /\ client = "unconnected" /\ server \in {"name", "open", "listening"}

\* A connection that came before its listener is never made up for: the client prints
\* no word of the file, and the listener waits for ever.
MissedForEver ==
    [][Missed => got' \in Seq({Rubbish}) /\ (Missed' \/ client' = "left")]_vars
=============================================================================

----------------------------- MODULE NfsServer -----------------------------
(***************************************************************************)
(* rpc/nfs: the nine procedures of nfs_server.c as functions of the state  *)
(* of the server process, and the lines nfs_client.c turns into calls.     *)
(*                                                                         *)
(* The process is one user's: its directory tree, its current directory,   *)
(* its table of descriptors and the static result buffer of nfs_read_1_svc *)
(* are shared by all clients.  A path is the sequence of names below /,    *)
(* where the server is started, a node is [kind, data, mode], and all nodes *)
(* belong to the user.                                                     *)
(* Letters stand for bytes and are copied as they are; the sizes typed are *)
(* those of the data.                                                      *)
(***************************************************************************)
EXTENDS Naturals, Sequences, SequencesExt

CONSTANTS
    MaxFds,     \* descriptors the process can open beside its sockets
    BufSize,    \* letters of the static buffer (1024)
    Blank,      \* the letter of a buffer that was never written
    Null        \* the NULL of a failed call

ASSUME FdsAssumption == MaxFds \in Nat

R == 256
W == 128
X == 64
Has(mode, bit) == (mode \div bit) % 2 = 1

\* the permissions are typed as octal digits
perm_bit(args) == FoldLeft(LAMBDA perm, d : 8 * perm + d, 0, args)

\* the words a user can type, with the number of arguments each one takes
getCommandType ==
    [ls |-> 1, read |-> 3, write |-> 4, cd |-> 1, getattr |-> 1, setattr |-> 2,
     remove |-> 1, mkdir |-> 2, touch |-> 2]

\* what nfs_client.c does with a line: ends, prints a message, or calls
LineKind(l) ==
    IF l.word = "exit" THEN "exit"
    ELSE IF l.word \in DOMAIN getCommandType /\ Len(l.args) = getCommandType[l.word]
    THEN "call" ELSE "usage"

(***************************************************************************)
(* What the kernel does with a name [abs, parts], which the client passes  *)
(* on as it was typed.  It is followed part by part, from / or from the    *)
(* current directory, through directories that may be searched.  It leads  *)
(* to a place: a path, and the removed directories below it that lie       *)
(* between, the deepest first.  A directory that is removed while it is    *)
(* the current one goes on existing without a name.                        *)
(***************************************************************************)
At(p) == [path |-> p, gone |-> <<>>]
NodeAt(s, at) == IF at.gone = <<>> THEN s.fs[at.path] ELSE Head(at.gone)
Searchable(s, at) == NodeAt(s, at).kind = "dir" /\ Has(NodeAt(s, at).mode, X)

\* the directory above; / is above itself
Up(at) ==
    IF at.gone # <<>> THEN [path |-> at.path, gone |-> Tail(at.gone)]
    ELSE At(IF at.path = <<>> THEN <<>> ELSE Front(at.path))
Below(at, part) ==
    CASE part = "."  -> at
      [] part = ".." -> Up(at)
      [] OTHER       -> At(Append(at.path, part))

\* the places one part leads to, at most one; a removed directory has no entries
Enter(s, at, part) ==
    {to \in {Below(at, part)} :
        /\ Searchable(s, at)
        /\ part \in {".", ".."} \/ (at.gone = <<>> /\ to.path \in DOMAIN s.fs)}

\* the places the first n parts lead to
Trail(s, name) ==
    LET to[n \in 0 .. Len(name.parts)] ==
            IF n = 0 THEN {IF name.abs THEN At(<<>>) ELSE s.cwd}
            ELSE UNION {Enter(s, at, name.parts[n]) : at \in to[n - 1]}
    IN  to
Led(s, name, n) == Trail(s, name)[n] # {}
Place(s, name, n) == CHOOSE at \in Trail(s, name)[n] : TRUE

Present(s, name) == Led(s, name, Len(name.parts))
Path(s, name) == Place(s, name, Len(name.parts))
Node(s, name) == NodeAt(s, Path(s, name))
access(s, name, bit) == Present(s, name) /\ Has(Node(s, name).mode, bit)
FdsLeft(s) == s.fds < MaxFds

\* the directory in which the last part of a name is made or removed
Parent(s, name) == Place(s, name, Len(name.parts) - 1)
MayChange(s, name) ==
    /\ name.parts # <<>> /\ Last(name.parts) \notin {".", ".."}
    /\ Led(s, name, Len(name.parts) - 1)
    /\ LET at == Parent(s, name)
       IN  at.gone = <<>> /\ Searchable(s, at) /\ Has(s.fs[at.path].mode, W)
Entry(s, name) == Append(Parent(s, name).path, Last(name.parts))
Entries(s, p) == {q \in DOMAIN s.fs : q # <<>> /\ Front(q) = p}

Put(s, p, node) ==
    [s EXCEPT !.fs = [q \in DOMAIN s.fs \cup {p} |-> IF q = p THEN node ELSE s.fs[q]]]
\* only from the current directory, a removed one is reached
Change(s, at, node) ==
    IF at.gone = <<>> THEN Put(s, at.path, node)
    ELSE [s EXCEPT !.cwd = [path |-> s.cwd.path,
             gone |-> [s.cwd.gone EXCEPT ![Len(s.cwd.gone) - Len(at.gone) + 1] = node]]]
Dropped(s, p) ==
    [s EXCEPT !.fs = [q \in DOMAIN s.fs \ {p} |-> s.fs[q]],
              !.cwd = IF s.cwd.path = p
                      THEN [path |-> Front(p), gone |-> Append(s.cwd.gone, s.fs[p])]
                      ELSE s.cwd]

\* an answer is tagged with its procedure; <<>> stands for the result -1
Answer(s, word, outcome) == [server |-> s, up |-> TRUE, res |-> <<word, outcome>>]
Done(s, word, value) == Answer(s, word, <<value>>)
Failed(s, word) == Answer(s, word, <<>>)
Crashed(s) == [server |-> s, up |-> FALSE, res |-> Null]

\* text written over old from position k + 1 on, blanks in a gap
Overlay(old, k, text) ==
    [i \in 1 .. (IF Len(old) > k + Len(text) THEN Len(old) ELSE k + Len(text)) |->
        IF i \in k + 1 .. k + Len(text) THEN text[i - k]
        ELSE IF i <= Len(old) THEN old[i] ELSE Blank]

(***************************************************************************)
(* The procedures                                                          *)
(***************************************************************************)
\* the directory stream is never closed; opendir without a descriptor gives NULL,
\* which readdir follows
nfs_ls(s, args) ==
    LET at == Path(s, args[1]) IN
    IF ~access(s, args[1], R) \/ Node(s, args[1]).kind # "dir" THEN Failed(s, "ls")
    ELSE IF ~FdsLeft(s) THEN Crashed(s)
    ELSE Done([s EXCEPT !.fds = @ + 1], "ls",
              IF at.gone # <<>> THEN {} ELSE {Last(q) : q \in Entries(s, at.path)})

\* without a descriptor lseek and write fail in turn
nfs_write(s, args) ==
    LET node == Node(s, args[1]) IN
    IF ~access(s, args[1], W) \/ node.kind # "file" \/ ~FdsLeft(s) THEN Failed(s, "write")
    ELSE Done(Change(s, Path(s, args[1]),
                     [node EXCEPT !.data = Overlay(@, args[3], args[2])]),
              "write", args[4])

\* the answer carries the whole static buffer, of which read fills the beginning;
\* a failure is a size of -1, with the buffer of the read before
nfs_read(s, args) ==
    LET node == Node(s, args[1]) IN
    IF ~access(s, args[1], R) \/ node.kind # "file" \/ ~FdsLeft(s)
    THEN Done(s, "read", [size |-> <<>>, buffer |-> s.rbuf])
    ELSE LET text == SubSeq(node.data, args[2] + 1,
                            IF args[2] + args[3] < Len(node.data)
                            THEN args[2] + args[3] ELSE Len(node.data))
             buf == Overlay(s.rbuf, 0, text)
         IN  Done([s EXCEPT !.rbuf = buf], "read", [size |-> <<Len(text)>>, buffer |-> buf])

\* Mutant of nfs_cd: the name is put behind the current path, which nobody searches.
nfs_cdAnyway(s, args) ==
    LET p == (IF args[1].abs THEN <<>> ELSE s.cwd.path) \o args[1].parts IN
    IF p \in DOMAIN s.fs /\ s.fs[p].kind = "dir"
    THEN Done([s EXCEPT !.cwd = At(p)], "cd", 0)
    ELSE Failed(s, "cd")

nfs_cd(s, args) ==
    IF access(s, args[1], X) /\ Node(s, args[1]).kind = "dir"
    THEN Done([s EXCEPT !.cwd = Path(s, args[1])], "cd", 0)
    ELSE Failed(s, "cd")

\* print_perms: the nine permission bits, the owner's first
print_perms(mode) == [i \in 1 .. 9 |-> Has(mode, 2 ^ (9 - i))]

getattr(s, args) ==
    LET node == Node(s, args[1]) IN
    IF ~Present(s, args[1]) THEN Failed(s, "getattr")
    ELSE Done(s, "getattr",
              [kind |-> node.kind, perms |-> print_perms(node.mode), size |-> Len(node.data)])

setattr(s, args) ==
    IF ~Present(s, args[1]) THEN Failed(s, "setattr")
    ELSE Done(Change(s, Path(s, args[1]), [Node(s, args[1]) EXCEPT !.mode = perm_bit(args[2])]),
              "setattr", 0)

\* Mutant of nfs_remove: directories that are not empty are removed too.
nfs_removeAll(s, args) ==
    IF ~MayChange(s, args[1]) \/ Entry(s, args[1]) \notin DOMAIN s.fs THEN Failed(s, "remove")
    ELSE Done(Dropped(s, Entry(s, args[1])), "remove", 0)

nfs_remove(s, args) ==
    LET entry == Entry(s, args[1]) IN
    IF ~MayChange(s, args[1]) \/ entry \notin DOMAIN s.fs \/ Entries(s, entry) # {}
    THEN Failed(s, "remove")
    ELSE Done(Dropped(s, entry), "remove", 0)

nfs_mkdir(s, args) ==
    LET entry == Entry(s, args[1]) IN
    IF ~MayChange(s, args[1]) \/ entry \in DOMAIN s.fs THEN Failed(s, "mkdir")
    ELSE Done(Put(s, entry, [kind |-> "dir", data |-> <<>>, mode |-> perm_bit(args[2])]),
              "mkdir", 0)

\* creat empties a file that exists; the descriptor it returns is never closed
nfs_touch(s, args) ==
    LET opened == [s EXCEPT !.fds = @ + 1] IN
    IF FdsLeft(s) /\ MayChange(s, args[1]) /\ Entry(s, args[1]) \notin DOMAIN s.fs
    THEN Done(Put(opened, Entry(s, args[1]),
                  [kind |-> "file", data |-> <<>>, mode |-> perm_bit(args[2])]), "touch", 0)
    ELSE IF FdsLeft(s) /\ access(s, args[1], W) /\ Node(s, args[1]).kind = "file"
    THEN Done(Change(opened, Path(s, args[1]), [Node(s, args[1]) EXCEPT !.data = <<>>]),
              "touch", 0)
    ELSE Failed(s, "touch")

\* the dispatch of nfs_svc.c
nfs_remote_1(s, l) ==
    CASE l.word = "ls"      -> nfs_ls(s, l.args)
      [] l.word = "write"   -> nfs_write(s, l.args)
      [] l.word = "read"    -> nfs_read(s, l.args)
      [] l.word = "cd"      -> nfs_cd(s, l.args)
      [] l.word = "getattr" -> getattr(s, l.args)
      [] l.word = "setattr" -> setattr(s, l.args)
      [] l.word = "remove"  -> nfs_remove(s, l.args)
      [] l.word = "mkdir"   -> nfs_mkdir(s, l.args)
      [] l.word = "touch"   -> nfs_touch(s, l.args)

\* a new process: the files stay, the descriptors and the buffer are new
NewProcess(s) ==
    [s EXCEPT !.cwd = At(<<>>), !.fds = 0, !.rbuf = [i \in 1 .. BufSize |-> Blank]]
=============================================================================

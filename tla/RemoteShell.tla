------------------------------ MODULE RemoteShell ------------------------------
(***************************************************************************)
(* The remote shell of homework 3: the epoll server                        *)
(* simple_remote_shell_serv.c with its table of clients and their current  *)
(* directories, and its clients simple_remote_shell_clnt.c, which show the *)
(* directory before every command and download, upload or move.            *)
(*                                                                         *)
(* Directories are a chain from the root to the deepest one; a directory   *)
(* is its level.  Of a file only the size is kept, in pieces; what one     *)
(* side writes in one go is one step, what a read takes of it is any part. *)
(* The event loop joins every thread it creates, so that the server does   *)
(* one thing at a time: a handler is one step unless it reads, as GetFile  *)
(* does.  Once the server is down nothing more happens.                    *)
(*                                                                         *)
(* History variables name what the code does not provide for: out_of_order *)
(* and cut for clients that leave, excused for clients whose transfer went *)
(* wrong; a thread "denied" was not given the file or directory it opens.  *)
(* Up to there the promises hold.  where is the directory a client has     *)
(* moved to since it came.                                                 *)
(***************************************************************************)
EXTENDS Integers, SequencesExt, FiniteSetsExt

CONSTANTS Clients, Files,
          Depth, StartLevel,   \* the deepest directory, and the server's own
          Sizes,               \* sizes of the clients' local files
          BUFSIZE, EPOLL_SIZE,
          Disk0,               \* level -> file -> size, when the server starts
          MaxCommands,         \* bound: connections and commands of all users
          None                 \* no client

Levels == 0 .. Depth
Absent == -1

ASSUME ShellAssumption ==
    /\ IsFiniteSet(Clients) /\ None \notin Clients
    /\ Depth \in Nat /\ StartLevel \in Levels
    /\ Sizes \subseteq Nat /\ Sizes # {}
    /\ BUFSIZE \in Nat \ {0}
    /\ MaxCommands \in Nat
    /\ EPOLL_SIZE \in Nat /\ EPOLL_SIZE >= Cardinality(Clients)
    /\ Disk0 \in [Levels -> [Files -> Nat \cup {Absent}]]
    /\ {"none", "..", "sub"} \cap Files = {}

VARIABLES
    client_cnt, client_t_array,
    fd,            \* client -> its descriptor at the server, 0 before accept
    thread,        \* the thread that the event loop waits for
    disk,          \* level -> file -> size
    pc, file, file_len,
    file_t_array,  \* client -> the directory it was shown last
    out,           \* client -> what it has sent
    in,            \* client -> what was sent to it
    alive,         \* the server runs
    commands,      \* how many connections and commands there were
    where,         \* client -> the directory it has moved to
    out_of_order, cut, excused

server == <<client_cnt, client_t_array, fd, thread, disk>>
client == <<pc, file, file_len, file_t_array>>
events == <<out_of_order, cut, excused>>
history == <<where, events>>
vars == <<server, client, out, in, alive, commands, history>>

Item(type, text, size) == [type |-> type, text |-> text, size |-> size]
Request(option, text) == Item(option, text, 0)
Data(n) == [i \in 1 .. n |-> Item("data", "none", 1)]
Joined == [at |-> "loop", client |-> None, file |-> "none", size |-> 0, len |-> 0]

\* CreateArrayFromDirectory opens every name in the server's own directory:
\* the files it finds there too, with the sizes they have there.
Listed(d, level) ==
    {f \in Files : d[level][f] # Absent /\ d[StartLevel][f] # Absent}
Directory(level) ==
    [level |-> level,
     size |-> [f \in Files |->
                IF f \in Listed(disk, level) THEN disk[StartLevel][f] ELSE Absent]]

Gone(c) == pc[c] \in {"left", "reset"}

\* GetStructWithSock takes the first of these.
Found(c) == {i \in 0 .. client_cnt - 1 : client_t_array[i].sock = fd[c]}
GetStructWithSock(c) == Min(Found(c))

\* CreateNewFromDefault
Default(sock) ==
    [sock |-> sock, level |-> StartLevel, names |-> Listed(Disk0, StartLevel)]

Init ==
    /\ client_cnt = 0
    /\ client_t_array = [i \in 0 .. EPOLL_SIZE - 1 |-> Default(0)]
    /\ fd = [c \in Clients |-> 0]
    /\ thread = Joined
    /\ disk = Disk0
    /\ pc = [c \in Clients |-> "away"]
    /\ file = [c \in Clients |-> "none"]
    /\ file_len = [c \in Clients |-> 0]
    /\ file_t_array = [c \in Clients |->
                        [level |-> StartLevel, size |-> [f \in Files |-> Absent]]]
    /\ out = [c \in Clients |-> << >>]
    /\ in = [c \in Clients |-> << >>]
    /\ alive = TRUE /\ commands = 0
    /\ where = [c \in Clients |-> StartLevel]
    /\ out_of_order = FALSE /\ cut = FALSE /\ excused = {}

-----------------------------------------------------------------------------
(* The event loop of the server. *)

Looping == alive /\ thread.at = "loop"

\* A slip: the entry left in the slot by an earlier client is used again.
EntryOfSlot(sock) == [client_t_array[client_cnt] EXCEPT !.sock = sock]

NewEntry(sock) == Default(sock)

\* accept and HandleClientConnection, which the loop joins.
Accept(c) ==
    /\ Looping
    /\ fd[c] = 0 /\ pc[c] # "away"
    /\ LET sock == Min({d \in 1 .. Cardinality(Clients) : \A e \in Clients : fd[e] # d})
       IN  /\ fd' = [fd EXCEPT ![c] = sock]
           /\ client_t_array' = [client_t_array EXCEPT ![client_cnt] = NewEntry(sock)]
    /\ client_cnt' = client_cnt + 1
    /\ UNCHANGED <<thread, disk, client, out, in, alive, history>>

\* A slip: the count is left as it is.
NotCountedOut == client_cnt

CountedOut == client_cnt - 1

\* read finds the end of the stream, or a reset: the client is counted out,
\* its entry stays.
CloseClient(c) ==
    /\ Looping
    /\ fd[c] # 0 /\ Gone(c) /\ out[c] = << >>
    /\ client_cnt' = CountedOut
    /\ fd' = [fd EXCEPT ![c] = 0]
    /\ pc' = [pc EXCEPT ![c] = "away"]
    /\ out_of_order' =
            (out_of_order \/ client_t_array[client_cnt - 1].sock # fd[c])
    /\ UNCHANGED <<client_t_array, thread, disk, file, file_len, file_t_array,
                   out, in, alive, where, cut, excused>>

\* The loop has read a request of client c and waits for its thread.  That it
\* is a request that comes next is the property RequestsFramed.  The rest of
\* one may be any request: it is what the memory of both sides held.
Requested(c, option) ==
    /\ Looping
    /\ fd[c] # 0 /\ out[c] # << >>
    /\ Head(out[c]).type \in {option, "rest"}
    /\ out' = [out EXCEPT ![c] = Tail(@)]

\* The default of HandleClientRequest.
WrongCommand(c) ==
    /\ Requested(c, "rest")
    /\ UNCHANGED <<server, client, in, alive, history>>

\* No entry has the descriptor: a null pointer is followed.
NullEntry(c) ==
    /\ \E option \in {"DOWNLOAD", "MOVEDIR", "SHOW"} : Requested(c, option)
    /\ Found(c) = {}
    /\ alive' = FALSE
    /\ UNCHANGED <<server, client, in, history>>

\* opendir fails, or fopen of a file in the client's list: it may be gone, or
\* closed to the server.  The server ends, by error_handling or a null pointer.
NotOpened(c) ==
    /\ Found(c) # {}
    /\ \E option \in {"DOWNLOAD", "MOVEDIR", "SHOW"} :
        /\ Requested(c, option)
        /\ option = "DOWNLOAD" =>
            Head(out[c]).text \in client_t_array[GetStructWithSock(c)].names
    /\ thread' = [Joined EXCEPT !.at = "denied"]
    /\ alive' = FALSE
    /\ UNCHANGED <<client_cnt, client_t_array, fd, disk, client, in, history>>

\* What is written to a client that is gone may raise SIGPIPE.
Reply(c, items) ==
    IF Gone(c) THEN alive' \in BOOLEAN /\ UNCHANGED in
    ELSE in' = [in EXCEPT ![c] = @ \o items] /\ UNCHANGED alive

\* ShowDir, UpdateDirectory and Send_Directory.
ShowDir(c) ==
    /\ Requested(c, "SHOW") /\ Found(c) # {}
    /\ LET i == GetStructWithSock(c)
           level == client_t_array[i].level
       IN  /\ client_t_array' =
                [client_t_array EXCEPT ![i].names = Listed(disk, level)]
           /\ Reply(c, << [type |-> "directory", directory |-> Directory(level)] >>)
    /\ UNCHANGED <<client_cnt, fd, thread, disk, client, history>>

\* The root is its own parent.  The rest of a request has no name, or none that
\* opendir knows.
Entered(level, name) ==
    CASE name = ".." -> Max({level - 1, 0})
      [] name = "none" -> level
      [] OTHER -> level + 1

\* MoveDir and UpdateDirectory.  That no client moves above the server's own
\* directory is tested against a name that realpath never gives, so that ".."
\* leads there.  A directory that is not there ends the server.
MoveDir(c) ==
    /\ Requested(c, "MOVEDIR") /\ Found(c) # {}
    /\ LET i == GetStructWithSock(c)
           level == Entered(client_t_array[i].level, Head(out[c]).text)
       IN  IF level \notin Levels THEN alive' = FALSE /\ UNCHANGED client_t_array
           ELSE /\ client_t_array' = [client_t_array EXCEPT
                        ![i].level = level, ![i].names = Listed(disk, level)]
                /\ UNCHANGED alive
    /\ UNCHANGED <<client_cnt, fd, thread, disk, client, in, history>>

\* The client will not receive what it was told it would.
NotAsShown(c, sent) == sent = 0 \/ sent # file_t_array[c].size[file[c]]

\* SearchFile in the client's directory, fopen in the server's own.  Nothing is
\* sent when the file is not found.
SendFile(c) ==
    /\ Requested(c, "DOWNLOAD") /\ Found(c) # {}
    /\ LET f == Head(out[c]).text
           sent == IF f \in client_t_array[GetStructWithSock(c)].names
                   THEN disk[StartLevel][f] ELSE 0
       IN  /\ IF sent = 0 THEN UNCHANGED <<in, alive>> ELSE Reply(c, Data(sent))
           /\ excused' = IF NotAsShown(c, sent) THEN excused \cup {c} ELSE excused
    /\ UNCHANGED <<server, client, where, out_of_order, cut>>

GetFile(c) ==
    /\ Requested(c, "UPLOAD")
    /\ thread' = [Joined EXCEPT !.at = "info", !.client = c]
    /\ UNCHANGED <<client_cnt, client_t_array, fd, disk, client, in, alive, history>>

\* GetFile reads the description of the file, or what is there in its place:
\* a request, shorter, and the size is what the memory held.  The name may be
\* that of a directory, or of a file that the server may not write.
ReadInfo(c) ==
    /\ alive /\ thread.at = "info" /\ thread.client = c /\ out[c] # << >>
    /\ IF Found(c) = {} THEN alive' = FALSE /\ UNCHANGED thread
       ELSE /\ \E size \in IF Head(out[c]).type = "file_t"
                            THEN {Head(out[c]).size} ELSE Sizes,
                  at \in {"data", "denied"} :
                thread' = [thread EXCEPT !.at = at, !.size = size,
                                         !.file = Head(out[c]).text]
            /\ UNCHANGED alive
    /\ out' = [out EXCEPT ![c] = Tail(@)]
    /\ UNCHANGED <<client_cnt, client_t_array, fd, disk, client, in, history>>

\* The file is closed and the thread joined.  A file that no client knows by
\* name is not kept.
Store(c, len) ==
    /\ disk' = [disk EXCEPT ![client_t_array[GetStructWithSock(c)].level] =
                    [f \in Files |-> IF f = thread.file THEN len ELSE @[f]]]
    /\ thread' = Joined

\* A slip: one read is taken for the whole file.
ReceivedSome(len) == len > 0

ReceivedAll(len) == len >= thread.size

\* Whatever has arrived is taken for data, the next request of a client that
\* has not waited long enough included, or as much of it as the buffer holds.
ReadData(c) ==
    /\ alive /\ thread.at = "data" /\ thread.client = c
    /\ \E n \in 1 .. Min({Len(out[c]), BUFSIZE}),
          rest \in {<< >>, << Request("rest", "none") >>} :
        LET len == thread.len + n
        IN  /\ rest # << >> => out[c][n].type # "data"
            /\ out' = [out EXCEPT ![c] = rest \o SubSeq(@, n + 1, Len(@))]
            /\ IF ReceivedAll(len) THEN Store(c, len)
               ELSE thread' = [thread EXCEPT !.len = len] /\ UNCHANGED disk
            /\ excused' = IF \E i \in 1 .. n : out[c][i].type # "data"
                          THEN excused \cup {c} ELSE excused
    /\ UNCHANGED <<client_cnt, client_t_array, fd, client, in, alive,
                   where, out_of_order, cut>>

\* What is written to a file that was not opened ends the server, and so does
\* closing it.
WriteNowhere(c) ==
    /\ alive /\ thread.at = "denied" /\ thread.client = c
    /\ out[c] # << >> \/ Gone(c)
    /\ alive' = FALSE
    /\ UNCHANGED <<server, client, out, in, history>>

\* GetFile reads the end of the stream; a reset ends the server.  Without a
\* description the name of the file is what the memory held: it may be
\* impossible to open, and closing it then ends the server.
ReadEnd(c) ==
    /\ alive /\ thread.at \in {"info", "data"} /\ thread.client = c
    /\ Gone(c) /\ out[c] = << >>
    /\ IF thread.at = "data" THEN Store(c, thread.len) /\ alive' = (pc[c] = "left")
       ELSE /\ alive' \in (IF Found(c) # {} /\ pc[c] = "left" THEN BOOLEAN ELSE {FALSE})
            /\ thread' = Joined /\ UNCHANGED disk
    /\ UNCHANGED <<client_cnt, client_t_array, fd, client, out, in, history>>

-----------------------------------------------------------------------------
(* A client. *)

Connect(c) ==
    /\ alive /\ pc[c] = "away"
    /\ pc' = [pc EXCEPT ![c] = "show"]
    /\ out' = [out EXCEPT ![c] = << >>]
    /\ in' = [in EXCEPT ![c] = << >>]
    /\ where' = [where EXCEPT ![c] = StartLevel]
    /\ excused' = excused \ {c}
    /\ UNCHANGED <<server, file, file_len, file_t_array, alive, out_of_order, cut>>

Send(c, items) == out' = [out EXCEPT ![c] = @ \o items]

\* Request_Directory
Show(c) ==
    /\ alive /\ pc[c] = "show"
    /\ Send(c, << Request("SHOW", "none") >>)
    /\ pc' = [pc EXCEPT ![c] = "count"]
    /\ UNCHANGED <<server, file, file_len, file_t_array, in, alive, history>>

\* Receive_File_Count and Receive_Files; rest of a file is taken for a count.
ReceiveDirectory(c) ==
    /\ alive /\ pc[c] = "count" /\ in[c] # << >>
    /\ IF Head(in[c]).type = "directory"
       THEN /\ file_t_array' = [file_t_array EXCEPT ![c] = Head(in[c]).directory]
            /\ pc' = [pc EXCEPT ![c] = "prompt"]
       ELSE pc' = [pc EXCEPT ![c] = "garbled"] /\ UNCHANGED file_t_array
    /\ in' = [in EXCEPT ![c] = Tail(@)]
    /\ UNCHANGED <<server, file, file_len, out, alive, history>>

\* Do_Client_Request: r, or a command that is refused.
Refresh(c) ==
    /\ alive /\ pc[c] = "prompt"
    /\ pc' = [pc EXCEPT ![c] = "show"]
    /\ UNCHANGED <<server, file, file_len, file_t_array, out, in, alive, history>>

\* A slip: the directory need not be there.
AnyDirectory(c) == {"..", "sub"}

\* Find_Dir_Index
Directories(c) == IF file_t_array[c].level < Depth THEN {"..", "sub"} ELSE {".."}

Move(c) ==
    /\ alive /\ pc[c] = "prompt"
    /\ \E name \in Directories(c) :
        /\ Send(c, << Request("MOVEDIR", name) >>)
        /\ where' = [where EXCEPT ![c] = Entered(@, name)]
    /\ pc' = [pc EXCEPT ![c] = "show"]
    /\ UNCHANGED <<server, file, file_len, file_t_array, in, alive, events>>

\* Find_File_Index, and the request.
Download(c) ==
    /\ alive /\ pc[c] = "prompt"
    /\ \E f \in {g \in Files : file_t_array[c].size[g] # Absent} :
        /\ Send(c, << Request("DOWNLOAD", f) >>)
        /\ file' = [file EXCEPT ![c] = f]
    /\ file_len' = [file_len EXCEPT ![c] = 0]
    /\ pc' = [pc EXCEPT ![c] = "download"]
    /\ UNCHANGED <<server, file_t_array, in, alive, history>>

\* The process is gone.  What it has sent is lost if it leaves something unread.
Vanish(c) ==
    /\ pc' = [pc EXCEPT ![c] = IF in[c] = << >> THEN "left" ELSE "reset"]
    /\ out' = IF in[c] = << >> THEN out ELSE [out EXCEPT ![c] = << >>]

\* A slip: one read is taken for the whole file.
DownloadedSome(c) == file_len'[c] > 0

\* Another one: it waits for more than it was told.
DownloadedMore(c) == file_len'[c] > file_t_array[c].size[file[c]]

Downloaded(c) == file_len'[c] >= file_t_array[c].size[file[c]]

\* A read of Download_File.  The progress of a file of size 0 ends the client.
DownloadData(c) ==
    /\ alive /\ pc[c] = "download"
    /\ \E n \in 1 .. Min({Len(in[c]), BUFSIZE}) :
        /\ in' = [in EXCEPT ![c] = SubSeq(@, n + 1, Len(@))]
        /\ file_len' = [file_len EXCEPT ![c] = @ + n]
    /\ IF file_t_array[c].size[file[c]] = 0
       THEN /\ pc' = [pc EXCEPT ![c] = IF in'[c] = << >> THEN "left" ELSE "reset"]
            /\ cut' = TRUE
       ELSE /\ pc' = IF Downloaded(c) THEN [pc EXCEPT ![c] = "show"] ELSE pc
            /\ UNCHANGED cut
    /\ UNCHANGED <<server, file, file_t_array, out, alive, where, out_of_order,
                   excused>>

\* The request is sent before it is known whether there is such a file.
Upload(c) ==
    /\ alive /\ pc[c] = "prompt"
    /\ \E f \in Files :
        /\ Send(c, << Request("UPLOAD", f) >>)
        /\ file' = [file EXCEPT ![c] = f]
    /\ pc' = [pc EXCEPT ![c] = "upload"]
    /\ UNCHANGED <<server, file_len, file_t_array, in, alive, history>>

UploadMissing(c) ==
    /\ alive /\ pc[c] = "upload"
    /\ pc' = [pc EXCEPT ![c] = "show"]
    /\ excused' = excused \cup {c}
    /\ UNCHANGED <<server, file, file_len, file_t_array, out, in, alive,
                   where, out_of_order, cut>>

\* Upload_File: the description and the data.  The progress of an empty file
\* ends the client after the description.
UploadFile(c) ==
    /\ alive /\ pc[c] = "upload"
    /\ \E size \in Sizes :
        /\ Send(c, << Item("file_t", file[c], size) >> \o Data(size))
        /\ pc' = [pc EXCEPT ![c] = IF size = 0 THEN "left" ELSE "show"]
        /\ cut' = (cut \/ size = 0)
    /\ UNCHANGED <<server, file, file_len, file_t_array, in, alive, where,
                   out_of_order, excused>>

Quit(c) ==
    /\ alive /\ pc[c] = "prompt"
    /\ Vanish(c)
    /\ UNCHANGED <<server, file, file_len, file_t_array, in, alive, history>>

\* The user interrupts a client anywhere else.
Interrupt(c) ==
    /\ alive /\ pc[c] \in {"show", "count", "download", "upload", "garbled"}
    /\ Vanish(c)
    /\ cut' = TRUE
    /\ UNCHANGED <<server, file, file_len, file_t_array, in, alive, where,
                   out_of_order, excused>>

-----------------------------------------------------------------------------
ServerStep(c) ==
    /\ \/ Accept(c) \/ CloseClient(c) \/ WrongCommand(c) \/ NullEntry(c)
       \/ NotOpened(c) \/ ShowDir(c) \/ MoveDir(c) \/ SendFile(c) \/ GetFile(c)
       \/ ReadInfo(c) \/ ReadData(c) \/ WriteNowhere(c) \/ ReadEnd(c)
    /\ UNCHANGED commands

ClientStep(c) ==
    /\ \/ Show(c) \/ ReceiveDirectory(c) \/ DownloadData(c) \/ UploadMissing(c)
       \/ UploadFile(c)
    /\ UNCHANGED commands

Command(c) ==
    /\ commands < MaxCommands
    /\ commands' = commands + 1
    /\ Connect(c) \/ Move(c) \/ Download(c) \/ Upload(c)

UserStep(c) ==
    \/ Command(c)
    \/ (Refresh(c) \/ Quit(c) \/ Interrupt(c)) /\ UNCHANGED commands

Next == \E c \in Clients : ServerStep(c) \/ ClientStep(c) \/ UserStep(c)

Spec == Init /\ [][Next]_vars

\* epoll_wait returns all clients that have something to read, so that the loop
\* comes to each of them again and again.  Users need not do anything.
FairSpec ==
    /\ Spec
    /\ \A c \in Clients : SF_vars(ServerStep(c)) /\ WF_vars(ClientStep(c))

-----------------------------------------------------------------------------
(* Properties. *)

ToServer == {"SHOW", "MOVEDIR", "DOWNLOAD", "UPLOAD", "file_t", "data", "rest"}
Sizes0 == Nat \cup {Absent}
DirectoryType == [level : Levels, size : [Files -> Sizes0]]

TypeOK ==
    /\ client_cnt \in 0 .. Cardinality(Clients)
    /\ client_t_array \in [0 .. EPOLL_SIZE - 1 ->
            [sock : 0 .. Cardinality(Clients), level : Levels, names : SUBSET Files]]
    /\ fd \in [Clients -> 0 .. Cardinality(Clients)]
    /\ thread \in [at : {"loop", "info", "data", "denied"}, client : Clients \cup {None},
                   file : Files \cup {"none", "..", "sub"}, size : Nat, len : Nat]
    /\ disk \in [Levels -> [Files -> Sizes0]]
    /\ pc \in [Clients -> {"away", "show", "count", "prompt", "download", "upload",
                           "garbled", "left", "reset"}]
    /\ file \in [Clients -> Files \cup {"none"}]
    /\ file_len \in [Clients -> Nat]
    /\ file_t_array \in [Clients -> DirectoryType]
    /\ \A c \in Clients :
        /\ \A i \in 1 .. Len(out[c]) : out[c][i].type \in ToServer
        /\ \A i \in 1 .. Len(in[c]) : in[c][i].type \in {"directory", "data"}
    /\ alive \in BOOLEAN /\ commands \in 0 .. MaxCommands
    /\ where \in [Clients -> Nat]
    /\ out_of_order \in BOOLEAN /\ cut \in BOOLEAN /\ excused \subseteq Clients

\* Every connected client has one entry of its own in the table, found under
\* its descriptor: at its prompt it is where its own moves have led it, and
\* shown that directory, also above the server's own (NeverAboveStart).  Until a
\* client leaves that is not the last one in the table: its removal takes the
\* last one out of reach.
OwnDirectory ==
    \/ out_of_order
    \/ \A c \in Clients : fd[c] # 0 =>
        /\ Cardinality(Found(c)) = 1
        /\ pc[c] = "prompt" =>
            LET entry == client_t_array[GetStructWithSock(c)]
            IN  /\ entry.level = where[c]
                /\ file_t_array[c].level = where[c]
                /\ entry.names = {f \in Files : file_t_array[c].size[f] # Absent}

\* "Cannot move higher than where the server is at", says MoveDir.
NeverAboveStart ==
    \A i \in 0 .. client_cnt - 1 : client_t_array[i].level >= StartLevel

\* The server's loop never finds data or the description of a file where it
\* reads a request, however the data of an upload was cut up by its reads.  But
\* it finds the rest of a request whose beginning was taken for data.
RequestsFramed ==
    \A c \in Clients :
        thread.client # c /\ out[c] # << >> =>
            \/ Head(out[c]).type \in {"SHOW", "MOVEDIR", "DOWNLOAD", "UPLOAD"}
            \/ Head(out[c]).type = "rest" /\ c \in excused

\* A client never takes the rest of a file for the count of a directory,
\* unless the file has grown since it was shown.
RepliesFramed ==
    \A c \in Clients : pc[c] = "garbled" => c \in excused

\* The server goes on, unless a client left before a later one, or in the
\* middle of a command: then a null pointer or SIGPIPE ends it for all.  And so
\* does a file or a directory that it is not allowed to open.
StaysUp == alive \/ out_of_order \/ cut \/ thread.at = "denied"

\* After every command the directory is shown again.  Except to a client whose
\* file was not as shown, or empty, or that offered a file it does not have, or
\* sent its next request too early; and to all while the server reads from such
\* a client.
ShownAgain ==
    \A c \in Clients :
        []<>(\/ pc[c] \notin {"show", "count", "download", "upload"}
             \/ ~alive \/ out_of_order
             \/ c \in excused \/ thread.client \in excused)

=============================================================================

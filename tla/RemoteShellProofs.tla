--------------------------- MODULE RemoteShellProofs ---------------------------
(***************************************************************************)
(* What the remote shell of homework 3 gives its clients, for any number   *)
(* of clients, files, levels and commands, all sizes and buffers.          *)
(*                                                                         *)
(* The argument: what a client has sent and the server has not read yet is *)
(* always a tail of one command and the request that follows it, and which *)
(* tail depends on what the client waits for and on what the server's      *)
(* thread still reads; what was sent to the client is what it waits for.   *)
(* As long as clients leave the table from its end, the connected clients  *)
(* and the entries in use belong together one to one.                      *)
(***************************************************************************)
EXTENDS RemoteShell, FiniteSetTheorems, WellFoundedInduction, TLAPS

Texts == Files \cup {"none", "..", "sub"}
Entries == [sock : 0 .. Cardinality(Clients), level : Levels, names : SUBSET Files]

ToServerItems == [type : ToServer, text : Texts, size : Nat]

ToClientItems ==
    [type : {"directory"}, directory : DirectoryType]
        \cup [type : {"data"}, text : {"none"}, size : {1}]

ServerTypes ==
    /\ client_cnt \in Nat
    /\ client_t_array \in [0 .. EPOLL_SIZE - 1 -> Entries]
    /\ fd \in [Clients -> 0 .. Cardinality(Clients)]
    /\ thread \in [at : {"loop", "info", "data", "denied"}, client : Clients \cup {None},
                   file : Texts, size : Nat, len : Nat]
    /\ disk \in [Levels -> [Files -> Sizes0]]

ClientTypes ==
    /\ pc \in [Clients -> {"away", "show", "count", "prompt", "download", "upload",
                           "garbled", "left", "reset"}]
    /\ file \in [Clients -> Files \cup {"none"}]
    /\ file_len \in [Clients -> Nat]
    /\ file_t_array \in [Clients -> DirectoryType]
    /\ where \in [Clients -> Nat]

StreamTypes ==
    /\ out \in [Clients -> Seq(ToServerItems)]
    /\ in \in [Clients -> Seq(ToClientItems)]

EventTypes ==
    /\ alive \in BOOLEAN /\ out_of_order \in BOOLEAN /\ cut \in BOOLEAN
    /\ excused \subseteq Clients

Types == ServerTypes /\ ClientTypes /\ StreamTypes /\ EventTypes

Connected == {c \in Clients : fd[c] # 0}

\* As many entries are in use as clients are connected, each of them with a
\* descriptor of its own.
CountInv ==
    /\ client_cnt = Cardinality(Connected)
    /\ \A c, d \in Connected : fd[c] = fd[d] => c = d
    /\ \A c \in Connected : pc[c] # "away"

\* Entry i of the table is the one of client c.
Own(c, i) ==
    /\ i \in 0 .. client_cnt - 1 /\ client_t_array[i].sock = fd[c]
    /\ \A j \in 0 .. client_cnt - 1 : client_t_array[j].sock = fd[c] => j = i

\* Entries in use and connected clients belong together.
TableInv ==
    out_of_order \/
        /\ \A c \in Connected : \E i \in 0 .. client_cnt - 1 : Own(c, i)
        /\ \A i \in 0 .. client_cnt - 1 :
            \E c \in Connected : client_t_array[i].sock = fd[c]

ThreadInv ==
    /\ thread.at = "loop" => thread = Joined
    /\ thread.at \in {"info", "data"} => thread.client \in Connected
    /\ thread.at = "denied" => thread.client \in Connected \cup {None}
    /\ thread.at = "info" => thread.len = 0
    /\ thread.at = "data" => Found(thread.client) # {}

-----------------------------------------------------------------------------
(* What a client has sent and the server has not read. *)

\* k pieces of a file, and the request for the directory unless it is to come.
DataThenShow(q, k) ==
    /\ Len(q) \in {k, k + 1}
    /\ \A i \in 1 .. k : q[i].type = "data"
    /\ Len(q) = k + 1 => q[k + 1].type = "SHOW"

OnlyShow(q) == Len(q) = 1 /\ q[1].type = "SHOW"

\* The rest of a request whose beginning was taken for data.
OnlyRest(q) == Len(q) = 1 /\ q[1].type = "rest" /\ q[1].text = "none"

\* What follows the request to upload.
Info(q) ==
    \/ q = << >>
    \/ OnlyShow(q)
    \/ Len(q) > 0 /\ q[1].type = "file_t" /\ DataThenShow(Tail(q), q[1].size)

\* What the event loop may find.
Requests(q) ==
    \/ q = << >>
    \/ OnlyShow(q)
    \/ OnlyRest(q)
    \/ /\ Len(q) > 0 /\ q[1].type \in {"MOVEDIR", "DOWNLOAD"}
       /\ Tail(q) = << >> \/ OnlyShow(Tail(q))
    \/ Len(q) > 0 /\ q[1].type = "UPLOAD" /\ Info(Tail(q))

Has(q, type) == \E i \in 1 .. Len(q) : q[i].type = type

Departed == {"left", "reset"}
Waiting == {"count", "garbled"} \cup Departed

\* What the server will read, by what it is doing.
ReadInv(c) ==
    /\ thread.client # c => Requests(out[c])
    /\ alive /\ thread.client = c /\ thread.at = "info" => Info(out[c])
    /\ alive /\ thread.client = c /\ thread.at = "data" =>
        \/ out[c] = << >> /\ pc[c] \in Waiting
        \/ /\ thread.len < thread.size
           /\ DataThenShow(out[c], thread.size - thread.len)

\* What the client has sent, by what it is doing.
SentInv(c) ==
    /\ Has(out[c], "SHOW") => pc[c] \in Waiting
    /\ Has(out[c], "rest") => pc[c] \in Waiting /\ c \in excused
    /\ Has(out[c], "DOWNLOAD") => pc[c] \in {"download"} \cup Departed
    /\ \A i \in 1 .. Len(out[c]) :
        out[c][i].type = "file_t" /\ out[c][i].size = 0 =>
            pc[c] \in Departed /\ Len(out[c]) = i
    /\ pc[c] \in {"away", "prompt"} => out[c] = << >> /\ thread.client # c
    /\ pc[c] = "download" =>
        /\ thread.client # c
        /\ out[c] # << >> =>
            Len(out[c]) = 1 /\ out[c][1].type = "DOWNLOAD" /\ in[c] = << >>
    /\ pc[c] = "upload" =>
        \/ thread.client # c /\ Len(out[c]) = 1 /\ out[c][1].type = "UPLOAD"
        \/ thread.client = c /\ thread.at = "info" /\ out[c] = << >>

\* A directory answers the last request.
AnswerInv(c) ==
    /\ \A i \in 1 .. Len(in[c]) : in[c][i].type = "directory" =>
        /\ pc[c] \in {"count", "garbled", "reset", "away"}
        /\ i = Len(in[c])
        /\ out[c] = << >> /\ thread.client # c
    /\ pc[c] = "prompt" => in[c] = << >>

Live(c) == pc[c] \notin {"away"} \cup Departed
Entry(c) == client_t_array[GetStructWithSock(c)]
Level(c) == IF fd[c] = 0 THEN StartLevel ELSE Entry(c).level
Moving(q) == q # << >> /\ q[1].type = "MOVEDIR"

\* Where the server has the client, and the command still to be read.
LevelInv(c) ==
    out_of_order \/ (Live(c) =>
        /\ where[c] \in Levels
        /\ alive \/ pc[c] = "prompt" =>
            /\ Moving(out[c]) => Entered(Level(c), out[c][1].text) = where[c]
            /\ ~Moving(out[c]) => Level(c) = where[c])

Shows(c, directory) ==
    /\ fd[c] # 0
    /\ directory.level = Entry(c).level
    /\ Entry(c).names = {f \in Files : directory.size[f] # Absent}

\* The directory a client is shown is the one its entry has.
ShownInv(c) ==
    out_of_order \/
        /\ pc[c] = "count" =>
            \A i \in 1 .. Len(in[c]) :
                in[c][i].type = "directory" => Shows(c, in[c][i].directory)
        /\ pc[c] = "prompt" => Shows(c, file_t_array[c])

Told(c) == file_t_array[c].size[file[c]]

\* Nothing comes to a client but the answer it waits for.
ReplyInv(c) ==
    /\ pc[c] = "download" => file[c] \in Files /\ Told(c) \in Nat
    /\ c \notin excused =>
        /\ pc[c] # "garbled"
        /\ pc[c] \in {"show", "prompt", "upload"} => in[c] = << >>
        /\ pc[c] = "count" /\ in[c] # << >> =>
            Len(in[c]) = 1 /\ in[c][1].type = "directory"
        /\ alive /\ pc[c] = "download" =>
            \/ out[c] # << >> /\ in[c] = << >> /\ file_len[c] = 0
            \/ out[c] = << >> /\ file_len[c] + Len(in[c]) = Told(c)
                 /\ file_len[c] < Told(c)

\* A client that is gone without having been cut off has left nothing behind.
CutInv(c) == cut \/ (pc[c] \in Departed => out[c] = << >> /\ thread.client # c)

ClientInv(c) ==
    /\ ReadInv(c) /\ SentInv(c) /\ AnswerInv(c)
    /\ LevelInv(c) /\ ShownInv(c) /\ ReplyInv(c) /\ CutInv(c)

IInv ==
    /\ Types /\ CountInv /\ TableInv /\ ThreadInv
    /\ \A c \in Clients : ClientInv(c)
    /\ StaysUp

-----------------------------------------------------------------------------
(* Queues. *)

\* What is left of a queue after its first items.
LEMMA RestOf ==
    ASSUME NEW S, NEW q \in Seq(S), NEW n \in 0 .. Len(q)
    PROVE  /\ SubSeq(q, n + 1, Len(q)) \in Seq(S)
           /\ Len(SubSeq(q, n + 1, Len(q))) = Len(q) - n
           /\ \A i \in 1 .. Len(q) - n : SubSeq(q, n + 1, Len(q))[i] = q[n + i]
  OBVIOUS

LEMMA TailOf ==
    ASSUME NEW S, NEW q \in Seq(S), q # << >>
    PROVE  /\ Len(q) \in Nat \ {0} /\ Head(q) = q[1]
           /\ Tail(q) \in Seq(S) /\ Len(Tail(q)) = Len(q) - 1
           /\ \A i \in 1 .. Len(Tail(q)) : Tail(q)[i] = q[i + 1]
           /\ Len(q) = 1 => Tail(q) = << >>
  OBVIOUS

LEMMA OneMore ==
    ASSUME NEW S, NEW q \in Seq(S), NEW s \in S
    PROVE  /\ q \o << s >> \in Seq(S) /\ Len(q \o << s >>) = Len(q) + 1
           /\ \A i \in 1 .. Len(q) : (q \o << s >>)[i] = q[i]
           /\ (q \o << s >>)[Len(q) + 1] = s
           /\ q # << >> => Tail(q \o << s >>) = Tail(q) \o << s >>
  OBVIOUS

\* What is written of a file, or nothing.
LEMMA DataOf ==
    ASSUME NEW n \in Int
    PROVE  /\ Data(n) \in Seq([type : {"data"}, text : {"none"}, size : {1}])
           /\ n \in Nat => Len(Data(n)) = n
           /\ \A i \in 1 .. Len(Data(n)) : Data(n)[i].type = "data"
  <1> DEFINE T == [type : {"data"}, text : {"none"}, size : {1}]
             piece == [type |-> "data", text |-> "none", size |-> 1]
  <1>1. piece \in T /\ piece.type = "data"
    OBVIOUS
  <1>2. \A m \in Nat : Data(m) = [i \in 1 .. m |-> piece]
    BY DEF Data, Item
  <1>3. PICK m \in Nat : Data(n) = Data(m) /\ (n \in Nat => m = n)
    <2>1. n \notin Nat => 1 .. n = 1 .. 0
      OBVIOUS
    <2> QED BY <2>1 DEF Data
  <1> HIDE DEF T, piece
  <1>4. Data(m) \in Seq(T) /\ Len(Data(m)) = m
    BY <1>1, <1>2
  <1>5. \A i \in 1 .. m : Data(m)[i] = piece
    BY <1>2
  <1>6. Data(n) \in Seq(T) /\ (n \in Nat => Len(Data(n)) = n)
    BY <1>3, <1>4
  <1>7. \A i \in 1 .. Len(Data(n)) : Data(n)[i] = piece
    BY <1>3, <1>4, <1>5
  <1>8. \A i \in 1 .. Len(Data(n)) : Data(n)[i].type = "data"
    BY <1>1, <1>7
  <1> QED BY <1>6, <1>8 DEF T

LEMMA DataRest ==
    ASSUME NEW q \in Seq(ToServerItems), NEW k \in Nat, DataThenShow(q, k),
           NEW n \in 1 .. Len(q), n <= k
    PROVE  DataThenShow(SubSeq(q, n + 1, Len(q)), k - n)
  <1>1. PICK l \in Nat : l = Len(q)
    OBVIOUS
  <1>2. PICK r :
            /\ r = SubSeq(q, n + 1, Len(q)) /\ Len(r) = l - n
            /\ \A i \in 1 .. l - n : r[i] = q[n + i]
    <2>1. n \in 0 .. Len(q)
      OBVIOUS
    <2>2. /\ Len(SubSeq(q, n + 1, Len(q))) = l - n
          /\ \A i \in 1 .. l - n : SubSeq(q, n + 1, Len(q))[i] = q[n + i]
      BY <1>1, <2>1, RestOf
    <2> QED BY <2>2
  <1>3. l \in {k, k + 1} /\ l - n \in {k - n, k - n + 1}
    BY <1>1 DEF DataThenShow
  <1>4. ASSUME NEW i \in 1 .. k - n PROVE r[i].type = "data"
    <2>1. i \in 1 .. l - n /\ n + i \in 1 .. k
      BY <1>3
    <2> QED BY <1>2, <2>1 DEF DataThenShow
  <1>5. l - n = k - n + 1 => r[k - n + 1].type = "SHOW"
    BY <1>1, <1>2, <1>3 DEF DataThenShow
  <1> QED BY <1>2, <1>3, <1>4, <1>5 DEF DataThenShow

LEMMA ShowAfterData ==
    ASSUME NEW q \in Seq(ToServerItems), NEW k \in Nat, DataThenShow(q, k),
           ~Has(q, "SHOW"), NEW s \in ToServerItems, s.type = "SHOW"
    PROVE  DataThenShow(q \o << s >>, k)
  <1>1. Len(q) = k
    BY DEF DataThenShow, Has
  <1> QED BY <1>1, OneMore DEF DataThenShow

LEMMA ShowAfterInfo ==
    ASSUME NEW q \in Seq(ToServerItems), Info(q),
           ~Has(q, "SHOW"), NEW s \in ToServerItems, s.type = "SHOW"
    PROVE  Info(q \o << s >>)
  <1>1. CASE q = << >>
    BY <1>1, OneMore DEF Info, OnlyShow
  <1>2. CASE q # << >>
    <2>1. q[1].type = "file_t" /\ DataThenShow(Tail(q), q[1].size)
      BY <1>2 DEF Info, OnlyShow, Has
    <2>2. Tail(q) \in Seq(ToServerItems) /\ ~Has(Tail(q), "SHOW")
      BY <1>2, TailOf DEF Has
    <2>3. q[1] \in ToServerItems
      BY <1>2
    <2>4. q[1].size \in Nat
      BY <2>3 DEF ToServerItems
    <2>5. /\ Len(q \o << s >>) > 0 /\ (q \o << s >>)[1] = q[1]
          /\ Tail(q \o << s >>) = Tail(q) \o << s >>
      BY <1>2, OneMore
    <2>6. DataThenShow(Tail(q) \o << s >>, q[1].size)
      BY <2>1, <2>2, <2>4, ShowAfterData
    <2> QED BY <2>1, <2>6, <2>5 DEF Info
  <1> QED BY <1>1, <1>2

LEMMA ShowAfterRequest ==
    ASSUME NEW q \in Seq(ToServerItems), Requests(q),
           ~Has(q, "SHOW"), ~Has(q, "rest"), NEW s \in ToServerItems, s.type = "SHOW"
    PROVE  Requests(q \o << s >>)
  <1>1. CASE q = << >>
    BY <1>1, OneMore DEF Requests, OnlyShow
  <1>2. CASE q # << >>
    <2>1. /\ Tail(q) \in Seq(ToServerItems) /\ ~Has(Tail(q), "SHOW")
          /\ ~OnlyShow(q) /\ ~OnlyRest(q) /\ ~OnlyShow(Tail(q))
      BY <1>2, TailOf DEF Has, OnlyShow, OnlyRest
    <2>2. Info(Tail(q)) => Info(Tail(q) \o << s >>)
      BY <2>1, ShowAfterInfo
    <2>3. Tail(q) = << >> => OnlyShow(Tail(q) \o << s >>)
      <3>1. Len(<< >> \o << s >>) = 1 /\ (<< >> \o << s >>)[1] = s
        OBVIOUS
      <3> QED BY <3>1 DEF OnlyShow
    <2>4. /\ Len(q \o << s >>) > 0 /\ (q \o << s >>)[1] = q[1]
          /\ Tail(q \o << s >>) = Tail(q) \o << s >>
      BY <1>2, OneMore
    <2> QED BY <1>2, <2>1, <2>2, <2>3, <2>4 DEF Requests
  <1> QED BY <1>1, <1>2

\* Nothing moves a client but the next request.
LEMMA NotMoving ==
    ASSUME NEW q \in Seq(ToServerItems)
    PROVE  /\ Info(q) => ~Moving(q) /\ (q # << >> => ~Moving(Tail(q)))
           /\ \A k \in Nat : DataThenShow(q, k) => ~Moving(q)
           /\ Requests(q) /\ q # << >> => ~Moving(Tail(q))
  <1>1. ASSUME NEW r \in Seq(ToServerItems), NEW k \in Nat, DataThenShow(r, k)
        PROVE  ~Moving(r)
    BY <1>1 DEF DataThenShow, Moving
  <1>2. ~Moving(<< >>)
    BY DEF Moving
  <1>3. ASSUME NEW r \in Seq(ToServerItems), Info(r), r # << >>
        PROVE  ~Moving(r) /\ ~Moving(Tail(r))
    <2>1. Tail(r) \in Seq(ToServerItems) /\ r[1] \in ToServerItems
      BY <1>3
    <2>2. r[1].size \in Nat
      BY <2>1 DEF ToServerItems
    <2>3. CASE OnlyShow(r)
      <3>1. Tail(r) = << >>
        BY <2>3, <1>3, TailOf DEF OnlyShow
      <3> QED BY <1>2, <2>3, <3>1 DEF OnlyShow, Moving
    <2>4. CASE r[1].type = "file_t" /\ DataThenShow(Tail(r), r[1].size)
      BY <1>1, <2>1, <2>2, <2>4 DEF Moving
    <2> QED BY <1>3, <2>3, <2>4 DEF Info
  <1>4. ASSUME Requests(q), q # << >> PROVE ~Moving(Tail(q))
    <2>1. Tail(q) \in Seq(ToServerItems)
      BY <1>4
    <2>2. OnlyShow(Tail(q)) => ~Moving(Tail(q))
      BY DEF OnlyShow, Moving
    <2>3. OnlyShow(q) \/ OnlyRest(q) => Tail(q) = << >>
      BY <1>4, TailOf DEF OnlyShow, OnlyRest
    <2>4. Info(Tail(q)) => ~Moving(Tail(q))
      BY <1>2, <1>3, <2>1
    <2> QED BY <1>2, <1>4, <2>2, <2>3, <2>4 DEF Requests
  <1> QED BY <1>1, <1>2, <1>3, <1>4

-----------------------------------------------------------------------------
(* The table. *)

\* A set of numbers from an interval has a smallest one, and Min is it.
LEMMA MinOfInterval ==
    ASSUME NEW m \in Nat, NEW A \in SUBSET (0 .. m), A # {}
    PROVE  Min(A) \in A /\ \A a \in A : Min(A) <= a
  <1> DEFINE T == {0 .. a : a \in A}
  <1>1. T \subseteq FiniteSubsetsOf(0 .. m) /\ T # {}
    <2>1. \A a \in A : 0 .. a \in SUBSET (0 .. m)
      OBVIOUS
    <2>2. \A a \in A : IsFiniteSet(0 .. a)
      BY FS_Interval
    <2> QED BY <2>1, <2>2 DEF FiniteSubsetsOf
  <1>2. PICK x \in T : \A y \in T : <<y, x>> \notin StrictSubsetOrdering(0 .. m)
    <2> HIDE DEF T
    <2>1. IsWellFoundedOn(StrictSubsetOrdering(0 .. m), FiniteSubsetsOf(0 .. m))
      BY FS_StrictSubsetOrderingWellFounded
    <2> QED BY <1>1, <2>1, WFMin
  <1>3. PICK a \in A : x = 0 .. a
    BY <1>2
  <1>4. \A b \in A : a <= b
    <2> SUFFICES ASSUME NEW b \in A, b < a
                 PROVE  FALSE
      OBVIOUS
    <2>1. 0 .. b \in SUBSET (0 .. m) /\ 0 .. a \in SUBSET (0 .. m)
      OBVIOUS
    <2>2. 0 .. b \subseteq 0 .. a /\ a \in 0 .. a /\ a \notin 0 .. b
      OBVIOUS
    <2>3. <<0 .. b, x>> \in StrictSubsetOrdering(0 .. m)
      BY <1>3, <2>1, <2>2 DEF StrictSubsetOrdering
    <2> QED BY <1>2, <2>3
  <1> QED BY <1>4 DEF Min

LEMMA MinOfOne == ASSUME NEW i \in Int PROVE Min({i}) = i
  BY DEF Min

\* The table has room for all clients.
LEMMA Room ==
    ASSUME IInv
    PROVE  /\ Cardinality(Clients) \in Nat /\ EPOLL_SIZE \in Nat
           /\ IsFiniteSet(Connected)
           /\ client_cnt <= Cardinality(Clients) /\ client_cnt <= EPOLL_SIZE
           /\ Connected # Clients => client_cnt < Cardinality(Clients)
  <1>1. IsFiniteSet(Clients) /\ EPOLL_SIZE \in Nat /\ EPOLL_SIZE >= Cardinality(Clients)
    BY ShellAssumption
  <1>2. Cardinality(Clients) \in Nat
    BY <1>1, FS_CardinalityType
  <1>3. Connected \in SUBSET Clients
    BY DEF Connected
  <1>4. /\ IsFiniteSet(Connected) /\ Cardinality(Connected) <= Cardinality(Clients)
        /\ Cardinality(Connected) = Cardinality(Clients) => Connected = Clients
    BY <1>1, <1>3, FS_Subset
  <1>5. client_cnt = Cardinality(Connected) /\ client_cnt \in Nat
    BY DEF IInv, CountInv, Types, ServerTypes
  <1> QED BY <1>1, <1>2, <1>4, <1>5

\* What GetStructWithSock finds is an entry in use.
LEMMA FoundEntry ==
    ASSUME IInv, NEW c \in Clients, Found(c) # {}
    PROVE  /\ GetStructWithSock(c) \in 0 .. client_cnt - 1
           /\ GetStructWithSock(c) \in 0 .. EPOLL_SIZE - 1
           /\ client_t_array[GetStructWithSock(c)].sock = fd[c]
           /\ Entry(c) \in Entries
           /\ Entry(c).level \in Levels /\ Entry(c).names \subseteq Files
  <1>1. client_cnt \in Nat /\ client_cnt <= EPOLL_SIZE /\ EPOLL_SIZE \in Nat
    BY Room DEF IInv, Types, ServerTypes
  <1>2. Found(c) \in SUBSET (0 .. client_cnt)
    BY <1>1 DEF Found
  <1>3. GetStructWithSock(c) \in Found(c)
    BY <1>1, <1>2, MinOfInterval DEF GetStructWithSock
  <1>4. /\ GetStructWithSock(c) \in 0 .. client_cnt - 1
        /\ client_t_array[GetStructWithSock(c)].sock = fd[c]
    BY <1>3 DEF Found
  <1>5. GetStructWithSock(c) \in 0 .. EPOLL_SIZE - 1
    BY <1>1, <1>4
  <1>6. Entry(c) \in Entries
    BY <1>5 DEF Entry, IInv, Types, ServerTypes
  <1> QED BY <1>4, <1>5, <1>6 DEF Entries

LEMMA OwnEntry ==
    ASSUME NEW c, NEW i, Own(c, i), client_cnt \in Nat
    PROVE  Found(c) = {i} /\ Entry(c) = client_t_array[i] /\ GetStructWithSock(c) = i
  <1>1. Found(c) = {i} /\ i \in Int
    BY DEF Own, Found
  <1> QED BY <1>1, MinOfOne DEF GetStructWithSock, Entry

\* The same after a step.
LEMMA OwnEntryAfter ==
    ASSUME NEW c, NEW i, Own(c, i)', client_cnt' \in Nat
    PROVE  Entry(c)' = client_t_array'[i]
  <1>1. /\ i \in 0 .. client_cnt' - 1 /\ client_t_array'[i].sock = fd'[c]
        /\ \A j \in 0 .. client_cnt' - 1 : client_t_array'[j].sock = fd'[c] => j = i
    BY DEF Own
  <1>2. Found(c)' = {i} /\ i \in Int
    <2>1. Found(c)' = {j \in 0 .. client_cnt' - 1 : client_t_array'[j].sock = fd'[c]}
      BY DEF Found
    <2>2. i \in Int
      BY <1>1
    <2>3. {j \in 0 .. client_cnt' - 1 : client_t_array'[j].sock = fd'[c]} = {i}
      BY <1>1
    <2> QED BY <2>1, <2>2, <2>3
  <1>3. GetStructWithSock(c)' = i
    BY <1>2, MinOfOne DEF GetStructWithSock
  <1> QED BY <1>3 DEF Entry

\* accept finds a descriptor that no client has.
LEMMA FreeDescriptor ==
    ASSUME IInv, NEW c \in Clients, fd[c] = 0
    PROVE  LET Free == {d \in 1 .. Cardinality(Clients) : \A e \in Clients : fd[e] # d}
           IN  Min(Free) \in Free
  <1> DEFINE N == Cardinality(Clients)
             Free == {d \in 1 .. N : \A e \in Clients : fd[e] # d}
  <1>1. N \in Nat /\ client_cnt < N /\ IsFiniteSet(Connected)
        /\ Cardinality(Connected) = client_cnt /\ client_cnt \in Nat
    BY Room DEF Connected, IInv, CountInv, Types, ServerTypes
  <1>2. Free # {}
    <2> SUFFICES ASSUME Free = {} PROVE FALSE
      OBVIOUS
    <2> DEFINE f == [d \in 1 .. N |-> CHOOSE e \in Clients : fd[e] = d]
    <2>1. \A d \in 1 .. N : f[d] \in Clients /\ fd[f[d]] = d
      OBVIOUS
    <2>2. f \in [1 .. N -> Connected]
      BY <2>1 DEF Connected
    <2>3. f \in Injection(1 .. N, Connected)
      BY <2>1, <2>2 DEF Injection, IsInjective
    <2> HIDE DEF f, Free, N
    <2>4. IsFiniteSet(1 .. N) /\ Cardinality(1 .. N) = N
      BY <1>1, FS_Interval
    <2>5. Cardinality(1 .. N) <= Cardinality(Connected)
      BY <1>1, <2>3, FS_Injection
    <2> QED BY <1>1, <2>4, <2>5
  <1>3. Free \in SUBSET (0 .. N)
    BY <1>1
  <1> HIDE DEF Free, N
  <1>4. Min(Free) \in Free
    BY <1>1, <1>2, <1>3, MinOfInterval
  <1> QED BY <1>4 DEF Free, N

-----------------------------------------------------------------------------
(* The invariant of a client that a step leaves alone. *)

SameEntry(c) ==
    /\ Level(c)' = Level(c)
    /\ fd[c] # 0 =>
        /\ fd'[c] # 0
        /\ Entry(c)'.level = Entry(c).level /\ Entry(c)'.names = Entry(c).names

SameClient(c) ==
    /\ pc'[c] = pc[c] /\ out'[c] = out[c] /\ in'[c] = in[c]
    /\ file'[c] = file[c] /\ file_len'[c] = file_len[c]
    /\ file_t_array'[c] = file_t_array[c] /\ where'[c] = where[c]
    /\ c \in excused => c \in excused'
    /\ thread.client = c => thread' = thread
    /\ thread.client # c => thread'.client # c

\* Time goes on in one direction.
Onward ==
    (out_of_order => out_of_order') /\ (cut => cut') /\ (alive' => alive)

LEMMA ClientFrame ==
    ASSUME NEW c \in Clients, ClientInv(c), SameClient(c), Onward,
           out_of_order' \/ SameEntry(c)
    PROVE  ClientInv(c)'
  <1> USE DEF SameClient, Onward
  <1>1. ReadInv(c)'
    BY DEF ClientInv, ReadInv
  <1>2. SentInv(c)'
    BY DEF ClientInv, SentInv
  <1>3. AnswerInv(c)'
    BY DEF ClientInv, AnswerInv
  <1>4. LevelInv(c)'
    BY DEF ClientInv, LevelInv, Live, SameEntry
  <1>5. ShownInv(c)'
    BY DEF ClientInv, ShownInv, Shows, SameEntry
  <1>6. ReplyInv(c)'
    BY DEF ClientInv, ReplyInv, Told
  <1>7. CutInv(c)'
    BY DEF ClientInv, CutInv
  <1> QED BY <1>1, <1>2, <1>3, <1>4, <1>5, <1>6, <1>7 DEF ClientInv

-----------------------------------------------------------------------------
\* The constants.
LEMMA Constants ==
    /\ Cardinality(Clients) \in Nat /\ EPOLL_SIZE \in Nat /\ None \notin Clients
    /\ Depth \in Nat /\ StartLevel \in Levels /\ StartLevel \in Nat
    /\ Levels \subseteq Nat /\ BUFSIZE \in Nat \ {0}
    /\ Sizes \subseteq Nat /\ Disk0 \in [Levels -> [Files -> Sizes0]]
  <1>1. Cardinality(Clients) \in Nat
    BY ShellAssumption, FS_CardinalityType
  <1>2. Depth \in Nat /\ StartLevel \in Levels /\ Levels \subseteq Nat
    BY ShellAssumption DEF Levels
  <1>3. Disk0 \in [Levels -> [Files -> Sizes0]]
    BY ShellAssumption DEF Sizes0
  <1> QED BY <1>1, <1>2, <1>3, ShellAssumption

LEMMA InitInv == ASSUME Init PROVE IInv
  <1>1. ServerTypes
    <2>1. Default(0) \in Entries
      BY Constants DEF Default, Entries, Listed
    <2>2. client_t_array \in [0 .. EPOLL_SIZE - 1 -> Entries]
      BY <2>1 DEF Init
    <2>3. client_cnt \in Nat /\ fd \in [Clients -> 0 .. Cardinality(Clients)]
      BY Constants DEF Init
    <2>4. thread \in [at : {"loop", "info", "data", "denied"}, client : Clients \cup {None},
                      file : Texts, size : Nat, len : Nat]
      BY DEF Init, Joined, Texts
    <2>5. disk \in [Levels -> [Files -> Sizes0]]
      BY Constants DEF Init
    <2> QED BY <2>2, <2>3, <2>4, <2>5 DEF ServerTypes
  <1>2. ClientTypes
    <2>1. [level |-> StartLevel, size |-> [f \in Files |-> Absent]] \in DirectoryType
      BY Constants DEF DirectoryType, Sizes0
    <2>2. file_t_array \in [Clients -> DirectoryType]
      BY <2>1 DEF Init
    <2>3. where \in [Clients -> Nat]
      BY Constants DEF Init
    <2> QED BY <2>2, <2>3 DEF Init, ClientTypes
  <1>3. StreamTypes
    BY DEF Init, StreamTypes
  <1>4. EventTypes
    BY DEF Init, EventTypes
  <1>5. Connected = {} /\ client_cnt = 0 /\ ~out_of_order
    BY DEF Init, Connected
  <1>6. CountInv
    BY <1>5, FS_EmptySet DEF CountInv
  <1>7. TableInv
    <2>1. 0 .. client_cnt - 1 = {}
      BY <1>5
    <2> QED BY <1>5, <2>1 DEF TableInv
  <1>8. ThreadInv
    BY DEF Init, ThreadInv, Joined
  <1>9. ASSUME NEW c \in Clients PROVE ClientInv(c)
    <2>1. /\ thread.client # c /\ out[c] = << >> /\ in[c] = << >>
          /\ pc[c] = "away"
      BY Constants DEF Init, Joined
    <2>2. Len(<< >>) = 0 /\ 1 .. 0 = {}
      OBVIOUS
    <2>3. ReadInv(c)
      BY <2>1 DEF ReadInv, Requests
    <2>4. SentInv(c)
      BY <2>1, <2>2 DEF SentInv, Has
    <2>5. AnswerInv(c) /\ ReplyInv(c) /\ CutInv(c)
      BY <2>1, <2>2 DEF AnswerInv, ReplyInv, CutInv, Departed
    <2>6. LevelInv(c) /\ ShownInv(c)
      BY <2>1 DEF LevelInv, Live, ShownInv
    <2> QED BY <2>3, <2>4, <2>5, <2>6 DEF ClientInv
  <1> QED BY <1>1, <1>2, <1>3, <1>4, <1>6, <1>7, <1>8, <1>9
          DEF IInv, Types, StaysUp, Init

LEMMA ItemType ==
    ASSUME NEW type \in ToServer, NEW text \in Texts, NEW size \in Nat
    PROVE  /\ Item(type, text, size) \in ToServerItems
           /\ Item(type, text, size).type = type
           /\ Item(type, text, size).text = text
           /\ Item(type, text, size).size = size
  BY DEF Item, ToServerItems

\* The types of a client's own state.
LEMMA OwnTypes ==
    ASSUME IInv, NEW c \in Clients
    PROVE  /\ out[c] \in Seq(ToServerItems) /\ Len(out[c]) \in Nat
           /\ in[c] \in Seq(ToClientItems) /\ Len(in[c]) \in Nat
           /\ fd[c] \in 0 .. Cardinality(Clients) /\ file_len[c] \in Nat
           /\ file[c] \in Files \cup {"none"} /\ file_t_array[c] \in DirectoryType
           /\ where[c] \in Nat
  <1>1. out[c] \in Seq(ToServerItems) /\ in[c] \in Seq(ToClientItems)
    BY DEF IInv, Types, StreamTypes
  <1>2. fd[c] \in 0 .. Cardinality(Clients)
    BY DEF IInv, Types, ServerTypes
  <1>3. /\ file_len[c] \in Nat /\ file[c] \in Files \cup {"none"}
        /\ file_t_array[c] \in DirectoryType /\ where[c] \in Nat
    BY DEF IInv, Types, ClientTypes
  <1> QED BY <1>1, <1>2, <1>3

-----------------------------------------------------------------------------
(* The steps of a client leave the server and the other clients alone. *)

LEMMA ClientStepInv ==
    ASSUME IInv, NEW c \in Clients, UNCHANGED <<server, alive>>, Onward,
           ClientTypes', StreamTypes', EventTypes',
           \A d \in Clients \ {c} : SameClient(d),
           pc'[c] # "away", ClientInv(c)'
    PROVE  IInv'
  <1>1. UNCHANGED <<client_cnt, client_t_array, fd, thread, disk>>
    BY DEF server
  <1>2. Types'
    BY <1>1 DEF IInv, Types, ServerTypes
  <1>3. Connected' = Connected
    BY <1>1 DEF Connected
  <1>4. \A d \in Clients : Found(d)' = Found(d) /\ SameEntry(d)
    BY <1>1 DEF Found, SameEntry, Level, Entry, GetStructWithSock
  <1>5. CountInv'
    <2>1. \A d \in Connected : pc'[d] # "away"
      BY DEF IInv, CountInv, SameClient, Connected
    <2> QED BY <1>1, <1>3, <2>1 DEF IInv, CountInv
  <1>6. TableInv'
    BY <1>1, <1>3 DEF IInv, TableInv, Own, Onward
  <1>7. ThreadInv'
    <2>1. thread.at = "data" => Found(thread.client)' = Found(thread.client)
      BY <1>1 DEF Found
    <2> QED BY <1>1, <1>3, <2>1 DEF IInv, ThreadInv
  <1>8. \A d \in Clients \ {c} : ClientInv(d)'
    BY <1>4, ClientFrame DEF IInv
  <1>9. StaysUp'
    BY <1>1 DEF IInv, StaysUp, Onward
  <1> QED BY <1>2, <1>5, <1>6, <1>7, <1>8, <1>9 DEF IInv

LEMMA ConnectInv == ASSUME IInv, NEW c \in Clients, Connect(c) PROVE IInv'
  <1> USE DEF Connect, server, client, history, events
  <1>1. ClientTypes' /\ StreamTypes' /\ EventTypes'
    BY ShellAssumption DEF IInv, Types, ClientTypes, StreamTypes, EventTypes, Levels
  <1>2. \A d \in Clients \ {c} : SameClient(d)
    BY DEF IInv, Types, ClientTypes, StreamTypes, EventTypes, SameClient
  <1>3. /\ pc[c] = "away" /\ pc'[c] = "show" /\ out'[c] = << >> /\ in'[c] = << >>
        /\ where'[c] = StartLevel /\ c \notin excused' /\ StartLevel \in Levels
    BY ShellAssumption DEF IInv, Types, ClientTypes, StreamTypes
  <1>4. thread'.client # c /\ fd'[c] = 0
    BY <1>3 DEF IInv, ClientInv, SentInv, CountInv, Connected
  <1>5. ReadInv(c)' /\ SentInv(c)' /\ AnswerInv(c)'
    BY <1>3, <1>4 DEF ReadInv, Requests, SentInv, Has, AnswerInv
  <1>6. LevelInv(c)'
    BY <1>3, <1>4 DEF LevelInv, Level, Moving
  <1>7. ShownInv(c)' /\ ReplyInv(c)' /\ CutInv(c)'
    BY <1>3 DEF ShownInv, ReplyInv, CutInv, Departed
  <1>8. ClientInv(c)'
    BY <1>5, <1>6, <1>7 DEF ClientInv
  <1> QED BY <1>1, <1>2, <1>3, <1>8, ClientStepInv DEF Onward

LEMMA ShowInv == ASSUME IInv, NEW c \in Clients, Show(c) PROVE IInv'
  <1> USE DEF Show, server, client, history, events
  <1>1. PICK s : s = Request("SHOW", "none") /\ s \in ToServerItems /\ s.type = "SHOW"
    <2>1. "SHOW" \in ToServer /\ "none" \in Texts /\ 0 \in Nat
      BY DEF ToServer, Texts
    <2>2. Item("SHOW", "none", 0) \in ToServerItems /\ Item("SHOW", "none", 0).type = "SHOW"
      BY <2>1, ItemType
    <2> QED BY <2>2 DEF Request
  <1>2. PICK q \in Seq(ToServerItems) : q = out[c] /\ q \o << s >> \in Seq(ToServerItems)
    BY <1>1, OwnTypes
  <1>3. /\ pc[c] = "show" /\ pc'[c] = "count" /\ out'[c] = q \o << s >>
        /\ out' = [out EXCEPT ![c] = q \o << s >>]
    BY <1>1, <1>2 DEF Send, IInv, Types, ClientTypes, StreamTypes
  <1>4. ClientTypes' /\ StreamTypes' /\ EventTypes'
    <2>1. StreamTypes'
      BY <1>2, <1>3 DEF IInv, Types, StreamTypes
    <2> QED BY <2>1 DEF IInv, Types, ClientTypes, EventTypes
  <1>5. \A d \in Clients \ {c} : SameClient(d)
    BY <1>3 DEF IInv, Types, ClientTypes, StreamTypes, SameClient
  <1>6. ClientInv(c)
    BY DEF IInv
  <1>7. ~Has(q, "SHOW") /\ ~Has(q, "DOWNLOAD") /\ ~Has(q, "rest")
    BY <1>2, <1>3, <1>6 DEF ClientInv, SentInv, Waiting, Departed
  <1>8. ReadInv(c)'
    <2>1. thread.client # c => Requests(q \o << s >>)
      BY <1>1, <1>2, <1>6, <1>7, ShowAfterRequest DEF ClientInv, ReadInv
    <2>2. alive /\ thread.client = c /\ thread.at = "info" => Info(q \o << s >>)
      BY <1>1, <1>2, <1>6, <1>7, ShowAfterInfo DEF ClientInv, ReadInv
    <2>3. ASSUME alive, thread.client = c, thread.at = "data"
          PROVE  /\ thread.len < thread.size
                 /\ DataThenShow(q \o << s >>, thread.size - thread.len)
      <3>1. /\ thread.len < thread.size
            /\ DataThenShow(q, thread.size - thread.len)
        BY <1>2, <1>3, <1>6, <2>3 DEF ClientInv, ReadInv, Waiting, Departed
      <3>2. thread.size - thread.len \in Nat
        BY <3>1 DEF IInv, Types, ServerTypes
      <3> QED BY <1>1, <1>2, <1>7, <3>1, <3>2, ShowAfterData
    <2> QED BY <1>3, <2>1, <2>2, <2>3 DEF ReadInv
  <1>9. SentInv(c)'
    <2>1. \A i \in 1 .. Len(q \o << s >>) :
            \/ i \in 1 .. Len(q) /\ (q \o << s >>)[i] = q[i]
            \/ (q \o << s >>)[i] = s
      BY <1>1, <1>2
    <2>2. ~Has(q \o << s >>, "DOWNLOAD") /\ ~Has(q \o << s >>, "rest")
      BY <1>1, <1>7, <2>1 DEF Has
    <2>3. \A i \in 1 .. Len(q) : ~(q[i].type = "file_t" /\ q[i].size = 0)
      BY <1>2, <1>3, <1>6 DEF ClientInv, SentInv, Departed
    <2>4. \A i \in 1 .. Len(q \o << s >>) :
            ~((q \o << s >>)[i].type = "file_t" /\ (q \o << s >>)[i].size = 0)
      BY <1>1, <2>1, <2>3
    <2> QED BY <1>3, <2>2, <2>4 DEF SentInv, Waiting
  <1>10. \A i \in 1 .. Len(in[c]) : in[c][i].type # "directory"
    BY <1>3, <1>6 DEF ClientInv, AnswerInv
  <1>11. AnswerInv(c)' /\ ShownInv(c)'
    BY <1>3, <1>10 DEF AnswerInv, ShownInv
  <1>12. LevelInv(c)'
    <2>1. q = << >> => ~Moving(q \o << s >>)
      BY <1>1, OneMore DEF Moving
    <2>2. q # << >> => (q \o << s >>)[1] = q[1] /\ (Moving(q \o << s >>) <=> Moving(q))
      BY <1>1, <1>2, OneMore DEF Moving
    <2>3. Level(c)' = Level(c)
      BY DEF Level, Entry, GetStructWithSock, Found
    <2> QED BY <1>2, <1>3, <1>6, <2>1, <2>2, <2>3
            DEF ClientInv, LevelInv, Live, Moving, Departed
  <1>13. ReplyInv(c)' /\ CutInv(c)'
    BY <1>3, <1>6 DEF ClientInv, ReplyInv, CutInv, Departed
  <1>14. ClientInv(c)'
    BY <1>8, <1>9, <1>11, <1>12, <1>13 DEF ClientInv
  <1> QED BY <1>3, <1>4, <1>5, <1>14, ClientStepInv DEF Onward

LEMMA ServerRests ==
    ASSUME UNCHANGED server, NEW c
    PROVE  Level(c)' = Level(c) /\ Entry(c)' = Entry(c) /\ fd' = fd /\ thread' = thread
  BY DEF server, Level, Entry, GetStructWithSock, Found

LEMMA ReceiveDirectoryInv ==
    ASSUME IInv, NEW c \in Clients, ReceiveDirectory(c) PROVE IInv'
  <1> USE DEF client, history, events
  <1>1. ClientInv(c)
    BY DEF IInv
  <1>2. PICK q \in Seq(ToClientItems) :
            /\ q = in[c] /\ q # << >> /\ Tail(q) \in Seq(ToClientItems)
            /\ q[1] = Head(q) /\ q[1] \in ToClientItems /\ in' = [in EXCEPT ![c] = Tail(q)]
    <2>1. in[c] \in Seq(ToClientItems) /\ in[c] # << >>
      BY OwnTypes DEF ReceiveDirectory
    <2>2. /\ Tail(in[c]) \in Seq(ToClientItems) /\ in[c][1] = Head(in[c])
          /\ in[c][1] \in ToClientItems
      BY <2>1
    <2> QED BY <2>1, <2>2 DEF ReceiveDirectory
  <1>3. /\ pc[c] = "count" /\ in'[c] = Tail(q)
        /\ UNCHANGED <<file, file_len, out, alive, where, out_of_order, cut, excused>>
    BY <1>2 DEF ReceiveDirectory, IInv, Types, StreamTypes
  <1>4. UNCHANGED server
    BY DEF ReceiveDirectory
  <1>5. fd' = fd /\ thread' = thread /\ Level(c)' = Level(c) /\ Entry(c)' = Entry(c)
    BY <1>4, ServerRests
  <1>6. StreamTypes' /\ EventTypes'
    BY <1>2, <1>3 DEF IInv, Types, StreamTypes, EventTypes
  <1>7. CASE q[1].type = "directory"
    <2>1. /\ file_t_array' = [file_t_array EXCEPT ![c] = q[1].directory]
          /\ pc' = [pc EXCEPT ![c] = "prompt"]
      BY <1>2, <1>7 DEF ReceiveDirectory
    <2>2. q[1].directory \in DirectoryType
      BY <1>2, <1>7 DEF ToClientItems
    <2>3. ClientTypes'
      BY <1>3, <2>1, <2>2 DEF IInv, Types, ClientTypes
    <2>4. \A d \in Clients \ {c} : SameClient(d)
      BY <1>2, <1>3, <1>5, <2>1 DEF IInv, Types, ClientTypes, StreamTypes, SameClient
    <2>5. pc'[c] = "prompt" /\ file_t_array'[c] = q[1].directory
      BY <2>1 DEF IInv, Types, ClientTypes
    <2>6. 1 = Len(q) /\ out[c] = << >> /\ thread.client # c
      <3>1. 1 \in 1 .. Len(in[c])
        BY <1>2
      <3> QED BY <1>1, <1>2, <1>7, <3>1 DEF ClientInv, AnswerInv
    <2>7. in'[c] = << >>
      BY <1>2, <1>3, <2>6, TailOf
    <2>8. ReadInv(c)' /\ SentInv(c)' /\ AnswerInv(c)'
      BY <1>3, <1>5, <2>5, <2>6, <2>7 DEF ReadInv, Requests, SentInv, Has, AnswerInv
    <2>9. LevelInv(c)'
      <3>1. alive /\ ~Moving(out[c])
        BY <2>6 DEF ReceiveDirectory, Moving
      <3> QED BY <1>1, <1>3, <1>5, <2>5, <2>6, <3>1
              DEF ClientInv, LevelInv, Live, Moving, Departed
    <2>10. out_of_order \/ Shows(c, q[1].directory)
      BY <1>1, <1>2, <1>3, <1>7 DEF ClientInv, ShownInv
    <2>11. ShownInv(c)'
      BY <1>3, <1>5, <2>5, <2>10 DEF ShownInv, Shows
    <2>12. ReplyInv(c)' /\ CutInv(c)'
      BY <2>5, <2>7 DEF ReplyInv, CutInv, Departed
    <2>13. ClientInv(c)'
      BY <2>8, <2>9, <2>11, <2>12 DEF ClientInv
    <2> QED BY <1>3, <1>4, <1>6, <2>3, <2>4, <2>5, <2>13, ClientStepInv DEF Onward
  <1>8. CASE q[1].type # "directory"
    <2>1. file_t_array' = file_t_array /\ pc' = [pc EXCEPT ![c] = "garbled"]
      BY <1>2, <1>8 DEF ReceiveDirectory
    <2>2. ClientTypes'
      BY <1>3, <2>1 DEF IInv, Types, ClientTypes
    <2>3. \A d \in Clients \ {c} : SameClient(d)
      BY <1>2, <1>3, <1>5, <2>1 DEF IInv, Types, ClientTypes, StreamTypes, SameClient
    <2>4. pc'[c] = "garbled"
      BY <2>1 DEF IInv, Types, ClientTypes
    <2>5. c \in excused
      BY <1>1, <1>2, <1>3, <1>8 DEF ClientInv, ReplyInv
    <2>6. ReadInv(c)'
      BY <1>1, <1>3, <1>5, <2>4 DEF ClientInv, ReadInv, Waiting
    <2>7. SentInv(c)'
      BY <1>1, <1>3, <1>5, <2>4 DEF ClientInv, SentInv, Waiting, Departed
    <2>8. AnswerInv(c)'
      <3>1. \A i \in 1 .. Len(Tail(q)) : Tail(q)[i] = q[i + 1] /\ i + 1 \in 1 .. Len(q)
        BY <1>2
      <3>2. \A i \in 1 .. Len(Tail(q)) : Tail(q)[i].type = "directory" =>
                i + 1 = Len(q) /\ out[c] = << >> /\ thread.client # c
        BY <1>1, <1>2, <3>1 DEF ClientInv, AnswerInv
      <3>3. Len(Tail(q)) = Len(q) - 1 /\ Len(q) \in Nat
        BY <1>2
      <3>4. \A i \in 1 .. Len(Tail(q)) : Tail(q)[i].type = "directory" =>
                i = Len(Tail(q)) /\ out[c] = << >> /\ thread.client # c
        BY <3>2, <3>3
      <3> QED BY <1>3, <1>5, <2>4, <3>4 DEF AnswerInv
    <2>9. LevelInv(c)'
      BY <1>1, <1>3, <1>5, <2>4 DEF ClientInv, LevelInv, Live, Departed
    <2>10. ShownInv(c)' /\ ReplyInv(c)' /\ CutInv(c)'
      BY <1>3, <2>4, <2>5 DEF ShownInv, ReplyInv, CutInv, Departed
    <2>11. ClientInv(c)'
      BY <2>6, <2>7, <2>8, <2>9, <2>10 DEF ClientInv
    <2> QED BY <1>3, <1>4, <1>6, <2>2, <2>3, <2>4, <2>11, ClientStepInv DEF Onward
  <1> QED BY <1>7, <1>8

\* At the prompt nothing is on its way, and the directory shown is the entry's.
LEMMA AtPrompt ==
    ASSUME IInv, NEW c \in Clients, pc[c] = "prompt"
    PROVE  /\ out[c] = << >> /\ in[c] = << >> /\ thread.client # c
           /\ \/ out_of_order
              \/ /\ where[c] \in Levels /\ Level(c) = where[c]
                 /\ file_t_array[c].level = where[c] /\ Shows(c, file_t_array[c])
  <1>1. ClientInv(c)
    BY DEF IInv
  <1>2. out[c] = << >> /\ in[c] = << >> /\ thread.client # c
    BY <1>1 DEF ClientInv, SentInv, AnswerInv
  <1>3. out_of_order \/ (where[c] \in Levels /\ Level(c) = where[c])
    BY <1>1, <1>2 DEF ClientInv, LevelInv, Live, Moving, Departed
  <1>4. out_of_order \/ Shows(c, file_t_array[c])
    BY <1>1 DEF ClientInv, ShownInv
  <1> QED BY <1>2, <1>3, <1>4 DEF Shows, Level

LEMMA RefreshInv == ASSUME IInv, NEW c \in Clients, Refresh(c) PROVE IInv'
  <1>1. /\ pc[c] = "prompt" /\ pc' = [pc EXCEPT ![c] = "show"]
        /\ UNCHANGED <<server, file, file_len, file_t_array, out, in, alive, where,
                       out_of_order, cut, excused>>
    BY DEF Refresh, history, events
  <1>2. pc'[c] = "show" /\ fd' = fd /\ thread' = thread /\ Level(c)' = Level(c)
    BY <1>1, ServerRests DEF IInv, Types, ClientTypes
  <1>3. ClientTypes' /\ StreamTypes' /\ EventTypes'
    BY <1>1 DEF IInv, Types, ClientTypes, StreamTypes, EventTypes
  <1>4. \A d \in Clients \ {c} : SameClient(d)
    BY <1>1, <1>2 DEF IInv, Types, ClientTypes, SameClient
  <1>5. ReadInv(c)' /\ SentInv(c)' /\ AnswerInv(c)'
    BY <1>1, <1>2, AtPrompt DEF ReadInv, Requests, SentInv, Has, AnswerInv
  <1>6. LevelInv(c)'
    BY <1>1, <1>2, AtPrompt DEF LevelInv, Moving
  <1>7. ShownInv(c)' /\ ReplyInv(c)' /\ CutInv(c)'
    BY <1>1, <1>2, AtPrompt DEF ShownInv, ReplyInv, CutInv, Departed
  <1>8. ClientInv(c)'
    BY <1>5, <1>6, <1>7 DEF ClientInv
  <1> QED BY <1>1, <1>2, <1>3, <1>4, <1>8, ClientStepInv DEF Onward

\* A queue of one request.
LEMMA OneRequest ==
    ASSUME NEW s \in ToServerItems
    PROVE  /\ << >> \o << s >> = << s >> /\ << s >> \in Seq(ToServerItems)
           /\ s.type \in {"SHOW", "MOVEDIR", "DOWNLOAD", "UPLOAD"} => Requests(<< s >>)
           /\ \A type \in ToServer : Has(<< s >>, type) => s.type = type
           /\ Moving(<< s >>) <=> s.type = "MOVEDIR"
           /\ Len(<< s >>) = 1 /\ << s >>[1] = s
  <1>1. Len(<< s >>) = 1 /\ << s >>[1] = s /\ Tail(<< s >>) = << >> /\ << s >> # << >>
    OBVIOUS
  <1> QED BY <1>1 DEF Requests, OnlyShow, Info, Has, Moving

LEMMA MoveInv == ASSUME IInv, NEW c \in Clients, Move(c) PROVE IInv'
  <1>1. PICK name \in Directories(c) :
            /\ Send(c, << Request("MOVEDIR", name) >>)
            /\ where' = [where EXCEPT ![c] = Entered(@, name)]
    BY DEF Move
  <1>2. /\ pc[c] = "prompt" /\ pc' = [pc EXCEPT ![c] = "show"]
        /\ UNCHANGED <<server, file, file_len, file_t_array, in, alive,
                       out_of_order, cut, excused>>
    BY DEF Move, events
  <1>3. name \in {"..", "sub"}
    BY DEF Directories
  <1>4. PICK s \in ToServerItems :
            s = Request("MOVEDIR", name) /\ s.type = "MOVEDIR" /\ s.text = name
    BY <1>3, ItemType DEF Request, ToServer, Texts
  <1>5. out' = [out EXCEPT ![c] = << s >>] /\ out'[c] = << s >>
    <2>1. out' = [out EXCEPT ![c] = out[c] \o << s >>]
      BY <1>1, <1>4 DEF Send
    <2>2. out[c] \o << s >> = << s >>
      BY <1>2, AtPrompt, OneRequest
    <2> QED BY <2>1, <2>2 DEF IInv, Types, StreamTypes
  <1>6. pc'[c] = "show" /\ where'[c] = Entered(where[c], name)
    BY <1>1, <1>2 DEF IInv, Types, ClientTypes
  <1>7. fd' = fd /\ thread' = thread /\ Level(c)' = Level(c)
    BY <1>2, ServerRests
  <1>8. Entered(where[c], name) \in Nat
    <2>1. where[c] \in Nat
      BY OwnTypes
    <2>2. Max({where[c] - 1, 0}) \in Nat
      <3>1. \E x \in {where[c] - 1, 0} : \A y \in {where[c] - 1, 0} : x >= y
        BY <2>1
      <3> QED BY <2>1, <3>1 DEF Max
    <2> QED BY <2>1, <2>2 DEF Entered
  <1>9. ClientTypes' /\ StreamTypes' /\ EventTypes'
    BY <1>1, <1>2, <1>5, <1>8, OneRequest
       DEF IInv, Types, ClientTypes, StreamTypes, EventTypes
  <1>10. \A d \in Clients \ {c} : SameClient(d)
    BY <1>1, <1>2, <1>5, <1>7 DEF IInv, Types, ClientTypes, StreamTypes, SameClient
  <1>11. ReadInv(c)' /\ SentInv(c)' /\ AnswerInv(c)'
    BY <1>2, <1>4, <1>5, <1>6, <1>7, AtPrompt, OneRequest
       DEF ReadInv, SentInv, AnswerInv, ToServer
  <1>12. LevelInv(c)'
    <2> SUFFICES ASSUME ~out_of_order
                 PROVE  where'[c] \in Levels /\ Entered(Level(c), name) = where'[c]
      BY <1>2, <1>4, <1>5, <1>7, OneRequest DEF LevelInv
    <2>1. /\ where[c] \in Levels /\ Level(c) = where[c]
          /\ file_t_array[c].level = where[c]
      BY <1>2, AtPrompt
    <2>2. Entered(where[c], name) \in Levels
      <3>1. CASE name = "sub"
        BY <2>1, <3>1, Constants DEF Directories, Entered, Levels
      <3>2. CASE name = ".."
        <4>1. where[c] \in Nat /\ where[c] <= Depth
          BY <2>1, Constants DEF Levels
        <4>2. \E x \in {where[c] - 1, 0} : \A y \in {where[c] - 1, 0} : x >= y
          BY <4>1
        <4>3. Max({where[c] - 1, 0}) \in {where[c] - 1, 0} /\ Max({where[c] - 1, 0}) >= 0
          BY <4>1, <4>2 DEF Max
        <4> QED BY <3>2, <4>1, <4>3, Constants DEF Entered, Levels
      <3> QED BY <1>3, <3>1, <3>2
    <2> QED BY <1>6, <2>1, <2>2
  <1>13. ShownInv(c)' /\ ReplyInv(c)' /\ CutInv(c)'
    BY <1>2, <1>6, AtPrompt DEF ShownInv, ReplyInv, CutInv, Departed
  <1>14. ClientInv(c)'
    BY <1>11, <1>12, <1>13 DEF ClientInv
  <1> QED BY <1>2, <1>6, <1>9, <1>10, <1>14, ClientStepInv DEF Onward

LEMMA DownloadInv == ASSUME IInv, NEW c \in Clients, Download(c) PROVE IInv'
  <1>1. PICK f \in Files :
            /\ file_t_array[c].size[f] # Absent
            /\ Send(c, << Request("DOWNLOAD", f) >>)
            /\ file' = [file EXCEPT ![c] = f]
    BY DEF Download
  <1>2. /\ pc[c] = "prompt" /\ pc' = [pc EXCEPT ![c] = "download"]
        /\ file_len' = [file_len EXCEPT ![c] = 0]
        /\ UNCHANGED <<server, file_t_array, in, alive, where, out_of_order, cut,
                       excused>>
    BY DEF Download, history, events
  <1>3. PICK s \in ToServerItems : s = Request("DOWNLOAD", f) /\ s.type = "DOWNLOAD"
    BY ItemType DEF Request, ToServer, Texts
  <1>4. out' = [out EXCEPT ![c] = << s >>] /\ out'[c] = << s >>
    <2>1. out' = [out EXCEPT ![c] = out[c] \o << s >>]
      BY <1>1, <1>3 DEF Send
    <2>2. out[c] \o << s >> = << s >>
      BY <1>2, AtPrompt, OneRequest
    <2> QED BY <2>1, <2>2 DEF IInv, Types, StreamTypes
  <1>5. pc'[c] = "download" /\ file'[c] = f /\ file_len'[c] = 0
    BY <1>1, <1>2 DEF IInv, Types, ClientTypes
  <1>6. fd' = fd /\ thread' = thread /\ Level(c)' = Level(c)
    BY <1>2, ServerRests
  <1>7. ClientTypes' /\ StreamTypes' /\ EventTypes'
    BY <1>1, <1>2, <1>4, OneRequest DEF IInv, Types, ClientTypes, StreamTypes, EventTypes
  <1>8. \A d \in Clients \ {c} : SameClient(d)
    BY <1>1, <1>2, <1>4, <1>6 DEF IInv, Types, ClientTypes, StreamTypes, SameClient
  <1>9. ReadInv(c)' /\ SentInv(c)' /\ AnswerInv(c)'
    BY <1>2, <1>3, <1>4, <1>5, <1>6, AtPrompt, OneRequest
       DEF ReadInv, SentInv, AnswerInv, ToServer
  <1>10. LevelInv(c)'
    BY <1>2, <1>3, <1>4, <1>6, AtPrompt, OneRequest DEF LevelInv
  <1>11. Told(c)' \in Nat
    <2>1. file_t_array[c].size[f] \in Sizes0
      BY OwnTypes DEF DirectoryType
    <2> QED BY <1>1, <1>2, <1>5, <2>1 DEF Told, Sizes0
  <1>12. ShownInv(c)' /\ ReplyInv(c)' /\ CutInv(c)'
    BY <1>2, <1>4, <1>5, <1>11, AtPrompt DEF ShownInv, ReplyInv, CutInv, Departed
  <1>13. ClientInv(c)'
    BY <1>9, <1>10, <1>12 DEF ClientInv
  <1> QED BY <1>2, <1>5, <1>7, <1>8, <1>13, ClientStepInv DEF Onward

\* A client that waits for a file.
LEMMA Awaiting ==
    ASSUME IInv, NEW c \in Clients, pc[c] = "download", in[c] # << >>, alive
    PROVE  /\ out[c] = << >> /\ thread.client # c /\ Told(c) \in Nat
           /\ \A i \in 1 .. Len(in[c]) : in[c][i].type # "directory"
           /\ c \in excused \/ file_len[c] + Len(in[c]) = Told(c)
  BY DEF IInv, ClientInv, SentInv, AnswerInv, ReplyInv

\* What a read takes.
LEMMA ReadSome ==
    ASSUME NEW S, NEW q \in Seq(S), NEW n \in 1 .. Min({Len(q), BUFSIZE})
    PROVE  n \in 1 .. Len(q) /\ q # << >>
  <1>1. Len(q) \in Nat /\ BUFSIZE \in Nat
    BY Constants
  <1>2. \E x \in {Len(q), BUFSIZE} : \A y \in {Len(q), BUFSIZE} : x <= y
    BY <1>1
  <1>3. Min({Len(q), BUFSIZE}) \in {Len(q), BUFSIZE} /\ Min({Len(q), BUFSIZE}) <= Len(q)
    BY <1>1, <1>2 DEF Min
  <1> QED BY <1>1, <1>3

LEMMA DownloadDataInv == ASSUME IInv, NEW c \in Clients, DownloadData(c) PROVE IInv'
  <1>1. PICK n \in 1 .. Min({Len(in[c]), BUFSIZE}) :
            /\ in' = [in EXCEPT ![c] = SubSeq(@, n + 1, Len(@))]
            /\ file_len' = [file_len EXCEPT ![c] = @ + n]
    BY DEF DownloadData
  <1>2. /\ alive /\ pc[c] = "download"
        /\ UNCHANGED <<server, file, file_t_array, out, alive, where, out_of_order,
                       excused>>
    BY DEF DownloadData
  <1>3. PICK q \in Seq(ToClientItems) : q = in[c] /\ q # << >> /\ n \in 1 .. Len(q)
    BY <1>1, OwnTypes, ReadSome
  <1>4. PICK r \in Seq(ToClientItems) :
            /\ r = SubSeq(q, n + 1, Len(q)) /\ Len(r) = Len(q) - n
            /\ \A i \in 1 .. Len(r) : r[i] = q[n + i] /\ n + i \in 1 .. Len(q)
    <2>1. n \in 0 .. Len(q) /\ n \in Nat /\ Len(q) \in Nat
      BY <1>3
    <2>2. SubSeq(q, n + 1, Len(q)) \in Seq(ToClientItems)
      BY <2>1, RestOf
    <2>3. /\ Len(SubSeq(q, n + 1, Len(q))) = Len(q) - n
          /\ \A i \in 1 .. Len(q) - n : SubSeq(q, n + 1, Len(q))[i] = q[n + i]
      BY <2>1, RestOf
    <2>4. \A i \in 1 .. Len(q) - n : n + i \in 1 .. Len(q)
      BY <2>1
    <2> QED BY <2>2, <2>3, <2>4
  <1>5. in' = [in EXCEPT ![c] = r] /\ in'[c] = r
    BY <1>1, <1>3, <1>4 DEF IInv, Types, StreamTypes
  <1>6. PICK len \in Nat, left \in Nat, told \in Nat :
            /\ file_len'[c] = len /\ Len(r) = left /\ Told(c) = told
            /\ c \in excused \/ len + left = told
    <2>1. PICK l \in Nat, m \in Nat : l = file_len[c] /\ m = Len(q)
      BY <1>3, OwnTypes
    <2>2. Told(c) \in Nat /\ (c \in excused \/ l + m = Told(c))
      BY <1>2, <1>3, <2>1, Awaiting
    <2>3. file_len'[c] = l + n /\ Len(r) = m - n /\ n \in 1 .. m
      BY <1>1, <1>3, <1>4, <2>1 DEF IInv, Types, ClientTypes
    <2>4. l + n \in Nat /\ m - n \in Nat /\ (l + n) + (m - n) = l + m
      BY <2>1, <2>3
    <2> QED BY <2>2, <2>3, <2>4
  <1>7. file_len' = [file_len EXCEPT ![c] = len]
    BY <1>1, <1>6 DEF IInv, Types, ClientTypes
  <1>8. Told(c)' = told
    BY <1>2, <1>6 DEF Told
  <1>9. PICK p \in {"show", "download"} \cup Departed :
            /\ pc' = [pc EXCEPT ![c] = p] /\ pc'[c] = p
            /\ \/ told = 0 /\ p \in Departed /\ cut'
               \/ told # 0 /\ p = "show" /\ len >= told /\ cut' = cut
               \/ told # 0 /\ p = "download" /\ len < told /\ cut' = cut
    <2>1. CASE told = 0
      BY <1>6, <2>1 DEF DownloadData, Told, Departed, IInv, Types, ClientTypes
    <2>2. CASE told # 0 /\ Downloaded(c)
      <3>1. len >= told
        BY <1>2, <1>6, <2>2 DEF Downloaded, Told
      <3> QED BY <1>6, <2>2, <3>1 DEF DownloadData, Told, IInv, Types, ClientTypes
    <2>3. CASE told # 0 /\ ~Downloaded(c)
      <3>1. len < told
        BY <1>2, <1>6, <2>3 DEF Downloaded, Told
      <3>2. pc' = pc /\ cut' = cut
        BY <1>6, <2>3 DEF DownloadData, Told
      <3>3. pc = [pc EXCEPT ![c] = "download"]
        BY <1>2 DEF IInv, Types, ClientTypes
      <3> QED BY <1>2, <2>3, <3>1, <3>2, <3>3
    <2> QED BY <2>1, <2>2, <2>3
  <1>10. cut => cut'
    BY <1>9
  <1>11. fd' = fd /\ thread' = thread /\ Level(c)' = Level(c)
    BY <1>2, ServerRests
  <1>12. ClientTypes' /\ StreamTypes' /\ EventTypes'
    <2>1. ClientTypes'
      BY <1>2, <1>7, <1>9 DEF IInv, Types, ClientTypes, Departed
    <2>2. cut' \in BOOLEAN
      BY <1>9 DEF DownloadData, IInv, Types, EventTypes
    <2> QED BY <1>2, <1>5, <2>1, <2>2 DEF IInv, Types, StreamTypes, EventTypes
  <1>13. \A d \in Clients \ {c} : SameClient(d)
    BY <1>2, <1>5, <1>7, <1>9, <1>11
       DEF IInv, Types, ClientTypes, StreamTypes, SameClient
  <1>14. /\ out[c] = << >> /\ thread.client # c
         /\ \A i \in 1 .. Len(r) : r[i].type # "directory"
    BY <1>2, <1>3, <1>4, Awaiting
  <1>15. ReadInv(c)' /\ SentInv(c)'
    BY <1>2, <1>9, <1>11, <1>14 DEF ReadInv, Requests, SentInv, Has, Departed
  <1>16. AnswerInv(c)' /\ ShownInv(c)' /\ CutInv(c)'
    BY <1>2, <1>5, <1>9, <1>11, <1>14 DEF AnswerInv, ShownInv, CutInv, Departed
  <1>17. LevelInv(c)'
    BY <1>2, <1>9, <1>11 DEF IInv, ClientInv, LevelInv, Live, Departed
  <1>18. ReplyInv(c)'
    <2>1. p = "download" => file'[c] \in Files /\ Told(c)' \in Nat
      BY <1>2, <1>8 DEF IInv, ClientInv, ReplyInv
    <2>2. p = "show" /\ c \notin excused => r = << >>
      <3>1. p = "show" /\ c \notin excused => left = 0
        BY <1>6, <1>9 DEF Departed
      <3> QED BY <1>6, <3>1
    <2>3. p = "download" /\ c \notin excused =>
            out'[c] = << >> /\ file_len'[c] + Len(r) = told /\ file_len'[c] < told
      BY <1>2, <1>6, <1>9, <1>14 DEF Departed
    <2> QED BY <1>2, <1>5, <1>8, <1>9, <2>1, <2>2, <2>3 DEF ReplyInv, Departed
  <1>19. ClientInv(c)'
    BY <1>15, <1>16, <1>17, <1>18 DEF ClientInv
  <1> QED BY <1>2, <1>9, <1>10, <1>12, <1>13, <1>19, ClientStepInv DEF Onward, Departed

LEMMA UploadInv == ASSUME IInv, NEW c \in Clients, Upload(c) PROVE IInv'
  <1>1. PICK f \in Files :
            Send(c, << Request("UPLOAD", f) >>) /\ file' = [file EXCEPT ![c] = f]
    BY DEF Upload
  <1>2. /\ pc[c] = "prompt" /\ pc' = [pc EXCEPT ![c] = "upload"]
        /\ UNCHANGED <<server, file_len, file_t_array, in, alive, where, out_of_order,
                       cut, excused>>
    BY DEF Upload, history, events
  <1>3. PICK s \in ToServerItems : s = Request("UPLOAD", f) /\ s.type = "UPLOAD"
    BY ItemType DEF Request, ToServer, Texts
  <1>4. out' = [out EXCEPT ![c] = << s >>] /\ out'[c] = << s >>
    <2>1. out' = [out EXCEPT ![c] = out[c] \o << s >>]
      BY <1>1, <1>3 DEF Send
    <2>2. out[c] \o << s >> = << s >>
      BY <1>2, AtPrompt, OneRequest
    <2> QED BY <2>1, <2>2 DEF IInv, Types, StreamTypes
  <1>5. pc'[c] = "upload"
    BY <1>2 DEF IInv, Types, ClientTypes
  <1>6. fd' = fd /\ thread' = thread /\ Level(c)' = Level(c)
    BY <1>2, ServerRests
  <1>7. ClientTypes' /\ StreamTypes' /\ EventTypes'
    BY <1>1, <1>2, <1>4, OneRequest DEF IInv, Types, ClientTypes, StreamTypes, EventTypes
  <1>8. \A d \in Clients \ {c} : SameClient(d)
    BY <1>1, <1>2, <1>4, <1>6 DEF IInv, Types, ClientTypes, StreamTypes, SameClient
  <1>9. ReadInv(c)' /\ SentInv(c)' /\ AnswerInv(c)'
    BY <1>2, <1>3, <1>4, <1>5, <1>6, AtPrompt, OneRequest
       DEF ReadInv, SentInv, AnswerInv, ToServer
  <1>10. LevelInv(c)'
    BY <1>2, <1>3, <1>4, <1>6, AtPrompt, OneRequest DEF LevelInv
  <1>11. ShownInv(c)' /\ ReplyInv(c)' /\ CutInv(c)'
    BY <1>2, <1>5, AtPrompt DEF ShownInv, ReplyInv, CutInv, Departed
  <1>12. ClientInv(c)'
    BY <1>9, <1>10, <1>11 DEF ClientInv
  <1> QED BY <1>2, <1>5, <1>7, <1>8, <1>12, ClientStepInv DEF Onward

\* A client whose upload has been asked for and is not written yet.
LEMMA BeforeUpload ==
    ASSUME IInv, NEW c \in Clients, pc[c] = "upload"
    PROVE  /\ \/ thread.client # c /\ Len(out[c]) = 1 /\ out[c][1].type = "UPLOAD"
              \/ thread.client = c /\ thread.at = "info" /\ out[c] = << >>
           /\ \A i \in 1 .. Len(out[c]) : out[c][i].type = "UPLOAD"
           /\ ~Moving(out[c])
           /\ \A i \in 1 .. Len(in[c]) : in[c][i].type # "directory"
           /\ c \in excused \/ in[c] = << >>
  <1>1. ClientInv(c)
    BY DEF IInv
  <1>2. \/ thread.client # c /\ Len(out[c]) = 1 /\ out[c][1].type = "UPLOAD"
        \/ thread.client = c /\ thread.at = "info" /\ out[c] = << >>
    BY <1>1 DEF ClientInv, SentInv
  <1>3. \A i \in 1 .. Len(out[c]) : out[c][i].type = "UPLOAD"
    BY <1>2
  <1>4. ~Moving(out[c])
    BY <1>2 DEF Moving
  <1> QED BY <1>1, <1>2, <1>3, <1>4 DEF ClientInv, AnswerInv, ReplyInv

LEMMA UploadMissingInv == ASSUME IInv, NEW c \in Clients, UploadMissing(c) PROVE IInv'
  <1>1. /\ pc[c] = "upload" /\ pc' = [pc EXCEPT ![c] = "show"]
        /\ excused' = excused \cup {c}
        /\ UNCHANGED <<server, file, file_len, file_t_array, out, in, alive, where,
                       out_of_order, cut>>
    BY DEF UploadMissing
  <1>2. pc'[c] = "show" /\ fd' = fd /\ thread' = thread /\ Level(c)' = Level(c)
    BY <1>1, ServerRests DEF IInv, Types, ClientTypes
  <1>3. ClientTypes' /\ StreamTypes' /\ EventTypes'
    BY <1>1 DEF IInv, Types, ClientTypes, StreamTypes, EventTypes
  <1>4. \A d \in Clients \ {c} : SameClient(d)
    BY <1>1, <1>2 DEF IInv, Types, ClientTypes, SameClient
  <1>5. ClientInv(c)
    BY DEF IInv
  <1>6. ReadInv(c)'
    BY <1>1, <1>2, <1>5, BeforeUpload DEF ClientInv, ReadInv
  <1>7. SentInv(c)' /\ AnswerInv(c)'
    BY <1>1, <1>2, BeforeUpload DEF SentInv, Has, AnswerInv
  <1>8. LevelInv(c)'
    BY <1>1, <1>2, <1>5 DEF ClientInv, LevelInv, Live, Departed
  <1>9. ShownInv(c)' /\ ReplyInv(c)' /\ CutInv(c)'
    BY <1>1, <1>2 DEF ShownInv, ReplyInv, CutInv, Departed
  <1>10. ClientInv(c)'
    BY <1>6, <1>7, <1>8, <1>9 DEF ClientInv
  <1> QED BY <1>1, <1>2, <1>3, <1>4, <1>10, ClientStepInv DEF Onward

LEMMA SeqOfMore ==
    ASSUME NEW S, NEW T, S \subseteq T, NEW q \in Seq(S)
    PROVE  q \in Seq(T)
  <1>1. Len(q) \in Nat /\ q = [i \in 1 .. Len(q) |-> q[i]]
    OBVIOUS
  <1>2. \A i \in 1 .. Len(q) : q[i] \in T
    OBVIOUS
  <1>3. \A n \in Nat : \A f \in [1 .. n -> T] : f \in Seq(T)
    OBVIOUS
  <1>4. q \in [1 .. Len(q) -> T]
    BY <1>1, <1>2
  <1> QED BY <1>1, <1>3, <1>4

\* The description of a file and its data.
LEMMA InfoAndData ==
    ASSUME NEW s \in ToServerItems, s.type = "file_t"
    PROVE  LET q == << s >> \o Data(s.size)
           IN  /\ q \in Seq(ToServerItems) /\ Len(q) = s.size + 1 /\ q[1] = s
               /\ \A i \in 2 .. Len(q) : q[i].type = "data"
               /\ Tail(q) = Data(s.size) /\ Info(q)
  <1> DEFINE q == << s >> \o Data(s.size)
  <1>1. s.size \in Nat
    BY DEF ToServerItems
  <1>2. PICK n \in Nat : n = s.size
    BY <1>1
  <1>3. PICK t :
            /\ t = Data(s.size) /\ Len(t) = n
            /\ \A i \in 1 .. n : t[i].type = "data"
    <2>1. s.size \in Int
      BY <1>1
    <2>2. /\ Len(Data(s.size)) = s.size
          /\ \A i \in 1 .. Len(Data(s.size)) : Data(s.size)[i].type = "data"
      BY <1>1, <2>1, DataOf
    <2> QED BY <1>2, <2>2
  <1>4. t \in Seq(ToServerItems)
    <2>1. t \in Seq([type : {"data"}, text : {"none"}, size : {1}])
      <3>1. n \in Int
        OBVIOUS
      <3> QED BY <1>2, <1>3, <3>1, DataOf
    <2>2. [type : {"data"}, text : {"none"}, size : {1}] \subseteq ToServerItems
      BY DEF ToServerItems, ToServer, Texts
    <2> QED BY <2>1, <2>2, SeqOfMore
  <1>5. /\ << s >> \o t \in Seq(ToServerItems) /\ Len(<< s >> \o t) = n + 1
        /\ (<< s >> \o t)[1] = s
        /\ \A i \in 2 .. n + 1 : (<< s >> \o t)[i] = t[i - 1]
    BY <1>2, <1>3, <1>4
  <1>6. Tail(<< s >> \o t) = t
    <2>1. PICK r \in Seq(ToServerItems) : r = << s >> \o t /\ r # << >>
      <3>1. Len(<< s >> \o t) # 0
        BY <1>2, <1>3, <1>5
      <3>2. << s >> \o t # << >>
        BY <1>5, <3>1
      <3> QED BY <1>5, <3>2
    <2>2. /\ Tail(r) \in Seq(ToServerItems) /\ Len(Tail(r)) = Len(r) - 1
          /\ \A i \in 1 .. Len(Tail(r)) : Tail(r)[i] = r[i + 1]
      BY <2>1, TailOf
    <2>3. Len(Tail(r)) = n /\ \A i \in 1 .. n : Tail(r)[i] = t[i]
      BY <1>5, <2>1, <2>2
    <2> QED BY <1>2, <1>3, <1>4, <2>1, <2>2, <2>3
  <1>7. DataThenShow(t, n)
    BY <1>2, <1>3 DEF DataThenShow
  <1>8. Info(<< s >> \o t)
    <2>1. Len(<< s >> \o t) > 0
      BY <1>2, <1>3, <1>5
    <2> QED BY <1>2, <1>3, <1>5, <1>6, <1>7, <2>1 DEF Info
  <1>9. \A i \in 2 .. n + 1 : (<< s >> \o t)[i].type = "data"
    <2>1. \A i \in 2 .. n + 1 : i - 1 \in 1 .. n
      OBVIOUS
    <2> QED BY <1>2, <1>3, <1>5, <2>1
  <1> QED BY <1>2, <1>3, <1>5, <1>6, <1>8, <1>9

LEMMA UploadFileInv == ASSUME IInv, NEW c \in Clients, UploadFile(c) PROVE IInv'
  <1>1. PICK size \in Sizes :
            /\ Send(c, << Item("file_t", file[c], size) >> \o Data(size))
            /\ pc' = [pc EXCEPT ![c] = IF size = 0 THEN "left" ELSE "show"]
            /\ cut' = (cut \/ size = 0)
    BY DEF UploadFile
  <1>2. /\ pc[c] = "upload"
        /\ UNCHANGED <<server, file, file_len, file_t_array, in, alive, where,
                       out_of_order, excused>>
    BY DEF UploadFile
  <1>3. PICK s \in ToServerItems :
            s = Item("file_t", file[c], size) /\ s.type = "file_t" /\ s.size = size
    <2>1. size \in Nat /\ file[c] \in Texts /\ "file_t" \in ToServer
      BY Constants, OwnTypes DEF Texts, ToServer
    <2> QED BY <2>1, ItemType
  <1>4. PICK q \in Seq(ToServerItems) :
            /\ q = << s >> \o Data(size) /\ Len(q) = size + 1 /\ q[1] = s
            /\ \A i \in 2 .. Len(q) : q[i].type = "data"
            /\ Info(q)
    <2>1. << s >> \o Data(size) = << s >> \o Data(s.size) /\ s.size = size
      BY <1>3
    <2>2. /\ << s >> \o Data(s.size) \in Seq(ToServerItems)
          /\ Len(<< s >> \o Data(s.size)) = s.size + 1
          /\ (<< s >> \o Data(s.size))[1] = s
          /\ \A i \in 2 .. Len(<< s >> \o Data(s.size)) :
                (<< s >> \o Data(s.size))[i].type = "data"
          /\ Info(<< s >> \o Data(s.size))
      BY <1>3, InfoAndData
    <2> QED BY <2>1, <2>2
  <1>5. PICK r \in Seq(ToServerItems) : r = out[c] \o q /\ out' = [out EXCEPT ![c] = r]
    <2>1. out[c] \o q \in Seq(ToServerItems)
      BY <1>4, OwnTypes
    <2>2. out' = [out EXCEPT ![c] = out[c] \o q]
      BY <1>1, <1>3, <1>4 DEF Send
    <2> QED BY <2>1, <2>2
  <1>6. size \in Nat /\ q # << >> /\ Len(q) \in Nat
    BY <1>4, Constants
  <1>7. /\ out'[c] = r /\ pc'[c] = IF size = 0 THEN "left" ELSE "show"
    BY <1>1, <1>5 DEF IInv, Types, ClientTypes, StreamTypes
  <1>8. fd' = fd /\ thread' = thread /\ Level(c)' = Level(c)
    BY <1>2, ServerRests
  <1>9. ClientTypes' /\ StreamTypes' /\ EventTypes'
    <2>1. cut' \in BOOLEAN
      BY <1>1 DEF IInv, Types, EventTypes
    <2> QED BY <1>1, <1>2, <1>5, <2>1
            DEF IInv, Types, ClientTypes, StreamTypes, EventTypes
  <1>10. \A d \in Clients \ {c} : SameClient(d)
    BY <1>1, <1>2, <1>5, <1>8 DEF IInv, Types, ClientTypes, StreamTypes, SameClient
  <1>11. \/ /\ thread.client = c /\ thread.at = "info" /\ r = q
         \/ /\ thread.client # c /\ Len(r) = Len(q) + 1 /\ r[1].type = "UPLOAD"
            /\ \A i \in 1 .. Len(q) : r[i + 1] = q[i]
            /\ Tail(r) = q
    <2>1. CASE out[c] = << >> /\ thread.client = c /\ thread.at = "info"
      BY <1>5, <2>1
    <2>2. CASE Len(out[c]) = 1 /\ out[c][1].type = "UPLOAD" /\ thread.client # c
      <3>1. out[c] \in Seq(ToServerItems)
        BY OwnTypes
      <3>2. out[c] # << >> /\ Tail(out[c]) = << >>
        BY <2>2, <3>1, TailOf
      <3>3. /\ Len(r) = Len(q) + 1 /\ r[1] = out[c][1]
            /\ \A i \in 1 .. Len(q) : r[i + 1] = q[i]
        <4>1. PICK u \in Seq(ToServerItems) : u = out[c] /\ Len(u) = 1
          BY <2>2, <3>1
        <4>2. r = u \o q
          BY <1>5, <4>1
        <4>3. /\ Len(u \o q) = Len(u) + Len(q)
              /\ \A i \in 1 .. Len(u) : (u \o q)[i] = u[i]
              /\ \A i \in 1 .. Len(q) : (u \o q)[Len(u) + i] = q[i]
          OBVIOUS
        <4>4. PICK m \in Nat : m = Len(q)
          BY <1>6
        <4>5. \A i \in 1 .. m : 1 + i = i + 1
          OBVIOUS
        <4>6. Len(u \o q) = Len(q) + 1 /\ (u \o q)[1] = u[1]
          BY <4>1, <4>3, <4>4
        <4>7. \A i \in 1 .. Len(q) : (u \o q)[i + 1] = q[i]
          BY <4>1, <4>3, <4>4, <4>5
        <4> QED BY <4>1, <4>2, <4>6, <4>7
      <3>4. Tail(r) = q
        <4>1. r # << >> /\ Len(Tail(r)) = Len(q) /\ Tail(r) \in Seq(ToServerItems)
          BY <1>6, <3>3
        <4>2. \A i \in 1 .. Len(q) : Tail(r)[i] = q[i]
          BY <3>3, <4>1, TailOf
        <4> QED BY <4>1, <4>2
      <3> QED BY <2>2, <3>3, <3>4
    <2> QED BY <1>2, <2>1, <2>2, BeforeUpload
  <1>12. ReadInv(c)'
    <2>1. CASE thread.client = c /\ thread.at = "info" /\ r = q
      BY <1>4, <1>7, <1>8, <2>1 DEF ReadInv
    <2>2. CASE /\ thread.client # c /\ Len(r) = Len(q) + 1 /\ r[1].type = "UPLOAD"
               /\ Tail(r) = q
      <3>1. Len(r) > 0
        BY <1>6, <2>2
      <3>2. Requests(r)
        BY <1>4, <2>2, <3>1 DEF Requests
      <3> QED BY <1>7, <1>8, <2>2, <3>2 DEF ReadInv
    <2> QED BY <1>11, <2>1, <2>2
  <1>13. \A i \in 1 .. Len(r) :
            /\ r[i].type \in {"UPLOAD", "file_t", "data"}
            /\ r[i].type = "file_t" /\ r[i].size = 0 => size = 0 /\ Len(r) = i
    <2>1. \A i \in 1 .. Len(q) :
            /\ q[i].type \in {"file_t", "data"}
            /\ q[i].type = "file_t" /\ q[i].size = 0 => size = 0 /\ Len(q) = i
      <3>1. \A i \in 1 .. Len(q) : i = 1 \/ i \in 2 .. Len(q)
        BY <1>6
      <3> QED BY <1>3, <1>4, <1>6, <3>1
    <2>2. CASE r = q
      BY <2>1, <2>2
    <2>3. CASE /\ Len(r) = Len(q) + 1 /\ r[1].type = "UPLOAD"
               /\ \A i \in 1 .. Len(q) : r[i + 1] = q[i]
      <3> TAKE i \in 1 .. Len(r)
      <3>1. CASE i = 1
        BY <2>3, <3>1
      <3>2. CASE i # 1
        <4>1. PICK j \in 1 .. Len(q) : i = j + 1
          <5>1. i - 1 \in 1 .. Len(q)
            BY <1>6, <2>3, <3>2
          <5> QED BY <5>1
        <4> QED BY <2>1, <2>3, <4>1
      <3> QED BY <3>1, <3>2
    <2> QED BY <1>11, <2>2, <2>3
  <1>14. SentInv(c)'
    BY <1>2, <1>7, <1>13 DEF SentInv, Has, Departed
  <1>15. AnswerInv(c)' /\ ShownInv(c)'
    BY <1>2, <1>7, BeforeUpload DEF AnswerInv, ShownInv
  <1>16. LevelInv(c)'
    <2>1. ~Moving(r)
      BY <1>6, <1>11, <1>13 DEF Moving
    <2>2. out_of_order \/ (where[c] \in Levels /\ Level(c) = where[c])
      BY <1>2, BeforeUpload DEF UploadFile, IInv, ClientInv, LevelInv, Live, Departed
    <2> QED BY <1>2, <1>7, <1>8, <2>1, <2>2 DEF LevelInv
  <1>17. ReplyInv(c)'
    BY <1>2, <1>7, BeforeUpload DEF ReplyInv
  <1>18. CutInv(c)'
    <2>1. size = 0 => cut'
      BY <1>1, <1>2
    <2> QED BY <1>7, <2>1 DEF CutInv, Departed
  <1>19. ClientInv(c)'
    BY <1>12, <1>14, <1>15, <1>16, <1>17, <1>18 DEF ClientInv
  <1>20. pc'[c] # "away" /\ Onward
    <2>1. cut => cut'
      BY <1>1
    <2> QED BY <1>2, <1>7, <2>1 DEF Onward
  <1> QED BY <1>2, <1>9, <1>10, <1>19, <1>20, ClientStepInv

\* The end of a client, which may be interrupted anywhere but before it has come.
LEMMA VanishInv ==
    ASSUME IInv, NEW c \in Clients, Vanish(c), pc[c] \notin {"away"} \cup Departed,
           cut' \/ (cut' = cut /\ pc[c] = "prompt"), cut' \in BOOLEAN,
           UNCHANGED <<server, file, file_len, file_t_array, in, alive, where,
                       out_of_order, excused>>
    PROVE  IInv'
  <1>1. PICK p \in Departed : pc' = [pc EXCEPT ![c] = p] /\ pc'[c] = p
                /\ (in[c] # << >> => p = "reset")
    BY DEF Vanish, Departed, IInv, Types, ClientTypes
  <1>2. PICK q \in Seq(ToServerItems) :
            /\ out' = [out EXCEPT ![c] = q] /\ out'[c] = q
            /\ q = out[c] \/ q = << >>
    <2>1. out = [out EXCEPT ![c] = out[c]]
      BY DEF IInv, Types, StreamTypes
    <2>2. PICK q \in Seq(ToServerItems) :
            out' = [out EXCEPT ![c] = q] /\ (q = out[c] \/ q = << >>)
      <3>1. out' = out \/ out' = [out EXCEPT ![c] = << >>]
        BY DEF Vanish
      <3>2. out[c] \in Seq(ToServerItems) /\ << >> \in Seq(ToServerItems)
        BY OwnTypes
      <3> QED BY <2>1, <3>1, <3>2
    <2> QED BY <2>2 DEF IInv, Types, StreamTypes
  <1>3. fd' = fd /\ thread' = thread
    BY ServerRests
  <1>4. ClientTypes' /\ StreamTypes' /\ EventTypes'
    BY <1>1, <1>2 DEF IInv, Types, ClientTypes, StreamTypes, EventTypes, Departed
  <1>5. \A d \in Clients \ {c} : SameClient(d)
    BY <1>1, <1>2, <1>3 DEF IInv, Types, ClientTypes, StreamTypes, SameClient
  <1>6. ClientInv(c)
    BY DEF IInv
  <1>7. ReadInv(c)'
    BY <1>1, <1>2, <1>3, <1>6 DEF ClientInv, ReadInv, Requests, Info, Waiting
  <1>8. SentInv(c)'
    <2>1. \A i \in 1 .. Len(q) : ~(q[i].type = "file_t" /\ q[i].size = 0)
      BY <1>2, <1>6 DEF ClientInv, SentInv
    <2>2. Has(q, "rest") => c \in excused'
      BY <1>2, <1>6 DEF ClientInv, SentInv, Has
    <2> QED BY <1>1, <1>2, <1>3, <2>1, <2>2 DEF SentInv, Waiting, Departed
  <1>9. AnswerInv(c)'
    BY <1>1, <1>2, <1>3, <1>6 DEF ClientInv, AnswerInv, Departed
  <1>10. LevelInv(c)' /\ ShownInv(c)' /\ ReplyInv(c)'
    BY <1>1 DEF LevelInv, Live, ShownInv, ReplyInv, Departed
  <1>11. CutInv(c)'
    BY <1>1, <1>2, <1>3, AtPrompt DEF CutInv
  <1>12. ClientInv(c)'
    BY <1>7, <1>8, <1>9, <1>10, <1>11 DEF ClientInv
  <1> QED BY <1>1, <1>4, <1>5, <1>12, ClientStepInv DEF Onward, Departed

LEMMA QuitInv == ASSUME IInv, NEW c \in Clients, Quit(c) PROVE IInv'
  <1>1. cut \in BOOLEAN
    BY DEF IInv, Types, EventTypes
  <1> QED BY <1>1, VanishInv DEF Quit, Departed, history, events

LEMMA InterruptInv == ASSUME IInv, NEW c \in Clients, Interrupt(c) PROVE IInv'
  BY VanishInv DEF Interrupt, Departed

-----------------------------------------------------------------------------
(* The steps of the server that leave the order of its table alone. *)

LEMMA ServerStepInv ==
    ASSUME IInv, NEW c \in Clients,
           UNCHANGED <<client_cnt, fd, pc, where, out_of_order, cut>>,
           UNCHANGED <<file, file_len, file_t_array>>,
           \A i \in 0 .. client_cnt - 1 : client_t_array'[i].sock = client_t_array[i].sock,
           Onward, ServerTypes', StreamTypes', EventTypes', ThreadInv', StaysUp',
           \A d \in Clients \ {c} : SameClient(d) /\ (out_of_order \/ SameEntry(d)),
           ClientInv(c)'
    PROVE  IInv'
  <1>1. Types'
    BY DEF IInv, Types, ClientTypes
  <1>2. Connected' = Connected
    BY DEF Connected
  <1>3. CountInv'
    BY <1>2 DEF IInv, CountInv
  <1>4. TableInv'
    <2>1. \A d \in Connected, i \in 0 .. client_cnt - 1 : Own(d, i) => Own(d, i)'
      BY DEF Own
    <2> QED BY <1>2, <2>1 DEF IInv, TableInv
  <1>5. \A d \in Clients \ {c} : ClientInv(d)'
    BY ClientFrame DEF IInv
  <1> QED BY <1>1, <1>3, <1>4, <1>5 DEF IInv

LEMMA TableRests ==
    ASSUME UNCHANGED <<client_cnt, client_t_array, fd>>, NEW c
    PROVE  SameEntry(c) /\ Level(c)' = Level(c) /\ Entry(c)' = Entry(c) /\ Found(c)' = Found(c)
  BY DEF SameEntry, Level, Entry, GetStructWithSock, Found

\* One entry changes, and the entry is that of its client.
LEMMA EntryChanges ==
    ASSUME IInv, NEW c \in Clients, c \in Connected, Found(c) # {},
           NEW e \in Entries, e.sock = fd[c],
           client_t_array' = [client_t_array EXCEPT ![GetStructWithSock(c)] = e],
           UNCHANGED <<client_cnt, fd>>
    PROVE  /\ client_t_array' \in [0 .. EPOLL_SIZE - 1 -> Entries]
           /\ \A i \in 0 .. client_cnt - 1 :
                client_t_array'[i].sock = client_t_array[i].sock
           /\ Entry(c)' = e /\ Level(c)' = e.level
           /\ \A d \in Clients \ {c} : out_of_order \/ SameEntry(d)
  <1>1. PICK g : g = GetStructWithSock(c)
    OBVIOUS
  <1>2. /\ g \in 0 .. client_cnt - 1 /\ g \in 0 .. EPOLL_SIZE - 1
        /\ client_t_array[g].sock = fd[c]
    BY <1>1, FoundEntry
  <1>3. /\ client_t_array \in [0 .. EPOLL_SIZE - 1 -> Entries] /\ client_cnt \in Nat
        /\ 0 .. client_cnt - 1 \subseteq 0 .. EPOLL_SIZE - 1
    BY Room DEF IInv, Types, ServerTypes
  <1>4. /\ client_t_array' \in [0 .. EPOLL_SIZE - 1 -> Entries] /\ client_t_array'[g] = e
        /\ \A i \in 0 .. client_cnt - 1 : i # g => client_t_array'[i] = client_t_array[i]
    BY <1>1, <1>2, <1>3
  <1>5. \A i \in 0 .. client_cnt - 1 : client_t_array'[i].sock = client_t_array[i].sock
    BY <1>2, <1>4
  <1>6. \A d \in Clients : Found(d)' = Found(d)
    BY <1>5 DEF Found
  <1>7. GetStructWithSock(c)' = g
    BY <1>1, <1>6 DEF GetStructWithSock
  <1>8. Entry(c)' = e
    BY <1>4, <1>7 DEF Entry
  <1>9. Level(c)' = e.level
    BY <1>8 DEF Level, Connected
  <1>10. ASSUME NEW d \in Clients \ {c}, ~out_of_order PROVE SameEntry(d)
    <2>1. CASE fd[d] = 0
      BY <2>1 DEF SameEntry, Level
    <2>2. CASE fd[d] # 0
      <3>1. d \in Connected /\ fd[d] # fd[c]
        BY <2>2 DEF Connected, IInv, CountInv
      <3>2. PICK i \in 0 .. client_cnt - 1 : Own(d, i)
        BY <1>10, <3>1 DEF IInv, TableInv
      <3>3. i # g /\ Own(d, i)'
        BY <1>2, <1>5, <3>1, <3>2 DEF Own
      <3>4. Entry(d) = client_t_array[i] /\ Entry(d)' = client_t_array'[i]
        BY <1>3, <3>2, <3>3, OwnEntry, OwnEntryAfter
      <3>5. Entry(d)' = Entry(d)
        BY <1>4, <3>3, <3>4
      <3> QED BY <2>2, <3>5 DEF SameEntry, Level
    <2> QED BY <2>1, <2>2
  <1> QED BY <1>4, <1>5, <1>8, <1>9, <1>10

\* What is left of what a client has sent.
LEMMA RestSent ==
    ASSUME IInv, NEW c \in Clients, NEW n \in 0 .. Len(out[c]),
           NEW r \in Seq(ToServerItems), Len(r) = Len(out[c]) - n,
           \A i \in 1 .. Len(out[c]) - n : r[i] = out[c][n + i]
    PROVE  /\ Has(r, "SHOW") => pc[c] \in Waiting
           /\ Has(r, "rest") => pc[c] \in Waiting /\ c \in excused
           /\ Has(r, "DOWNLOAD") => pc[c] \in {"download"} \cup Departed
           /\ \A i \in 1 .. Len(r) : r[i].type = "file_t" /\ r[i].size = 0 =>
                pc[c] \in Departed /\ Len(r) = i
  <1>1. PICK l \in Nat : l = Len(out[c]) /\ n \in 0 .. l /\ Len(r) = l - n
    BY OwnTypes
  <1>2. \A i \in 1 .. l - n : n + i \in 1 .. l /\ (n + i = l => i = l - n)
    BY <1>1
  <1>3. SentInv(c)
    BY DEF IInv, ClientInv
  <1>4. \A type : Has(r, type) => Has(out[c], type)
    BY <1>1, <1>2 DEF Has
  <1>5. ASSUME NEW i \in 1 .. Len(r), r[i].type = "file_t", r[i].size = 0
        PROVE  pc[c] \in Departed /\ Len(r) = i
    <2>1. n + i \in 1 .. l /\ r[i] = out[c][n + i]
      BY <1>1, <1>2
    <2>2. pc[c] \in Departed /\ l = n + i
      BY <1>1, <1>3, <1>5, <2>1 DEF SentInv
    <2> QED BY <1>1, <1>2, <2>2
  <1> QED BY <1>3, <1>4, <1>5 DEF SentInv

LEMMA TailSent ==
    ASSUME IInv, NEW c \in Clients, out[c] # << >>
    PROVE  LET r == Tail(out[c])
           IN  /\ Has(r, "SHOW") => pc[c] \in Waiting
               /\ Has(r, "rest") => pc[c] \in Waiting /\ c \in excused
               /\ Has(r, "DOWNLOAD") => pc[c] \in {"download"} \cup Departed
               /\ \A i \in 1 .. Len(r) : r[i].type = "file_t" /\ r[i].size = 0 =>
                    pc[c] \in Departed /\ Len(r) = i
  <1>1. out[c] \in Seq(ToServerItems) /\ Len(out[c]) \in Nat \ {0}
    BY OwnTypes, TailOf
  <1>2. /\ Tail(out[c]) \in Seq(ToServerItems) /\ Len(Tail(out[c])) = Len(out[c]) - 1
        /\ \A i \in 1 .. Len(Tail(out[c])) : Tail(out[c])[i] = out[c][i + 1]
    BY <1>1, TailOf
  <1>3. \A i \in 1 .. Len(out[c]) - 1 : Tail(out[c])[i] = out[c][1 + i]
    BY <1>1, <1>2
  <1>4. 1 \in 0 .. Len(out[c])
    BY <1>1
  <1> QED BY <1>2, <1>3, <1>4, RestSent

\* What is known when the event loop has read a request.
LEMMA Reads ==
    ASSUME IInv, NEW c \in Clients, NEW option, Requested(c, option)
    PROVE  /\ alive /\ thread = Joined /\ thread.client # c /\ c \in Connected
           /\ out[c] \in Seq(ToServerItems) /\ out[c] # << >> /\ Len(out[c]) > 0
           /\ out[c][1].type \in {option, "rest"} /\ Head(out[c]) = out[c][1]
           /\ out[c][1].type = "rest" =>
                OnlyRest(out[c]) /\ Tail(out[c]) = << >> /\ pc[c] \in Waiting
           /\ out[c][1].text \in Texts
           /\ Tail(out[c]) \in Seq(ToServerItems) /\ out'[c] = Tail(out[c])
           /\ out' = [out EXCEPT ![c] = Tail(out[c])]
           /\ Requests(out[c]) /\ ~Moving(Tail(out[c]))
           /\ pc[c] \notin {"away", "prompt"}
           /\ \A i \in 1 .. Len(in[c]) : in[c][i].type # "directory"
           /\ pc[c] \in Departed => cut
           /\ Found(c) = {} => out_of_order
           /\ pc[c] = "count" /\ c \notin excused => in[c] = << >>
  <1>1. /\ alive /\ thread.at = "loop" /\ fd[c] # 0 /\ out[c] # << >>
        /\ Head(out[c]).type \in {option, "rest"} /\ out' = [out EXCEPT ![c] = Tail(out[c])]
    BY DEF Requested, Looping
  <1>2. thread = Joined /\ thread.client # c
    BY <1>1, Constants DEF IInv, ThreadInv, Joined
  <1>3. /\ out[c] \in Seq(ToServerItems) /\ Tail(out[c]) \in Seq(ToServerItems)
        /\ Head(out[c]) = out[c][1] /\ out[c][1] \in ToServerItems
    BY <1>1, OwnTypes
  <1>4. out'[c] = Tail(out[c])
    BY <1>1 DEF IInv, Types, StreamTypes
  <1>5. ClientInv(c)
    BY DEF IInv
  <1>6. Requests(out[c])
    BY <1>2, <1>5 DEF ClientInv, ReadInv
  <1>7. ~Moving(Tail(out[c]))
    BY <1>1, <1>3, <1>6, NotMoving
  <1>8. pc[c] \notin {"away", "prompt"}
    BY <1>1, <1>5 DEF ClientInv, SentInv
  <1>9. \A i \in 1 .. Len(in[c]) : in[c][i].type # "directory"
    BY <1>1, <1>5 DEF ClientInv, AnswerInv
  <1>10. pc[c] \in Departed => cut
    BY <1>1, <1>5 DEF ClientInv, CutInv
  <1>11. c \in Connected /\ (Found(c) = {} => out_of_order)
    <2>1. c \in Connected
      BY <1>1 DEF Connected
    <2>2. \A i : Own(c, i) => i \in Found(c)
      BY DEF Own, Found
    <2> QED BY <2>1, <2>2 DEF IInv, TableInv
  <1>12. pc[c] = "count" /\ c \notin excused => in[c] = << >>
    <2>1. Len(in[c]) = 1 => 1 \in 1 .. Len(in[c])
      OBVIOUS
    <2> QED BY <1>5, <1>9, <2>1 DEF ClientInv, ReplyInv
  <1>13. out[c][1].text \in Texts /\ Len(out[c]) > 0
    BY <1>1, <1>3, TailOf DEF ToServerItems
  <1>14. out[c][1].type = "rest" =>
            OnlyRest(out[c]) /\ Tail(out[c]) = << >> /\ pc[c] \in Waiting
    <2>1. out[c][1].type = "rest" => OnlyRest(out[c])
      BY <1>1, <1>6 DEF Requests, OnlyShow
    <2>2. OnlyRest(out[c]) => Tail(out[c]) = << >> /\ Has(out[c], "rest")
      BY <1>1, <1>3, TailOf DEF OnlyRest, Has
    <2> QED BY <1>5, <2>1, <2>2 DEF ClientInv, SentInv
  <1> QED BY <1>1, <1>2, <1>3, <1>4, <1>6, <1>7, <1>8, <1>9, <1>10, <1>11, <1>12, <1>13,
             <1>14

\* A request that leaves the loop where it is.
LEMMA AfterRequest ==
    ASSUME IInv, NEW c \in Clients,
           NEW option \in {"SHOW", "MOVEDIR", "DOWNLOAD", "rest"},
           Requested(c, option), thread' = thread \/ thread'.client = None,
           UNCHANGED pc, excused \subseteq excused'
    PROVE  /\ ReadInv(c)' /\ SentInv(c)' /\ pc[c] # "upload"
           /\ pc[c] = "download" => option = "DOWNLOAD" /\ Tail(out[c]) = << >>
           /\ option = "SHOW" => pc[c] \in Waiting /\ Tail(out[c]) = << >>
           /\ option = "DOWNLOAD" =>
                \/ pc[c] \in {"download"} \cup Departed
                \/ pc[c] \in Waiting /\ c \in excused
  <1>1. SentInv(c)
    BY DEF IInv, ClientInv
  <1>2. Requests(<< >>) /\ \A q : OnlyShow(q) => Requests(q)
    BY DEF Requests
  <1>3. option = "SHOW" => Tail(out[c]) = << >>
    BY Reads, TailOf DEF Requests, OnlyShow, OnlyRest
  <1>4. ReadInv(c)'
    <2>1. Requests(Tail(out[c]))
      <3>1. /\ out[c][1].type \in {option, "rest"} /\ Requests(out[c]) /\ out[c] # << >>
            /\ out[c][1].type = "rest" => Tail(out[c]) = << >>
        BY Reads
      <3>2. OnlyShow(out[c]) => option = "SHOW"
        BY <3>1 DEF OnlyShow
      <3>3. option = "SHOW" \/ Tail(out[c]) = << >> \/ OnlyShow(Tail(out[c]))
        BY <3>1, <3>2 DEF Requests, OnlyRest
      <3> QED BY <1>2, <1>3, <3>3
    <2>2. thread'.client # c
      BY Reads, Constants
    <2> QED BY <2>1, <2>2, Reads DEF ReadInv
  <1>5. pc[c] # "upload"
    BY <1>1, Reads DEF SentInv
  <1>6. pc[c] = "download" => option = "DOWNLOAD" /\ Tail(out[c]) = << >>
    BY <1>1, Reads, TailOf DEF SentInv
  <1>7. SentInv(c)'
    <2>1. PICK r : r = Tail(out[c])
      OBVIOUS
    <2>2. /\ out'[c] = r /\ pc'[c] = pc[c] /\ thread'.client # c
          /\ pc[c] \notin {"away", "prompt", "upload"} /\ out[c] # << >>
      BY <1>5, <2>1, Reads, Constants
    <2>3. /\ Has(r, "SHOW") => pc[c] \in Waiting
          /\ Has(r, "rest") => pc[c] \in Waiting /\ c \in excused
          /\ Has(r, "DOWNLOAD") => pc[c] \in {"download"} \cup Departed
          /\ \A i \in 1 .. Len(r) : r[i].type = "file_t" /\ r[i].size = 0 =>
                pc[c] \in Departed /\ Len(r) = i
      BY <2>1, <2>2, TailSent
    <2>4. pc[c] = "download" => r = << >>
      BY <1>6, <2>1
    <2> QED BY <2>2, <2>3, <2>4 DEF SentInv
  <1>8. Has(out[c], option) \/ Has(out[c], "rest")
    BY Reads DEF Has
  <1> QED BY <1>1, <1>3, <1>4, <1>5, <1>6, <1>7, <1>8 DEF SentInv

\* What is written to a client.
LEMMA Replies ==
    ASSUME IInv, NEW c \in Clients, NEW option, Requested(c, option),
           NEW items \in Seq(ToClientItems), Reply(c, items)
    PROVE  /\ in' \in [Clients -> Seq(ToClientItems)]
           /\ pc[c] \in Departed => in'[c] = in[c]
           /\ pc[c] \notin Departed => in'[c] = in[c] \o items /\ alive'
           /\ \A d \in Clients \ {c} : in'[d] = in[d]
           /\ alive' \in BOOLEAN /\ (alive' \/ cut)
  <1>1. in \in [Clients -> Seq(ToClientItems)] /\ alive
    BY Reads DEF IInv, Types, StreamTypes
  <1>2. CASE Gone(c)
    BY <1>1, <1>2, Reads DEF Reply, Gone, Departed
  <1>3. CASE ~Gone(c)
    <2>1. in[c] \o items \in Seq(ToClientItems)
      BY <1>1
    <2>2. in' = [in EXCEPT ![c] = in[c] \o items] /\ alive' = alive
      BY <1>3 DEF Reply
    <2> QED BY <1>1, <1>3, <2>1, <2>2 DEF Gone, Departed
  <1> QED BY <1>2, <1>3

LEMMA NullEntryInv == ASSUME IInv, NEW c \in Clients, NullEntry(c) PROVE IInv'
  <1>1. PICK option \in {"SHOW", "MOVEDIR", "DOWNLOAD"} : Requested(c, option)
    BY DEF NullEntry
  <1>2. /\ Found(c) = {} /\ ~alive'
        /\ UNCHANGED <<client_cnt, client_t_array, fd, thread, disk>>
        /\ UNCHANGED <<pc, file, file_len, file_t_array, in, where, out_of_order, cut,
                       excused>>
    BY DEF NullEntry, server, client, history, events
  <1>3. out_of_order
    BY <1>1, <1>2, Reads
  <1>4. ServerTypes' /\ StreamTypes' /\ EventTypes'
    <2>1. alive' \in BOOLEAN
      BY DEF NullEntry
    <2>2. StreamTypes'
      <3>1. /\ out' = [out EXCEPT ![c] = Tail(out[c])]
            /\ Tail(out[c]) \in Seq(ToServerItems)
        BY <1>1, Reads
      <3> QED BY <1>2, <3>1 DEF IInv, Types, StreamTypes
    <2> QED BY <1>2, <2>1, <2>2 DEF IInv, Types, ServerTypes, EventTypes
  <1>5. ThreadInv'
    BY <1>1, <1>2, Reads DEF ThreadInv, Joined
  <1>6. \A d \in Clients \ {c} : SameClient(d)
    BY <1>1, <1>2, Reads DEF SameClient, IInv, Types, StreamTypes
  <1>7. ReadInv(c)' /\ SentInv(c)'
    BY <1>1, <1>2, AfterRequest
  <1>8. AnswerInv(c)' /\ LevelInv(c)' /\ ShownInv(c)'
    BY <1>1, <1>2, <1>3, Reads DEF AnswerInv, LevelInv, ShownInv
  <1>9. ReplyInv(c)'
    BY <1>2 DEF IInv, ClientInv, ReplyInv, Told
  <1>10. CutInv(c)'
    BY <1>1, <1>2, Reads DEF CutInv
  <1>11. ClientInv(c)'
    BY <1>7, <1>8, <1>9, <1>10 DEF ClientInv
  <1>12. Onward /\ StaysUp'
    BY <1>2, <1>3 DEF Onward, StaysUp
  <1> QED BY <1>2, <1>3, <1>4, <1>5, <1>6, <1>11, <1>12, ServerStepInv

LEMMA WrongCommandInv == ASSUME IInv, NEW c \in Clients, WrongCommand(c) PROVE IInv'
  <1>1. /\ Requested(c, "rest")
        /\ UNCHANGED <<client_cnt, client_t_array, fd, thread, disk>>
        /\ UNCHANGED <<pc, file, file_len, file_t_array, in, alive, where, out_of_order,
                       cut, excused>>
    BY DEF WrongCommand, server, client, history, events
  <1>2. /\ out' = [out EXCEPT ![c] = Tail(out[c])] /\ Tail(out[c]) \in Seq(ToServerItems)
        /\ thread = Joined /\ out[c][1].type = "rest" /\ out'[c] = << >>
    BY <1>1, Reads
  <1>3. ServerTypes' /\ StreamTypes' /\ EventTypes'
    BY <1>1, <1>2 DEF IInv, Types, ServerTypes, StreamTypes, EventTypes
  <1>4. ThreadInv'
    BY <1>1, <1>2 DEF ThreadInv, Joined
  <1>5. \A d \in Clients \ {c} : SameClient(d)
    BY <1>1, <1>2 DEF SameClient, IInv, Types, StreamTypes
  <1>6. \A d \in Clients : SameEntry(d) /\ Level(d)' = Level(d)
    BY <1>1, TableRests
  <1>7. ReadInv(c)' /\ SentInv(c)' /\ pc[c] # "download"
    BY <1>1, AfterRequest
  <1>8. AnswerInv(c)' /\ ShownInv(c)' /\ CutInv(c)'
    BY <1>1, Reads DEF AnswerInv, ShownInv, CutInv
  <1>9. LevelInv(c)'
    BY <1>1, <1>2, <1>6 DEF IInv, ClientInv, LevelInv, Live, Moving
  <1>10. ReplyInv(c)'
    BY <1>1, <1>7 DEF IInv, ClientInv, ReplyInv
  <1>11. ClientInv(c)'
    BY <1>7, <1>8, <1>9, <1>10 DEF ClientInv
  <1>12. Onward /\ StaysUp'
    BY <1>1 DEF Onward, StaysUp, IInv
  <1> QED BY <1>1, <1>3, <1>4, <1>5, <1>6, <1>11, <1>12, ServerStepInv

LEMMA NotOpenedInv == ASSUME IInv, NEW c \in Clients, NotOpened(c) PROVE IInv'
  <1>1. PICK option \in {"SHOW", "MOVEDIR", "DOWNLOAD"} : Requested(c, option)
    BY DEF NotOpened
  <1>2. /\ ~alive' /\ alive' \in BOOLEAN
        /\ UNCHANGED <<client_cnt, client_t_array, fd, disk>>
        /\ UNCHANGED <<pc, file, file_len, file_t_array, in, where, out_of_order, cut,
                       excused>>
    BY DEF NotOpened, client, history, events
  <1>3. /\ thread'.at = "denied" /\ thread'.client = None
        /\ thread' \in [at : {"loop", "info", "data", "denied"},
                        client : Clients \cup {None}, file : Texts, size : Nat, len : Nat]
    BY DEF NotOpened, Joined, Texts
  <1>4. /\ out' = [out EXCEPT ![c] = Tail(out[c])] /\ Tail(out[c]) \in Seq(ToServerItems)
        /\ thread = Joined
    BY <1>1, Reads
  <1>5. ServerTypes' /\ StreamTypes' /\ EventTypes'
    BY <1>2, <1>3, <1>4 DEF IInv, Types, ServerTypes, StreamTypes, EventTypes
  <1>6. ThreadInv'
    BY <1>3 DEF ThreadInv
  <1>7. \A d \in Clients \ {c} : SameClient(d)
    BY <1>2, <1>3, <1>4, Constants DEF SameClient, IInv, Types, StreamTypes, Joined
  <1>8. \A d \in Clients : SameEntry(d)
    BY <1>2, TableRests
  <1>9. ReadInv(c)' /\ SentInv(c)'
    BY <1>1, <1>2, <1>3, AfterRequest
  <1>10. AnswerInv(c)' /\ ShownInv(c)' /\ CutInv(c)'
    BY <1>1, <1>2, Reads DEF AnswerInv, ShownInv, CutInv
  <1>11. LevelInv(c)'
    BY <1>1, <1>2, Reads DEF IInv, ClientInv, LevelInv, Live
  <1>12. ReplyInv(c)'
    BY <1>2 DEF IInv, ClientInv, ReplyInv, Told
  <1>13. ClientInv(c)'
    BY <1>9, <1>10, <1>11, <1>12 DEF ClientInv
  <1>14. Onward /\ StaysUp'
    BY <1>2, <1>3 DEF Onward, StaysUp
  <1> QED BY <1>2, <1>5, <1>6, <1>7, <1>8, <1>13, <1>14, ServerStepInv

LEMMA ShowDirInv == ASSUME IInv, NEW c \in Clients, ShowDir(c) PROVE IInv'
  <1>1. PICK level, names, e, directory :
            /\ level = Entry(c).level /\ names = Listed(disk, level)
            /\ e = [Entry(c) EXCEPT !.names = names]
            /\ directory = Directory(level)
    OBVIOUS
  <1>2. /\ Requested(c, "SHOW") /\ Found(c) # {}
        /\ client_t_array' = [client_t_array EXCEPT ![GetStructWithSock(c)] = e]
        /\ Reply(c, << [type |-> "directory", directory |-> directory] >>)
        /\ UNCHANGED <<client_cnt, fd, thread, disk>>
        /\ UNCHANGED <<pc, file, file_len, file_t_array, where, out_of_order, cut,
                       excused>>
    BY <1>1 DEF ShowDir, Entry, client, history, events
  <1>3. Entry(c) \in Entries /\ level \in Levels /\ Entry(c).sock = fd[c]
    BY <1>1, <1>2, FoundEntry DEF Entry
  <1>4. names \subseteq Files /\ e \in Entries /\ e.sock = fd[c]
        /\ e.level = level /\ e.names = names
    BY <1>1, <1>3 DEF Entries, Listed
  <1>5. /\ directory \in DirectoryType /\ directory.level = level
        /\ names = {f \in Files : directory.size[f] # Absent}
    <2>1. disk \in [Levels -> [Files -> Sizes0]]
      BY DEF IInv, Types, ServerTypes
    <2>2. Absent \in Sizes0
      BY DEF Sizes0
    <2>3. \A f \in Files : disk[StartLevel][f] \in Sizes0
      BY <2>1, Constants
    <2>4. \A f \in names : disk[StartLevel][f] # Absent
      BY <1>1 DEF Listed
    <2>5. /\ directory.level = level
          /\ directory.size =
                [f \in Files |-> IF f \in names THEN disk[StartLevel][f] ELSE Absent]
          /\ directory = [level |-> level, size |-> directory.size]
      BY <1>1 DEF Directory
    <2>6. directory.size \in [Files -> Sizes0]
      BY <2>2, <2>3, <2>5
    <2>7. directory \in DirectoryType
      BY <1>3, <2>5, <2>6 DEF DirectoryType
    <2>8. \A f \in Files : f \in names <=> directory.size[f] # Absent
      BY <2>4, <2>5
    <2> QED BY <1>4, <2>5, <2>7, <2>8
  <1>6. PICK s \in ToClientItems : /\ s = [type |-> "directory", directory |-> directory]
                                   /\ s.type = "directory" /\ s.directory = directory
    <2>1. PICK s : s = [type |-> "directory", directory |-> directory]
      OBVIOUS
    <2>2. s \in [type : {"directory"}, directory : DirectoryType]
      BY <1>5, <2>1
    <2>3. s.type = "directory" /\ s.directory = directory
      BY <2>1
    <2> QED BY <2>1, <2>2, <2>3 DEF ToClientItems
  <1>7. Reply(c, << s >>) /\ << s >> \in Seq(ToClientItems)
    BY <1>2, <1>6
  <1>8. /\ in' \in [Clients -> Seq(ToClientItems)]
        /\ pc[c] \in Departed => in'[c] = in[c]
        /\ pc[c] \notin Departed => in'[c] = in[c] \o << s >> /\ alive'
        /\ \A d \in Clients \ {c} : in'[d] = in[d]
        /\ alive' \in BOOLEAN /\ (alive' \/ cut)
    BY <1>2, <1>7, Replies
  <1>9. /\ out' = [out EXCEPT ![c] = Tail(out[c])]
        /\ Tail(out[c]) \in Seq(ToServerItems)
        /\ thread.client # c /\ alive
    BY <1>2, Reads
  <1>10. c \in Connected
    BY <1>2, Reads
  <1>11. /\ client_t_array' \in [0 .. EPOLL_SIZE - 1 -> Entries]
         /\ \A i \in 0 .. client_cnt - 1 : client_t_array'[i].sock = client_t_array[i].sock
         /\ Entry(c)' = e /\ Level(c)' = e.level
         /\ \A d \in Clients \ {c} : out_of_order \/ SameEntry(d)
    BY <1>2, <1>4, <1>10, EntryChanges
  <1>12. ServerTypes' /\ StreamTypes' /\ EventTypes'
    <2>1. ServerTypes'
      BY <1>2, <1>11 DEF IInv, Types, ServerTypes
    <2>2. StreamTypes'
      BY <1>8, <1>9 DEF IInv, Types, StreamTypes
    <2> QED BY <1>2, <1>8, <2>1, <2>2 DEF IInv, Types, EventTypes
  <1>13. ThreadInv'
    BY <1>2, Reads DEF ThreadInv, Joined
  <1>14. \A d \in Clients \ {c} : SameClient(d)
    BY <1>2, <1>8, <1>9 DEF SameClient, IInv, Types, StreamTypes
  <1>15. /\ ReadInv(c)' /\ SentInv(c)' /\ pc[c] # "upload"
         /\ pc[c] \in Waiting /\ out'[c] = << >>
    BY <1>2, Reads, AfterRequest
  <1>16. \A i \in 1 .. Len(in'[c]) :
            in'[c][i].type = "directory" =>
                i = Len(in'[c]) /\ in'[c][i].directory = directory /\ pc[c] \notin Departed
    <2>1. CASE pc[c] \in Departed
      <3>1. \A i \in 1 .. Len(in[c]) : in[c][i].type # "directory"
        BY <1>2, Reads
      <3> QED BY <1>8, <2>1, <3>1
    <2>2. CASE pc[c] \notin Departed
      <3>1. PICK q \in Seq(ToClientItems) : q = in[c] /\ in'[c] = q \o << s >>
        BY <1>8, <2>2, OwnTypes
      <3>2. \A i \in 1 .. Len(q) : q[i].type # "directory"
        BY <1>2, <3>1, Reads
      <3>3. /\ Len(q \o << s >>) = Len(q) + 1 /\ (q \o << s >>)[Len(q) + 1] = s
            /\ \A i \in 1 .. Len(q) : (q \o << s >>)[i] = q[i]
        BY <1>6, OneMore
      <3> QED BY <1>6, <2>2, <3>1, <3>2, <3>3
    <2> QED BY <2>1, <2>2
  <1>17. AnswerInv(c)'
    BY <1>2, <1>15, <1>16, Reads DEF AnswerInv, Waiting, Departed
  <1>18. LevelInv(c)'
    <2>1. out[c][1].type \in {"SHOW", "rest"} /\ alive
      BY <1>2, Reads
    <2> QED BY <1>1, <1>2, <1>4, <1>10, <1>11, <1>15, <2>1
            DEF IInv, ClientInv, LevelInv, Live, Moving, Level, Connected
  <1>19. ShownInv(c)'
    BY <1>2, <1>4, <1>5, <1>10, <1>11, <1>15, <1>16
       DEF ShownInv, Shows, Connected, Waiting, Departed
  <1>20. ReplyInv(c)'
    <2>1. pc[c] = "count" /\ c \notin excused => in'[c] = << s >>
      <3>1. pc[c] = "count" /\ c \notin excused => in[c] = << >>
        BY <1>2, Reads
      <3>2. << >> \o << s >> = << s >>
        OBVIOUS
      <3> QED BY <1>8, <3>1, <3>2 DEF Departed
    <2>2. Len(<< s >>) = 1 /\ << s >>[1] = s
      OBVIOUS
    <2>3. pc[c] \notin {"show", "prompt", "upload", "download"}
      BY <1>15 DEF Waiting, Departed
    <2>4. c \notin excused => pc[c] # "garbled"
      BY DEF IInv, ClientInv, ReplyInv
    <2> QED BY <1>2, <1>6, <2>1, <2>2, <2>3, <2>4 DEF ReplyInv
  <1>21. CutInv(c)'
    BY <1>2, Reads DEF CutInv
  <1>22. ClientInv(c)'
    BY <1>15, <1>17, <1>18, <1>19, <1>20, <1>21 DEF ClientInv
  <1>23. Onward /\ StaysUp'
    BY <1>2, <1>8, <1>9 DEF Onward, StaysUp
  <1> QED BY <1>2, <1>11, <1>12, <1>13, <1>14, <1>22, <1>23, ServerStepInv

LEMMA MoveDirInv == ASSUME IInv, NEW c \in Clients, MoveDir(c) PROVE IInv'
  <1>1. PICK level : level = Entered(Entry(c).level, out[c][1].text)
    OBVIOUS
  <1>2. /\ Requested(c, "MOVEDIR") /\ Found(c) # {}
        /\ UNCHANGED <<client_cnt, fd, thread, disk>>
        /\ UNCHANGED <<pc, file, file_len, file_t_array, in, where, out_of_order, cut,
                       excused>>
    BY DEF MoveDir, client, history, events
  <1>3. /\ out' = [out EXCEPT ![c] = Tail(out[c])] /\ Tail(out[c]) \in Seq(ToServerItems)
        /\ thread.client # c /\ thread = Joined /\ alive /\ c \in Connected
        /\ Head(out[c]) = out[c][1] /\ out[c][1].type \in {"MOVEDIR", "rest"}
        /\ out[c][1].type = "rest" => OnlyRest(out[c])
        /\ out[c] # << >>
        /\ out'[c] = Tail(out[c]) /\ ~Moving(Tail(out[c]))
        /\ pc[c] \notin {"away", "prompt"}
        /\ \A i \in 1 .. Len(in[c]) : in[c][i].type # "directory"
        /\ pc[c] \in Departed => cut
    BY <1>2, Reads
  <1>4. /\ Entry(c) \in Entries /\ Entry(c).sock = fd[c]
    BY <1>2, FoundEntry DEF Entry
  <1>5. StreamTypes'
    BY <1>2, <1>3 DEF IInv, Types, StreamTypes
  <1>6. ThreadInv'
    BY <1>2, <1>3 DEF ThreadInv, Joined
  <1>7. \A d \in Clients \ {c} : SameClient(d)
    BY <1>2, <1>3 DEF SameClient, IInv, Types, StreamTypes
  <1>8. ReadInv(c)' /\ SentInv(c)' /\ pc[c] \notin {"upload", "download"}
    BY <1>2, AfterRequest
  <1>9. AnswerInv(c)' /\ ShownInv(c)' /\ CutInv(c)'
    BY <1>2, <1>3 DEF AnswerInv, ShownInv, CutInv
  <1>10. ReplyInv(c)'
    BY <1>2, <1>8 DEF IInv, ClientInv, ReplyInv
  <1>11. Live(c) /\ ~out_of_order => where[c] \in Levels /\ level = where[c]
    <2>1. out[c][1].type = "rest" => level = Entry(c).level
      BY <1>1, <1>3 DEF OnlyRest, Entered
    <2>2. Level(c) = Entry(c).level
      BY <1>3 DEF Level, Connected
    <2> QED BY <1>1, <1>3, <2>1, <2>2 DEF IInv, ClientInv, LevelInv, Moving
  <1>12. CASE level \notin Levels
    <2>1. client_t_array' = client_t_array /\ ~alive' /\ alive' \in BOOLEAN
      BY <1>1, <1>3, <1>12 DEF MoveDir, Entry
    <2>2. out_of_order \/ cut
      BY <1>3, <1>11, <1>12 DEF Live
    <2>3. ServerTypes' /\ EventTypes'
      BY <1>2, <2>1 DEF IInv, Types, ServerTypes, EventTypes
    <2>4. \A d \in Clients : SameEntry(d)
      BY <1>2, <2>1, TableRests
    <2>5. LevelInv(c)'
      BY <1>2, <1>11, <1>12 DEF LevelInv, Live
    <2>6. ClientInv(c)'
      BY <1>8, <1>9, <1>10, <2>5 DEF ClientInv
    <2>7. Onward /\ StaysUp'
      BY <1>2, <2>1, <2>2 DEF Onward, StaysUp
    <2> QED BY <1>2, <1>5, <1>6, <1>7, <2>1, <2>3, <2>4, <2>6, <2>7, ServerStepInv
  <1>13. CASE level \in Levels
    <2>1. PICK names, e : /\ names = Listed(disk, level)
                          /\ e = [sock |-> fd[c], level |-> level, names |-> names]
      OBVIOUS
    <2>2. e \in Entries /\ e.sock = fd[c] /\ e.level = level
      <3>1. fd[c] \in 0 .. Cardinality(Clients) /\ names \subseteq Files
        BY <2>1, OwnTypes DEF Listed
      <3> QED BY <1>13, <2>1, <3>1 DEF Entries
    <2>3. alive' = alive
          /\ client_t_array' = [client_t_array EXCEPT ![GetStructWithSock(c)] = e]
      <3>1. PICK g : g = GetStructWithSock(c)
        OBVIOUS
      <3>2. /\ client_t_array' = [client_t_array EXCEPT ![g].level = level,
                                                        ![g].names = names]
            /\ alive' = alive
        BY <1>1, <1>3, <1>13, <2>1, <3>1 DEF MoveDir, Entry
      <3>3. /\ client_t_array \in [0 .. EPOLL_SIZE - 1 -> Entries]
            /\ g \in 0 .. EPOLL_SIZE - 1 /\ client_t_array[g].sock = fd[c]
        BY <1>2, <3>1, FoundEntry DEF IInv, Types, ServerTypes
      <3>4. client_t_array[g] \in Entries
        BY <3>3
      <3>5. [[client_t_array[g] EXCEPT !.level = level] EXCEPT !.names = names] = e
        <4>1. PICK x \in Entries : x = client_t_array[g] /\ x.sock = fd[c]
          BY <3>3, <3>4
        <4>2. x = [sock |-> fd[c], level |-> x.level, names |-> x.names]
          BY <4>1 DEF Entries
        <4>3. PICK l, ns : x = [sock |-> fd[c], level |-> l, names |-> ns]
          BY <4>2
        <4>4. [x EXCEPT !.level = level] =
                    [sock |-> fd[c], level |-> level, names |-> ns]
          BY <4>3
        <4>5. [[sock |-> fd[c], level |-> level, names |-> ns] EXCEPT !.names = names] = e
          BY <2>1
        <4> QED BY <4>1, <4>4, <4>5
      <3>6. client_t_array' =
                [client_t_array EXCEPT
                    ![g] = [[client_t_array[g] EXCEPT !.level = level]
                                EXCEPT !.names = names]]
        BY <3>2, <3>3
      <3> QED BY <3>1, <3>2, <3>5, <3>6
    <2>4. /\ client_t_array' \in [0 .. EPOLL_SIZE - 1 -> Entries]
          /\ \A i \in 0 .. client_cnt - 1 : client_t_array'[i].sock = client_t_array[i].sock
          /\ Level(c)' = level
          /\ \A d \in Clients \ {c} : out_of_order \/ SameEntry(d)
      BY <1>2, <1>3, <2>2, <2>3, EntryChanges
    <2>5. ServerTypes' /\ EventTypes'
      BY <1>2, <2>3, <2>4 DEF IInv, Types, ServerTypes, EventTypes
    <2>6. LevelInv(c)'
      BY <1>2, <1>3, <1>11, <2>4 DEF LevelInv, Live
    <2>7. ClientInv(c)'
      BY <1>8, <1>9, <1>10, <2>6 DEF ClientInv
    <2>8. Onward /\ StaysUp'
      BY <1>2, <1>3, <2>3 DEF Onward, StaysUp
    <2> QED BY <1>2, <1>5, <1>6, <1>7, <2>4, <2>5, <2>7, <2>8, ServerStepInv
  <1> QED BY <1>12, <1>13

LEMMA SendFileInv == ASSUME IInv, NEW c \in Clients, SendFile(c) PROVE IInv'
  <1>1. PICK sent \in Int :
            /\ IF sent = 0 THEN UNCHANGED <<in, alive>> ELSE Reply(c, Data(sent))
            /\ excused' = IF NotAsShown(c, sent) THEN excused \cup {c} ELSE excused
    <2>1. PICK f, sent : /\ f = Head(out[c]).text
                         /\ sent = IF f \in client_t_array[GetStructWithSock(c)].names
                                   THEN disk[StartLevel][f] ELSE 0
      OBVIOUS
    <2>2. sent \in Int
      <3>1. Found(c) # {}
        BY DEF SendFile
      <3>2. Entry(c).names \subseteq Files
        BY <3>1, FoundEntry
      <3>3. \A g \in Files : disk[StartLevel][g] \in Sizes0
        BY Constants DEF IInv, Types, ServerTypes
      <3>4. Sizes0 \subseteq Int
        BY DEF Sizes0, Absent
      <3>5. f \in Entry(c).names => disk[StartLevel][f] \in Int
        BY <3>2, <3>3, <3>4
      <3> QED BY <2>1, <3>5 DEF Entry
    <2> QED BY <2>1, <2>2 DEF SendFile
  <1>2. /\ Requested(c, "DOWNLOAD")
        /\ UNCHANGED <<client_cnt, client_t_array, fd, thread, disk>>
        /\ UNCHANGED <<pc, file, file_len, file_t_array, where, out_of_order, cut>>
    BY DEF SendFile, server, client
  <1>3. /\ out' = [out EXCEPT ![c] = Tail(out[c])] /\ Tail(out[c]) \in Seq(ToServerItems)
        /\ thread.client # c /\ thread = Joined /\ alive /\ c \in Connected
        /\ out[c][1].type \in {"DOWNLOAD", "rest"} /\ out[c] # << >>
        /\ out'[c] = Tail(out[c]) /\ ~Moving(Tail(out[c]))
        /\ \A i \in 1 .. Len(in[c]) : in[c][i].type # "directory"
        /\ pc[c] \in Departed => cut
    BY <1>2, Reads
  <1>4. PICK items : /\ items \in Seq(ToClientItems) /\ items = Data(sent)
                     /\ sent \in Nat => Len(items) = sent
                     /\ \A i \in 1 .. Len(items) : items[i].type = "data"
    <2>1. [type : {"data"}, text : {"none"}, size : {1}] \subseteq ToClientItems
      BY DEF ToClientItems
    <2>2. Data(sent) \in Seq([type : {"data"}, text : {"none"}, size : {1}])
      BY DataOf
    <2>3. Data(sent) \in Seq(ToClientItems)
      BY <2>1, <2>2, SeqOfMore
    <2>4. /\ sent \in Nat => Len(Data(sent)) = sent
          /\ \A i \in 1 .. Len(Data(sent)) : Data(sent)[i].type = "data"
      BY DataOf
    <2> QED BY <2>3, <2>4
  <1>5. /\ in' \in [Clients -> Seq(ToClientItems)]
        /\ pc[c] \in Departed => in'[c] = in[c]
        /\ sent # 0 /\ pc[c] \notin Departed => in'[c] = in[c] \o items
        /\ in'[c] = in[c] \/ in'[c] = in[c] \o items
        /\ \A d \in Clients \ {c} : in'[d] = in[d]
        /\ alive' \in BOOLEAN /\ (alive' \/ cut)
    <2>1. CASE sent = 0
      BY <1>1, <1>3, <2>1 DEF IInv, Types, StreamTypes
    <2>2. CASE sent # 0
      <3>1. Reply(c, items)
        BY <1>1, <1>4, <2>2
      <3>2. /\ in' \in [Clients -> Seq(ToClientItems)]
            /\ pc[c] \in Departed => in'[c] = in[c]
            /\ pc[c] \notin Departed => in'[c] = in[c] \o items /\ alive'
            /\ \A d \in Clients \ {c} : in'[d] = in[d]
            /\ alive' \in BOOLEAN /\ (alive' \/ cut)
        BY <1>2, <1>4, <3>1, Replies
      <3> QED BY <3>2
    <2> QED BY <2>1, <2>2
  <1>6. excused' \subseteq Clients /\ excused \subseteq excused'
    BY <1>1 DEF IInv, Types, EventTypes
  <1>7. ServerTypes' /\ StreamTypes' /\ EventTypes'
    <2>1. StreamTypes'
      BY <1>3, <1>5 DEF IInv, Types, StreamTypes
    <2> QED BY <1>2, <1>5, <1>6, <2>1 DEF IInv, Types, ServerTypes, EventTypes
  <1>8. ThreadInv'
    BY <1>2, <1>3 DEF ThreadInv, Joined
  <1>9. \A d \in Clients \ {c} : SameClient(d)
    BY <1>2, <1>3, <1>5, <1>6 DEF SameClient, IInv, Types, StreamTypes
  <1>10. \A d \in Clients : SameEntry(d) /\ Level(d)' = Level(d)
    BY <1>2, TableRests
  <1>11. /\ ReadInv(c)' /\ SentInv(c)'
         /\ pc[c] = "download" => Tail(out[c]) = << >>
         /\ \/ pc[c] \in {"download"} \cup Departed
            \/ pc[c] \in Waiting /\ c \in excused
    BY <1>2, <1>6, AfterRequest
  <1>12. \A i \in 1 .. Len(in'[c]) : in'[c][i].type # "directory"
    <2>1. PICK q \in Seq(ToClientItems), r \in Seq(ToClientItems) : q = in[c] /\ r = items
      BY <1>4, OwnTypes
    <2>2. \A i \in 1 .. Len(q \o r) :
            \/ i \in 1 .. Len(q) /\ (q \o r)[i] = q[i]
            \/ \E j \in 1 .. Len(r) : (q \o r)[i] = r[j]
      <3> TAKE i \in 1 .. Len(q \o r)
      <3>1. CASE i \in 1 .. Len(q)
        BY <3>1
      <3>2. CASE i \notin 1 .. Len(q)
        <4>1. i - Len(q) \in 1 .. Len(r) /\ (q \o r)[i] = r[i - Len(q)]
          BY <3>2
        <4> QED BY <4>1
      <3> QED BY <3>1, <3>2
    <2>3. /\ \A i \in 1 .. Len(q) : q[i].type # "directory"
          /\ \A j \in 1 .. Len(r) : r[j].type # "directory"
      BY <1>3, <1>4, <2>1
    <2>4. \A i \in 1 .. Len(q \o r) : (q \o r)[i].type # "directory"
      BY <2>2, <2>3
    <2>5. in'[c] = q \/ in'[c] = q \o r
      BY <1>5, <2>1
    <2> QED BY <2>3, <2>4, <2>5
  <1>13. AnswerInv(c)' /\ ShownInv(c)' /\ CutInv(c)'
    BY <1>2, <1>3, <1>11, <1>12 DEF AnswerInv, ShownInv, CutInv, Departed, Waiting
  <1>14. LevelInv(c)'
    BY <1>2, <1>3, <1>10 DEF IInv, ClientInv, LevelInv, Live, Moving
  <1>15. ReplyInv(c)'
    <2>1. pc[c] = "download" => file[c] \in Files /\ Told(c) \in Nat
      BY DEF IInv, ClientInv, ReplyInv
    <2>2. Told(c)' = Told(c)
      BY <1>2 DEF Told
    <2>3. ASSUME pc[c] = "download", c \notin excused'
          PROVE  /\ out'[c] = << >> /\ file_len'[c] + Len(in'[c]) = Told(c)
                 /\ file_len'[c] < Told(c)
      <3>1. sent # 0 /\ sent = Told(c)
        BY <1>1, <2>3 DEF NotAsShown, Told
      <3>2. in[c] = << >> /\ file_len[c] = 0
        BY <1>3, <1>6, <2>3 DEF IInv, ClientInv, ReplyInv
      <3>3. in'[c] = items /\ Len(items) = sent
        <4>1. << >> \o items = items
          BY <1>4
        <4> QED BY <1>4, <1>5, <2>1, <2>3, <3>1, <3>2, <4>1 DEF Departed
      <3>4. file_len'[c] = 0 /\ Len(in'[c]) = sent /\ out'[c] = << >>
        BY <1>2, <1>3, <1>11, <2>3, <3>2, <3>3
      <3>5. PICK told \in Nat : told = Told(c) /\ sent = told /\ told # 0
        BY <2>1, <2>3, <3>1
      <3> QED BY <3>4, <3>5
    <2> QED BY <1>2, <1>6, <1>11, <2>1, <2>2, <2>3 DEF ReplyInv, Departed, Waiting
  <1>16. ClientInv(c)'
    BY <1>11, <1>13, <1>14, <1>15 DEF ClientInv
  <1>17. Onward /\ StaysUp'
    BY <1>2, <1>3, <1>5 DEF Onward, StaysUp
  <1> QED BY <1>2, <1>7, <1>8, <1>9, <1>10, <1>16, <1>17, ServerStepInv

LEMMA GetFileInv == ASSUME IInv, NEW c \in Clients, GetFile(c) PROVE IInv'
  <1>1. /\ Requested(c, "UPLOAD")
        /\ thread' = [Joined EXCEPT !.at = "info", !.client = c]
        /\ UNCHANGED <<client_cnt, client_t_array, fd, disk>>
        /\ UNCHANGED <<pc, file, file_len, file_t_array, in, alive, where, out_of_order,
                       cut, excused>>
    BY DEF GetFile, client, history, events
  <1>2. /\ out' = [out EXCEPT ![c] = Tail(out[c])] /\ Tail(out[c]) \in Seq(ToServerItems)
        /\ thread.client # c /\ thread = Joined /\ c \in Connected
        /\ out[c][1].type \in {"UPLOAD", "rest"} /\ out[c] # << >> /\ Requests(out[c])
        /\ out[c][1].type = "rest" => Tail(out[c]) = << >> /\ pc[c] \in Waiting
        /\ out'[c] = Tail(out[c]) /\ ~Moving(Tail(out[c]))
        /\ pc[c] \notin {"away", "prompt"}
        /\ \A i \in 1 .. Len(in[c]) : in[c][i].type # "directory"
        /\ pc[c] \in Departed => cut
    BY <1>1, Reads
  <1>3. /\ thread'.at = "info" /\ thread'.client = c /\ thread'.len = 0
        /\ thread' \in [at : {"loop", "info", "data", "denied"}, client : Clients \cup {None},
                        file : Texts, size : Nat, len : Nat]
    BY <1>1 DEF Joined, Texts
  <1>4. ServerTypes' /\ StreamTypes' /\ EventTypes'
    BY <1>1, <1>2, <1>3 DEF IInv, Types, ServerTypes, StreamTypes, EventTypes
  <1>5. ThreadInv'
    BY <1>1, <1>2, <1>3 DEF ThreadInv, Connected
  <1>6. \A d \in Clients \ {c} : SameClient(d)
    <2>1. thread.client \notin Clients
      BY <1>2, Constants DEF Joined
    <2> QED BY <1>1, <1>2, <1>3, <2>1 DEF SameClient, IInv, Types, StreamTypes
  <1>7. \A d \in Clients : SameEntry(d) /\ Level(d)' = Level(d)
    BY <1>1, TableRests
  <1>8. ReadInv(c)'
    <2>1. Info(Tail(out[c]))
      BY <1>2 DEF Requests, OnlyShow, OnlyRest, Info
    <2> QED BY <1>2, <1>3, <2>1 DEF ReadInv
  <1>9. SentInv(c)'
    <2>1. SentInv(c)
      BY DEF IInv, ClientInv
    <2>2. PICK r : r = Tail(out[c])
      OBVIOUS
    <2>3. /\ Has(r, "SHOW") => pc[c] \in Waiting
          /\ Has(r, "rest") => pc[c] \in Waiting /\ c \in excused
          /\ Has(r, "DOWNLOAD") => pc[c] \in {"download"} \cup Departed
          /\ \A i \in 1 .. Len(r) : r[i].type = "file_t" /\ r[i].size = 0 =>
                pc[c] \in Departed /\ Len(r) = i
      BY <1>2, <2>2, TailSent
    <2>4. pc[c] # "download"
      BY <1>2, <2>1 DEF SentInv, Waiting, Departed
    <2>5. pc[c] = "upload" => r = << >>
      BY <1>2, <2>1, <2>2, OwnTypes, TailOf DEF SentInv
    <2>6. /\ out'[c] = r /\ pc'[c] = pc[c] /\ thread'.client = c /\ thread'.at = "info"
          /\ pc[c] \notin {"away", "prompt"} /\ excused' = excused
      BY <1>1, <1>2, <1>3, <2>2
    <2> QED BY <2>3, <2>4, <2>5, <2>6 DEF SentInv
  <1>10. AnswerInv(c)' /\ ShownInv(c)' /\ CutInv(c)'
    BY <1>1, <1>2 DEF AnswerInv, ShownInv, CutInv
  <1>11. LevelInv(c)'
    BY <1>1, <1>2, <1>7 DEF IInv, ClientInv, LevelInv, Live, Moving
  <1>12. ReplyInv(c)'
    <2>1. pc[c] # "download"
      BY <1>2 DEF IInv, ClientInv, SentInv, Waiting, Departed
    <2> QED BY <1>1, <2>1 DEF IInv, ClientInv, ReplyInv
  <1>13. ClientInv(c)'
    BY <1>8, <1>9, <1>10, <1>11, <1>12 DEF ClientInv
  <1>14. Onward /\ StaysUp'
    BY <1>1, Reads DEF Onward, StaysUp
  <1> QED BY <1>1, <1>4, <1>5, <1>6, <1>7, <1>13, <1>14, ServerStepInv

\* The thread that reads an upload.
LEMMA AtThread ==
    ASSUME IInv, NEW c \in Clients, thread.client = c, thread.at \in {"info", "data"}, alive
    PROVE  /\ c \in Connected /\ pc[c] \notin {"away", "prompt", "download"}
           /\ pc[c] = "upload" => out[c] = << >>
           /\ pc[c] \in Departed => cut
           /\ Found(c) = {} => out_of_order
           /\ \A i \in 1 .. Len(in[c]) : in[c][i].type # "directory"
           /\ thread.at = "info" => Info(out[c]) /\ thread.len = 0
           /\ thread.at = "data" =>
                /\ Found(c) # {} /\ pc[c] # "upload"
                /\ out[c] # << >> =>
                    /\ thread.len < thread.size
                    /\ DataThenShow(out[c], thread.size - thread.len)
  <1>1. ClientInv(c)
    BY DEF IInv
  <1>2. c \in Connected
    BY DEF IInv, ThreadInv
  <1>3. pc[c] \notin {"away", "prompt", "download"} /\ (pc[c] = "upload" => out[c] = << >>)
    BY <1>1 DEF ClientInv, SentInv
  <1>4. pc[c] \in Departed => cut
    BY <1>1 DEF ClientInv, CutInv
  <1>5. Found(c) = {} => out_of_order
    <2>1. \A i : Own(c, i) => i \in Found(c)
      BY DEF Own, Found
    <2> QED BY <1>2, <2>1 DEF IInv, TableInv
  <1>6. \A i \in 1 .. Len(in[c]) : in[c][i].type # "directory"
    BY <1>1 DEF ClientInv, AnswerInv
  <1>7. thread.at = "info" => Info(out[c]) /\ thread.len = 0
    BY <1>1 DEF ClientInv, ReadInv, IInv, ThreadInv
  <1>8. thread.at = "data" => Found(c) # {} /\ pc[c] # "upload"
    BY <1>1 DEF ClientInv, SentInv, IInv, ThreadInv
  <1>9. thread.at = "data" /\ out[c] # << >> =>
            /\ thread.len < thread.size
            /\ DataThenShow(out[c], thread.size - thread.len)
    BY <1>1 DEF ClientInv, ReadInv
  <1> QED BY <1>2, <1>3, <1>4, <1>5, <1>6, <1>7, <1>8, <1>9

\* What it does to the invariant of its client, apart from what was sent.
LEMMA ThreadReads ==
    ASSUME IInv, NEW c \in Clients, thread.client = c, thread.at \in {"info", "data"}, alive,
           UNCHANGED <<client_cnt, client_t_array, fd>>,
           UNCHANGED <<pc, file, file_len, file_t_array, in, where, out_of_order, cut>>,
           excused \subseteq excused', ~Moving(out'[c])
    PROVE  /\ AnswerInv(c)' /\ LevelInv(c)' /\ ShownInv(c)' /\ ReplyInv(c)' /\ CutInv(c)'
           /\ \A d \in Clients : SameEntry(d) /\ Found(d)' = Found(d)
           /\ Connected' = Connected
  <1>1. ClientInv(c)
    BY DEF IInv
  <1>2. \A d \in Clients : SameEntry(d) /\ Found(d)' = Found(d) /\ Level(d)' = Level(d)
    BY TableRests
  <1>3. Connected' = Connected
    BY DEF Connected
  <1>4. AnswerInv(c)' /\ ShownInv(c)' /\ CutInv(c)'
    BY AtThread DEF AnswerInv, ShownInv, CutInv
  <1>5. ReplyInv(c)'
    BY <1>1, AtThread DEF ClientInv, ReplyInv
  <1>6. LevelInv(c)'
    <2>1. ~Moving(out[c])
      <3>1. out[c] \in Seq(ToServerItems)
        BY OwnTypes
      <3>2. CASE thread.at = "info"
        BY <3>1, <3>2, AtThread, NotMoving
      <3>3. CASE thread.at = "data"
        <4>1. PICK k \in Int : k = thread.size - thread.len
          BY DEF IInv, Types, ServerTypes
        <4>2. thread.len < thread.size => k \in Nat
          BY <4>1 DEF IInv, Types, ServerTypes
        <4>3. out[c] # << >> => ~Moving(out[c])
          BY <3>1, <3>3, <4>1, <4>2, AtThread, NotMoving
        <4> QED BY <4>3 DEF Moving
      <3> QED BY <3>2, <3>3 DEF IInv, Types, ServerTypes
    <2> QED BY <1>1, <1>2, <2>1 DEF ClientInv, LevelInv, Live
  <1> QED BY <1>2, <1>3, <1>4, <1>5, <1>6

LEMMA ReadInfoInv == ASSUME IInv, NEW c \in Clients, ReadInfo(c) PROVE IInv'
  <1>1. /\ alive /\ thread.at = "info" /\ thread.client = c /\ out[c] # << >>
        /\ out' = [out EXCEPT ![c] = Tail(@)]
        /\ UNCHANGED <<client_cnt, client_t_array, fd, disk>>
        /\ UNCHANGED <<pc, file, file_len, file_t_array, in, where, out_of_order, cut,
                       excused>>
    BY DEF ReadInfo, client, history, events
  <1>2. PICK q \in Seq(ToServerItems), r \in Seq(ToServerItems) :
            /\ q = out[c] /\ q # << >> /\ r = Tail(q) /\ Head(q) = q[1]
            /\ q[1] \in ToServerItems
    <2>1. out[c] \in Seq(ToServerItems)
      BY OwnTypes
    <2>2. Tail(out[c]) \in Seq(ToServerItems) /\ Head(out[c]) = out[c][1]
      BY <1>1, <2>1, TailOf
    <2>3. out[c][1] \in ToServerItems
      BY <1>1, <2>1
    <2> QED BY <1>1, <2>1, <2>2, <2>3
  <1>3. out'[c] = r /\ out' = [out EXCEPT ![c] = r]
    BY <1>1, <1>2 DEF IInv, Types, StreamTypes
  <1>4. Info(q) /\ thread.len = 0 /\ c \in Connected
    BY <1>1, <1>2, AtThread
  <1>5. ~Moving(r)
    BY <1>2, <1>4, NotMoving
  <1>6. /\ AnswerInv(c)' /\ LevelInv(c)' /\ ShownInv(c)' /\ ReplyInv(c)' /\ CutInv(c)'
        /\ \A d \in Clients : SameEntry(d) /\ Found(d)' = Found(d)
        /\ Connected' = Connected
    BY <1>1, <1>3, <1>5, ThreadReads
  <1>7. /\ Has(r, "SHOW") => pc[c] \in Waiting
        /\ Has(r, "rest") => pc[c] \in Waiting /\ c \in excused
        /\ Has(r, "DOWNLOAD") => pc[c] \in {"download"} \cup Departed
        /\ \A i \in 1 .. Len(r) : r[i].type = "file_t" /\ r[i].size = 0 =>
                pc[c] \in Departed /\ Len(r) = i
        /\ pc[c] \notin {"away", "prompt", "download", "upload"}
    BY <1>1, <1>2, TailSent, AtThread
  <1>8. SentInv(c)'
    BY <1>1, <1>3, <1>7 DEF SentInv
  <1>9. CASE Found(c) = {}
    <2>1. ~alive' /\ alive' \in BOOLEAN /\ thread' = thread
      BY <1>9 DEF ReadInfo
    <2>2. ServerTypes' /\ StreamTypes' /\ EventTypes'
      BY <1>1, <1>3, <2>1 DEF IInv, Types, ServerTypes, StreamTypes, EventTypes
    <2>3. ThreadInv'
      BY <1>1, <1>4, <1>6, <2>1 DEF ThreadInv
    <2>4. \A d \in Clients \ {c} : SameClient(d)
      BY <1>1, <1>3, <2>1 DEF SameClient, IInv, Types, StreamTypes
    <2>5. ReadInv(c)'
      BY <1>1, <2>1 DEF ReadInv
    <2>6. ClientInv(c)'
      BY <1>6, <1>8, <2>5 DEF ClientInv
    <2>7. Onward /\ StaysUp'
      BY <1>1, <1>9, <2>1, AtThread DEF Onward, StaysUp
    <2> QED BY <1>1, <1>6, <2>2, <2>3, <2>4, <2>6, <2>7, ServerStepInv
  <1>10. CASE Found(c) # {}
    <2>1. PICK size \in Nat, at \in {"data", "denied"} :
            /\ q[1].type = "file_t" => size = q[1].size
            /\ thread' = [thread EXCEPT !.at = at, !.size = size, !.file = q[1].text]
            /\ alive' = alive
      <3>1. PICK size \in IF Head(out[c]).type = "file_t" THEN {Head(out[c]).size} ELSE Sizes,
                 at \in {"data", "denied"} :
                thread' = [thread EXCEPT !.at = at, !.size = size,
                                         !.file = Head(out[c]).text]
        BY <1>10 DEF ReadInfo
      <3>2. q[1].size \in Nat
        BY <1>2 DEF ToServerItems
      <3>3. size \in Nat /\ (q[1].type = "file_t" => size = q[1].size)
        BY <1>2, <3>1, <3>2, Constants
      <3>4. alive' = alive
        BY <1>10 DEF ReadInfo
      <3> QED BY <1>2, <3>1, <3>3, <3>4
    <2>2. /\ thread' \in [at : {"loop", "info", "data", "denied"},
                          client : Clients \cup {None},
                          file : Texts, size : Nat, len : Nat]
          /\ thread'.at = at /\ thread'.client = c /\ thread'.size = size
          /\ thread'.len = 0
      <3>1. q[1].text \in Texts
        BY <1>2 DEF ToServerItems
      <3> QED BY <1>1, <1>4, <2>1, <3>1 DEF IInv, Types, ServerTypes
    <2>3. ServerTypes' /\ StreamTypes' /\ EventTypes'
      BY <1>1, <1>3, <2>1, <2>2 DEF IInv, Types, ServerTypes, StreamTypes, EventTypes
    <2>4. ThreadInv'
      <3>1. Found(c)' # {}
        BY <1>6, <1>10
      <3>2. Found(thread.client)' = Found(c)'
        BY <2>2 DEF Found
      <3> QED BY <1>4, <1>6, <2>2, <3>1, <3>2 DEF ThreadInv
    <2>5. \A d \in Clients \ {c} : SameClient(d)
      BY <1>1, <1>3, <2>2 DEF SameClient, IInv, Types, StreamTypes
    <2>6. ReadInv(c)'
      <3>1. CASE OnlyShow(q)
        <4>1. Len(q) = 1 /\ q[1].type = "SHOW" /\ 1 \in 1 .. Len(q)
          BY <3>1 DEF OnlyShow
        <4>2. r = << >> /\ Has(q, "SHOW")
          BY <1>2, <4>1, TailOf DEF Has
        <4>3. pc[c] \in Waiting
          BY <1>2, <4>2 DEF IInv, ClientInv, SentInv
        <4> QED BY <1>1, <1>3, <2>2, <4>2, <4>3 DEF ReadInv
      <3>2. CASE q[1].type = "file_t" /\ size > 0 /\ DataThenShow(r, q[1].size)
        <4>1. size - 0 = size
          OBVIOUS
        <4> QED BY <1>1, <1>3, <2>1, <2>2, <3>2, <4>1 DEF ReadInv
      <3>3. CASE q[1].type = "file_t" /\ size = 0
        <4>1. 1 \in 1 .. Len(q)
          BY <1>2, TailOf
        <4>2. pc[c] \in Departed /\ Len(q) = 1
          BY <1>2, <2>1, <3>3, <4>1 DEF IInv, ClientInv, SentInv
        <4>3. r = << >>
          BY <1>2, <4>2, TailOf
        <4> QED BY <1>1, <1>3, <2>2, <4>2, <4>3 DEF ReadInv, Waiting
      <3> QED BY <1>2, <1>4, <2>1, <3>1, <3>2, <3>3 DEF Info
    <2>7. ClientInv(c)'
      BY <1>6, <1>8, <2>6 DEF ClientInv
    <2>8. Onward /\ StaysUp'
      BY <1>1, <2>1 DEF Onward, StaysUp
    <2> QED BY <1>1, <1>6, <2>3, <2>4, <2>5, <2>7, <2>8, ServerStepInv
  <1> QED BY <1>9, <1>10

\* The file is stored where the client's entry says.
LEMMA Stored ==
    ASSUME IInv, NEW c \in Clients, Found(c) # {}, NEW len \in Nat, Store(c, len),
           UNCHANGED <<client_cnt, client_t_array, fd>>
    PROVE  ServerTypes' /\ ThreadInv' /\ thread'.client = None /\ thread'.at = "loop"
  <1>1. PICK level \in Levels : level = client_t_array[GetStructWithSock(c)].level
    BY FoundEntry DEF Entry
  <1>2. PICK kept : /\ kept = [f \in Files |-> IF f = thread.file THEN len
                                                  ELSE disk[level][f]]
                    /\ disk' = [disk EXCEPT ![level] = kept]
    BY <1>1 DEF Store
  <1>3. disk \in [Levels -> [Files -> Sizes0]] /\ len \in Sizes0
    BY DEF IInv, Types, ServerTypes, Sizes0
  <1>4. kept \in [Files -> Sizes0]
    BY <1>2, <1>3
  <1>5. disk' \in [Levels -> [Files -> Sizes0]]
    BY <1>2, <1>3, <1>4
  <1>6. thread' = Joined
    BY DEF Store
  <1>7. /\ Joined \in [at : {"loop", "info", "data", "denied"}, client : Clients \cup {None},
                       file : Texts, size : Nat, len : Nat]
        /\ Joined.client = None /\ Joined.at = "loop"
    BY DEF Joined, Texts
  <1> QED BY <1>5, <1>6, <1>7 DEF IInv, Types, ServerTypes, ThreadInv

LEMMA ReadDataInv == ASSUME IInv, NEW c \in Clients, ReadData(c) PROVE IInv'
  <1>1. PICK n \in 1 .. Min({Len(out[c]), BUFSIZE}),
             rest \in {<< >>, << Request("rest", "none") >>} :
            /\ rest # << >> => out[c][n].type # "data"
            /\ out' = [out EXCEPT ![c] = rest \o SubSeq(@, n + 1, Len(@))]
            /\ IF ReceivedAll(thread.len + n) THEN Store(c, thread.len + n)
               ELSE thread' = [thread EXCEPT !.len = thread.len + n] /\ UNCHANGED disk
            /\ excused' = IF \E i \in 1 .. n : out[c][i].type # "data"
                          THEN excused \cup {c} ELSE excused
    BY DEF ReadData
  <1>2. /\ alive /\ thread.at = "data" /\ thread.client = c
        /\ UNCHANGED <<client_cnt, client_t_array, fd>>
        /\ UNCHANGED <<pc, file, file_len, file_t_array, in, alive, where, out_of_order,
                       cut>>
    BY DEF ReadData, client
  <1>3. PICK q \in Seq(ToServerItems) : q = out[c] /\ q # << >> /\ n \in 1 .. Len(q)
    BY <1>1, OwnTypes, ReadSome
  <1>4. PICK l \in Nat : l = Len(q) /\ n \in 1 .. l /\ n \in Nat
    BY <1>3
  <1>5. PICK t \in Seq(ToServerItems) :
            /\ t = SubSeq(q, n + 1, Len(q)) /\ Len(t) = l - n
            /\ \A i \in 1 .. l - n : t[i] = q[n + i]
    <2>1. n \in 0 .. Len(q)
      BY <1>4
    <2>2. /\ SubSeq(q, n + 1, Len(q)) \in Seq(ToServerItems)
          /\ Len(SubSeq(q, n + 1, Len(q))) = Len(q) - n
          /\ \A i \in 1 .. Len(q) - n : SubSeq(q, n + 1, Len(q))[i] = q[n + i]
      BY <2>1, RestOf
    <2> QED BY <1>4, <2>2
  <1>6. PICK len \in Nat, size \in Nat, k \in Nat :
            /\ len = thread.len /\ size = thread.size /\ k = size - len /\ len < size
            /\ DataThenShow(q, k)
    <2>1. thread.len \in Nat /\ thread.size \in Nat
      BY DEF IInv, Types, ServerTypes
    <2>2. thread.len < thread.size /\ DataThenShow(q, thread.size - thread.len)
      BY <1>2, <1>3, AtThread
    <2>3. thread.size - thread.len \in Nat
      BY <2>1, <2>2
    <2> QED BY <2>1, <2>2, <2>3
  <1>7. l \in {k, k + 1}
    BY <1>4, <1>6 DEF DataThenShow
  <1>8. excused' \subseteq Clients /\ excused \subseteq excused'
    BY <1>1 DEF IInv, Types, EventTypes
  <1>9. PICK r \in Seq(ToServerItems) :
            /\ out' = [out EXCEPT ![c] = r]
            /\ r = t \/ (OnlyRest(r) /\ n > k /\ pc[c] \in Waiting /\ c \in excused')
    <2>1. CASE rest = << >>
      <3>1. << >> \o t = t
        OBVIOUS
      <3> QED BY <1>1, <1>3, <1>5, <2>1, <3>1
    <2>2. CASE rest = << Request("rest", "none") >>
      <3>1. PICK s \in ToServerItems :
                s = Request("rest", "none") /\ s.type = "rest" /\ s.text = "none"
        <4>1. "rest" \in ToServer /\ "none" \in Texts /\ 0 \in Nat
          BY DEF ToServer, Texts
        <4>2. /\ Item("rest", "none", 0) \in ToServerItems
              /\ Item("rest", "none", 0).type = "rest"
              /\ Item("rest", "none", 0).text = "none"
          BY <4>1, ItemType
        <4> QED BY <4>2 DEF Request
      <3>2. q[n].type # "data"
        <4>1. << s >> # << >>
          OBVIOUS
        <4> QED BY <1>1, <1>3, <2>2, <3>1, <4>1
      <3>3. n > k
        BY <1>4, <1>6, <3>2 DEF DataThenShow
      <3>4. n = k + 1 /\ l = k + 1
        BY <1>4, <1>7, <3>3
      <3>5. t = << >>
        BY <1>5, <3>4
      <3>6. << s >> \o t = << s >> /\ << s >> \in Seq(ToServerItems)
            /\ Len(<< s >>) = 1 /\ << s >>[1] = s
        BY <3>5
      <3>7. out' = [out EXCEPT ![c] = << s >>]
        BY <1>1, <1>3, <1>5, <2>2, <3>1, <3>6
      <3>8. pc[c] \in Waiting
        <4>1. q[n].type = "SHOW" /\ n \in 1 .. Len(q)
          BY <1>4, <1>6, <3>4 DEF DataThenShow
        <4>2. Has(out[c], "SHOW")
          BY <1>3, <4>1 DEF Has
        <4> QED BY <4>2 DEF IInv, ClientInv, SentInv
      <3>9. c \in excused'
        <4>1. \E i \in 1 .. n : out[c][i].type # "data"
          BY <1>3, <1>4, <3>2
        <4> QED BY <1>1, <4>1
      <3> QED BY <3>1, <3>3, <3>6, <3>7, <3>8, <3>9 DEF OnlyRest
    <2> QED BY <2>1, <2>2
  <1>10. out'[c] = r
    BY <1>9 DEF IInv, Types, StreamTypes
  <1>11. n <= k => DataThenShow(r, k - n) /\ k - n \in Nat
    <2>1. n <= k => k - n \in Nat
      BY <1>4
    <2>2. n <= k => r = t
      BY <1>4, <1>9
    <2> QED BY <1>3, <1>5, <1>6, <2>1, <2>2, DataRest
  <1>12. n >= k => r = << >> \/ OnlyShow(r) \/ OnlyRest(r)
    <2>1. n = k => DataThenShow(r, 0)
      <3>1. n = k => k - n = 0 /\ n <= k
        BY <1>4
      <3> QED BY <1>11, <3>1
    <2>2. DataThenShow(r, 0) => r = << >> \/ OnlyShow(r)
      BY DEF DataThenShow, OnlyShow
    <2>3. n > k => t = << >>
      <3>1. n > k => l - n = 0
        BY <1>4, <1>7
      <3> QED BY <1>5, <3>1
    <2> QED BY <1>4, <1>9, <2>1, <2>2, <2>3
  <1>13. ~Moving(r)
    <2>1. r = << >> \/ OnlyShow(r) \/ OnlyRest(r) => ~Moving(r)
      BY DEF Moving, OnlyShow, OnlyRest
    <2>2. \A j \in Nat : DataThenShow(r, j) => ~Moving(r)
      BY NotMoving
    <2> QED BY <1>4, <1>11, <1>12, <2>1, <2>2
  <1>14. /\ AnswerInv(c)' /\ LevelInv(c)' /\ ShownInv(c)' /\ ReplyInv(c)' /\ CutInv(c)'
         /\ \A d \in Clients : SameEntry(d) /\ Found(d)' = Found(d)
         /\ Connected' = Connected
    BY <1>2, <1>8, <1>10, <1>13, ThreadReads
  <1>15. StreamTypes' /\ EventTypes'
    BY <1>2, <1>8, <1>9 DEF IInv, Types, StreamTypes, EventTypes
  <1>16. /\ c \in Connected /\ Found(c) # {}
         /\ pc[c] \notin {"away", "prompt", "download", "upload"}
    BY <1>2, AtThread
  <1>17. SentInv(c)'
    <2>1. CASE r = t
      <3>1. n \in 0 .. Len(out[c]) /\ Len(out[c]) = l
        BY <1>3, <1>4
      <3>2. /\ Has(t, "SHOW") => pc[c] \in Waiting
            /\ Has(t, "rest") => pc[c] \in Waiting /\ c \in excused
            /\ Has(t, "DOWNLOAD") => pc[c] \in {"download"} \cup Departed
            /\ \A i \in 1 .. Len(t) : t[i].type = "file_t" /\ t[i].size = 0 =>
                pc[c] \in Departed /\ Len(t) = i
        BY <1>3, <1>5, <3>1, RestSent
      <3> QED BY <1>2, <1>8, <1>10, <1>16, <2>1, <3>2 DEF SentInv
    <2>2. CASE OnlyRest(r) /\ pc[c] \in Waiting /\ c \in excused'
      <3>1. \A i \in 1 .. Len(r) : r[i].type = "rest"
        BY <2>2 DEF OnlyRest
      <3> QED BY <1>2, <1>10, <1>16, <2>2, <3>1 DEF SentInv, Has
    <2> QED BY <1>9, <2>1, <2>2
  <1>18. Onward /\ StaysUp'
    BY <1>2 DEF Onward, StaysUp
  <1>19. CASE ReceivedAll(thread.len + n)
    <2>1. len + n \in Nat /\ Store(c, len + n)
      BY <1>1, <1>4, <1>6, <1>19
    <2>2. ServerTypes' /\ ThreadInv' /\ thread'.client = None
      BY <1>2, <1>16, <2>1, Stored
    <2>3. n >= k
      BY <1>4, <1>6, <1>19 DEF ReceivedAll
    <2>4. ReadInv(c)'
      <3>1. Requests(r)
        BY <1>12, <2>3 DEF Requests
      <3> QED BY <1>10, <2>2, <3>1, Constants DEF ReadInv
    <2>5. \A d \in Clients \ {c} : SameClient(d)
      BY <1>2, <1>8, <1>9, <2>2, Constants DEF SameClient, IInv, Types, StreamTypes
    <2>6. ClientInv(c)'
      BY <1>14, <1>17, <2>4 DEF ClientInv
    <2> QED BY <1>2, <1>14, <1>15, <1>18, <2>2, <2>5, <2>6, ServerStepInv
  <1>20. CASE ~ReceivedAll(thread.len + n)
    <2>1. thread' = [thread EXCEPT !.len = len + n] /\ disk' = disk /\ len + n \in Nat
      BY <1>1, <1>4, <1>6, <1>20
    <2>2. /\ thread' \in [at : {"loop", "info", "data", "denied"},
                          client : Clients \cup {None}, file : Texts, size : Nat, len : Nat]
          /\ thread'.at = "data" /\ thread'.client = c /\ thread'.size = size
          /\ thread'.len = len + n
      BY <1>2, <1>6, <2>1 DEF IInv, Types, ServerTypes
    <2>3. ServerTypes'
      BY <1>2, <2>1, <2>2 DEF IInv, Types, ServerTypes
    <2>4. ThreadInv'
      <3>1. Found(thread.client)' = Found(c)'
        BY <2>2 DEF Found
      <3> QED BY <1>14, <1>16, <2>2, <3>1 DEF ThreadInv
    <2>5. n < k /\ len + n < size /\ size - (len + n) = k - n
      <3>1. ~(len + n >= size)
        BY <1>6, <1>20 DEF ReceivedAll
      <3>2. n \in Nat
        BY <1>4
      <3>3. k = size - len
        BY <1>6
      <3> QED BY <3>1, <3>2, <3>3
    <2>6. ReadInv(c)'
      <3>1. DataThenShow(r, k - n)
        BY <1>4, <1>11, <2>5
      <3> QED BY <1>10, <2>2, <2>5, <3>1 DEF ReadInv
    <2>7. \A d \in Clients \ {c} : SameClient(d)
      BY <1>2, <1>8, <1>9, <2>2 DEF SameClient, IInv, Types, StreamTypes
    <2>8. ClientInv(c)'
      BY <1>14, <1>17, <2>6 DEF ClientInv
    <2> QED BY <1>2, <1>14, <1>15, <1>18, <2>3, <2>4, <2>7, <2>8, ServerStepInv
  <1> QED BY <1>19, <1>20

LEMMA WriteNowhereInv == ASSUME IInv, NEW c \in Clients, WriteNowhere(c) PROVE IInv'
  <1>1. /\ thread.at = "denied" /\ ~alive' /\ alive' \in BOOLEAN
        /\ UNCHANGED <<client_cnt, client_t_array, fd, thread, disk, out>>
        /\ UNCHANGED <<pc, file, file_len, file_t_array, in, where, out_of_order, cut,
                       excused>>
    BY DEF WriteNowhere, server, client, history, events
  <1>2. ServerTypes' /\ StreamTypes' /\ EventTypes'
    BY <1>1 DEF IInv, Types, ServerTypes, StreamTypes, EventTypes
  <1>3. ThreadInv'
    <2>1. Connected' = Connected
      BY <1>1 DEF Connected
    <2> QED BY <1>1, <2>1 DEF IInv, ThreadInv
  <1>4. Onward /\ StaysUp'
    BY <1>1 DEF Onward, StaysUp
  <1>5. \A d \in Clients : SameClient(d) /\ SameEntry(d)
    BY <1>1, TableRests DEF SameClient
  <1>6. ClientInv(c)'
    BY <1>4, <1>5, ClientFrame DEF IInv
  <1> QED BY <1>1, <1>2, <1>3, <1>4, <1>5, <1>6, ServerStepInv

LEMMA ReadEndInv == ASSUME IInv, NEW c \in Clients, ReadEnd(c) PROVE IInv'
  <1>1. /\ alive /\ thread.at \in {"info", "data"} /\ thread.client = c
        /\ pc[c] \in Departed /\ out[c] = << >>
        /\ UNCHANGED <<client_cnt, client_t_array, fd, out>>
        /\ UNCHANGED <<pc, file, file_len, file_t_array, in, where, out_of_order, cut,
                       excused>>
    BY DEF ReadEnd, Gone, Departed, client, history, events
  <1>2. cut
    BY <1>1, AtThread
  <1>3. alive' \in BOOLEAN
    BY DEF ReadEnd
  <1>4. ServerTypes' /\ ThreadInv' /\ thread'.client = None
    <2>1. CASE thread.at = "data"
      <3>1. Store(c, thread.len) /\ Found(c) # {} /\ thread.len \in Nat
        BY <1>1, <2>1, AtThread DEF ReadEnd, IInv, Types, ServerTypes
      <3> QED BY <1>1, <3>1, Stored
    <2>2. CASE thread.at # "data"
      <3>1. thread' = Joined /\ disk' = disk
        BY <2>2 DEF ReadEnd
      <3>2. /\ Joined \in [at : {"loop", "info", "data", "denied"},
                           client : Clients \cup {None},
                           file : Texts, size : Nat, len : Nat]
            /\ Joined.client = None /\ Joined.at = "loop"
        BY DEF Joined, Texts
      <3> QED BY <1>1, <3>1, <3>2 DEF IInv, Types, ServerTypes, ThreadInv
    <2> QED BY <2>1, <2>2
  <1>5. StreamTypes' /\ EventTypes'
    BY <1>1, <1>3 DEF IInv, Types, StreamTypes, EventTypes
  <1>6. \A d \in Clients \ {c} : SameClient(d)
    BY <1>1, <1>4, Constants DEF SameClient
  <1>7. \A d \in Clients : SameEntry(d)
    BY <1>1, TableRests
  <1>8. ClientInv(c)'
    <2>1. ReadInv(c)'
      BY <1>1, <1>4, Constants DEF ReadInv, Requests
    <2>2. SentInv(c)'
      BY <1>1 DEF SentInv, Has, Departed
    <2>3. AnswerInv(c)'
      BY <1>1, AtThread DEF AnswerInv
    <2>4. LevelInv(c)' /\ ShownInv(c)' /\ ReplyInv(c)' /\ CutInv(c)'
      BY <1>1, <1>2 DEF LevelInv, Live, ShownInv, ReplyInv, CutInv, Departed
    <2> QED BY <2>1, <2>2, <2>3, <2>4 DEF ClientInv
  <1>9. Onward /\ StaysUp'
    BY <1>1, <1>2 DEF Onward, StaysUp
  <1> QED BY <1>1, <1>4, <1>5, <1>6, <1>7, <1>8, <1>9, ServerStepInv

-----------------------------------------------------------------------------
(* Clients come and go. *)

LEMMA AcceptInv == ASSUME IInv, NEW c \in Clients, Accept(c) PROVE IInv'
  <1>1. PICK sock : sock = Min({d \in 1 .. Cardinality(Clients) :
                                    \A e \in Clients : fd[e] # d})
    OBVIOUS
  <1>2. /\ alive /\ thread.at = "loop" /\ fd[c] = 0 /\ pc[c] # "away"
        /\ fd' = [fd EXCEPT ![c] = sock]
        /\ client_t_array' = [client_t_array EXCEPT ![client_cnt] = Default(sock)]
        /\ client_cnt' = client_cnt + 1
        /\ UNCHANGED <<thread, disk, pc, file, file_len, file_t_array, out, in, alive>>
        /\ UNCHANGED <<where, out_of_order, cut, excused>>
    BY <1>1 DEF Accept, Looping, NewEntry, client, history, events
  <1>3. /\ sock \in 1 .. Cardinality(Clients) /\ sock # 0
        /\ \A e \in Clients : fd[e] # sock
    BY <1>1, <1>2, FreeDescriptor
  <1>4. PICK cnt \in Nat :
            /\ cnt = client_cnt /\ cnt < EPOLL_SIZE /\ cnt \in 0 .. EPOLL_SIZE - 1
            /\ EPOLL_SIZE \in Nat
    <2>1. client_cnt \in Nat /\ Connected # Clients
      BY <1>2 DEF IInv, Types, ServerTypes, Connected
    <2>2. /\ client_cnt < Cardinality(Clients) /\ Cardinality(Clients) \in Nat
          /\ EPOLL_SIZE \in Nat /\ EPOLL_SIZE >= Cardinality(Clients)
      BY <2>1, Room, ShellAssumption
    <2> QED BY <2>1, <2>2
  <1>5. Default(sock) \in Entries /\ Default(sock).sock = sock
        /\ Default(sock).level = StartLevel
    BY <1>3, Constants DEF Default, Entries, Listed
  <1>6. /\ client_t_array' \in [0 .. EPOLL_SIZE - 1 -> Entries]
        /\ client_t_array'[cnt] = Default(sock)
        /\ \A i \in 0 .. cnt - 1 : client_t_array'[i] = client_t_array[i]
    <2>1. client_t_array \in [0 .. EPOLL_SIZE - 1 -> Entries]
      BY DEF IInv, Types, ServerTypes
    <2>2. \A i \in 0 .. cnt - 1 : i \in 0 .. EPOLL_SIZE - 1 /\ i # cnt
      BY <1>4
    <2> QED BY <1>2, <1>4, <1>5, <2>1, <2>2
  <1>7. /\ fd' \in [Clients -> 0 .. Cardinality(Clients)] /\ fd'[c] = sock
        /\ \A d \in Clients \ {c} : fd'[d] = fd[d]
    BY <1>2, <1>3 DEF IInv, Types, ServerTypes
  <1>8. client_cnt' = cnt + 1 /\ client_cnt' \in Nat
        /\ 0 .. client_cnt' - 1 = (0 .. cnt - 1) \cup {cnt} /\ cnt \notin 0 .. cnt - 1
    BY <1>2, <1>4
  <1>9. Types'
    BY <1>2, <1>6, <1>7, <1>8
       DEF IInv, Types, ServerTypes, ClientTypes, StreamTypes, EventTypes
  <1>10. Connected' = Connected \cup {c} /\ c \notin Connected
    BY <1>2, <1>3, <1>7 DEF Connected
  <1>11. CountInv'
    <2>1. Cardinality(Connected') = Cardinality(Connected) + 1
      BY <1>10, Room, FS_AddElement
    <2>2. client_cnt' = Cardinality(Connected')
      BY <1>4, <1>8, <2>1 DEF IInv, CountInv
    <2>3. \A d, e \in Connected' : fd'[d] = fd'[e] => d = e
      BY <1>3, <1>7, <1>10 DEF IInv, CountInv, Connected
    <2>4. \A d \in Connected' : pc'[d] # "away"
      BY <1>2, <1>10 DEF IInv, CountInv
    <2> QED BY <2>2, <2>3, <2>4 DEF CountInv
  <1>12. ASSUME ~out_of_order
         PROVE  /\ Own(c, cnt)'
                /\ \A d \in Connected : \E i \in 0 .. cnt - 1 : Own(d, i) /\ Own(d, i)'
                /\ \A i \in 0 .. cnt - 1 :
                    \E d \in Connected' : client_t_array'[i].sock = fd'[d]
    <2>1. \A i \in 0 .. cnt - 1 : \E d \in Connected : client_t_array[i].sock = fd[d]
      BY <1>4, <1>12 DEF IInv, TableInv
    <2>2. \A d \in Connected : d \in Clients /\ d # c /\ fd'[d] = fd[d] /\ fd[d] # sock
      BY <1>2, <1>3, <1>7 DEF Connected
    <2>3. \A i \in 0 .. cnt - 1 : client_t_array'[i].sock # sock
      BY <1>6, <2>1, <2>2
    <2>4. Own(c, cnt)'
      BY <1>5, <1>6, <1>7, <1>8, <2>3 DEF Own
    <2>5. ASSUME NEW d \in Connected
          PROVE  \E i \in 0 .. cnt - 1 : Own(d, i) /\ Own(d, i)'
      <3>1. PICK i \in 0 .. cnt - 1 : Own(d, i)
        BY <1>4, <1>12 DEF IInv, TableInv
      <3>2. Own(d, i)'
        BY <1>4, <1>5, <1>6, <1>8, <2>2, <3>1 DEF Own
      <3> QED BY <3>1, <3>2
    <2>6. \A i \in 0 .. cnt - 1 :
            \E d \in Connected' : client_t_array'[i].sock = fd'[d]
      BY <1>6, <1>10, <2>1, <2>2
    <2> QED BY <2>4, <2>5, <2>6
  <1>13. TableInv'
    <2> SUFFICES ASSUME ~out_of_order
                 PROVE  /\ \A d \in Connected' : \E i \in 0 .. client_cnt' - 1 : Own(d, i)'
                        /\ \A i \in 0 .. client_cnt' - 1 :
                            \E d \in Connected' : client_t_array'[i].sock = fd'[d]
      BY <1>2 DEF TableInv
    <2>1. client_t_array'[cnt].sock = fd'[c] /\ c \in Connected'
      BY <1>5, <1>6, <1>7, <1>10
    <2> QED BY <1>8, <1>10, <1>12, <2>1
  <1>14. ThreadInv'
    BY <1>2 DEF IInv, ThreadInv, Joined
  <1>15. ASSUME NEW d \in Clients PROVE ClientInv(d)'
    <2>1. SameClient(d) /\ Onward
      BY <1>2 DEF SameClient, Onward
    <2>2. out_of_order \/ SameEntry(d)
      <3> SUFFICES ASSUME ~out_of_order PROVE SameEntry(d)
        OBVIOUS
      <3>1. CASE d = c
        <4>1. Entry(c)' = Default(sock)
          BY <1>6, <1>8, <1>12, OwnEntryAfter
        <4> QED BY <1>2, <1>3, <1>5, <1>7, <3>1, <4>1 DEF SameEntry, Level
      <3>2. CASE d \notin Connected /\ d # c
        BY <1>7, <3>2 DEF SameEntry, Level, Connected
      <3>3. CASE d \in Connected
        <4>1. PICK i \in 0 .. cnt - 1 : Own(d, i) /\ Own(d, i)'
          BY <1>12, <3>3
        <4>2. Entry(d) = client_t_array[i] /\ Entry(d)' = client_t_array'[i]
          BY <1>4, <1>8, <4>1, OwnEntry, OwnEntryAfter
        <4>3. Entry(d)' = Entry(d)
          BY <1>6, <4>1, <4>2
        <4>4. fd'[d] = fd[d]
          BY <1>7, <1>10, <3>3
        <4> QED BY <4>3, <4>4 DEF SameEntry, Level
      <3> QED BY <3>1, <3>2, <3>3
    <2> QED BY <1>2, <2>1, <2>2, ClientFrame DEF IInv
  <1>16. StaysUp'
    BY <1>2 DEF StaysUp
  <1> QED BY <1>9, <1>11, <1>13, <1>14, <1>15, <1>16 DEF IInv

LEMMA CloseClientInv == ASSUME IInv, NEW c \in Clients, CloseClient(c) PROVE IInv'
  <1>1. /\ alive /\ thread.at = "loop" /\ fd[c] # 0 /\ pc[c] \in Departed
        /\ out[c] = << >>
        /\ client_cnt' = client_cnt - 1
        /\ fd' = [fd EXCEPT ![c] = 0] /\ pc' = [pc EXCEPT ![c] = "away"]
        /\ UNCHANGED <<client_t_array, thread, disk, file, file_len, file_t_array>>
        /\ UNCHANGED <<out, in, alive, where, cut, excused>>
    BY DEF CloseClient, Looping, CountedOut, Gone, Departed
  <1>2. /\ out_of_order => out_of_order'
        /\ ~out_of_order' => client_t_array[client_cnt - 1].sock = fd[c]
        /\ out_of_order' \in BOOLEAN
    <2>1. out_of_order' =
                (out_of_order \/ client_t_array[client_cnt - 1].sock # fd[c])
      BY DEF CloseClient
    <2> QED BY <2>1
  <1>3. c \in Connected /\ Connected' = Connected \ {c}
        /\ fd'[c] = 0 /\ pc'[c] = "away"
        /\ \A d \in Clients \ {c} : fd'[d] = fd[d] /\ pc'[d] = pc[d]
    BY <1>1 DEF Connected, IInv, Types, ServerTypes, ClientTypes
  <1>4. /\ Cardinality(Connected') = client_cnt - 1 /\ client_cnt - 1 \in Nat
        /\ client_cnt \in Nat
    <2>1. IsFiniteSet(Connected) /\ Cardinality(Connected) = client_cnt
          /\ client_cnt \in Nat
      BY Room DEF IInv, CountInv, Types, ServerTypes
    <2>2. /\ IsFiniteSet(Connected \ {c})
          /\ Cardinality(Connected \ {c}) = Cardinality(Connected) - 1
      BY <1>3, <2>1, FS_RemoveElement
    <2>3. Cardinality(Connected \ {c}) \in Nat
      BY <2>2, FS_CardinalityType
    <2> QED BY <1>3, <2>1, <2>2, <2>3
  <1>5. Types'
    <2>1. 0 \in 0 .. Cardinality(Clients)
      BY Constants
    <2>2. ServerTypes'
      BY <1>1, <1>4, <2>1 DEF IInv, Types, ServerTypes
    <2>3. ClientTypes' /\ StreamTypes'
      BY <1>1 DEF IInv, Types, ClientTypes, StreamTypes
    <2>4. EventTypes'
      BY <1>1, <1>2 DEF IInv, Types, EventTypes
    <2> QED BY <2>2, <2>3, <2>4 DEF Types
  <1>6. CountInv'
    <2>1. client_cnt' = Cardinality(Connected')
      BY <1>1, <1>4
    <2>2. /\ \A d, e \in Connected' : fd'[d] = fd'[e] => d = e
          /\ \A d \in Connected' : pc'[d] # "away"
      BY <1>3 DEF IInv, CountInv, Connected
    <2> QED BY <2>1, <2>2 DEF CountInv
  <1>7. ASSUME ~out_of_order'
        PROVE  /\ \A d \in Connected' : \E i \in 0 .. client_cnt' - 1 : Own(d, i) /\ Own(d, i)'
               /\ \A i \in 0 .. client_cnt' - 1 :
                    \E d \in Connected' : client_t_array'[i].sock = fd'[d]
    <2>1. PICK last \in 0 .. client_cnt - 1 :
            last = client_cnt - 1 /\ client_t_array[last].sock = fd[c]
      BY <1>2, <1>4, <1>7
    <2>2. 0 .. client_cnt' - 1 = (0 .. client_cnt - 1) \ {last}
      BY <1>1, <1>4, <2>1
    <2>3. Own(c, last)
      BY <1>2, <1>3, <1>7, <2>1 DEF IInv, TableInv, Own
    <2>4. ASSUME NEW d \in Connected'
          PROVE  \E i \in 0 .. client_cnt' - 1 : Own(d, i) /\ Own(d, i)'
      <3>1. d \in Connected /\ d # c /\ fd'[d] = fd[d] /\ fd[d] # fd[c]
        BY <1>3 DEF IInv, CountInv, Connected
      <3>2. PICK i \in 0 .. client_cnt - 1 : Own(d, i)
        BY <1>2, <1>7, <3>1 DEF IInv, TableInv
      <3>3. i # last
        BY <2>1, <3>1, <3>2 DEF Own
      <3>4. Own(d, i)'
        BY <1>1, <2>2, <3>1, <3>2, <3>3 DEF Own
      <3> QED BY <2>2, <3>2, <3>3, <3>4
    <2>5. ASSUME NEW i \in 0 .. client_cnt' - 1
          PROVE  \E d \in Connected' : client_t_array'[i].sock = fd'[d]
      <3>1. i \in 0 .. client_cnt - 1 /\ i # last
        BY <2>2
      <3>2. PICK d \in Connected : client_t_array[i].sock = fd[d]
        BY <1>2, <1>7, <3>1 DEF IInv, TableInv
      <3>3. d # c
        BY <2>3, <3>1, <3>2 DEF Own
      <3>4. d \in Connected' /\ fd'[d] = fd[d]
        BY <1>3, <3>3 DEF Connected
      <3> QED BY <1>1, <3>2, <3>4
    <2> QED BY <2>4, <2>5
  <1>8. TableInv'
    BY <1>7 DEF TableInv
  <1>9. ThreadInv'
    BY <1>1 DEF IInv, ThreadInv, Joined
  <1>10. ASSUME NEW d \in Clients \ {c} PROVE ClientInv(d)'
    <2>1. SameClient(d) /\ Onward
      BY <1>1, <1>2, <1>3 DEF SameClient, Onward
    <2>2. out_of_order' \/ SameEntry(d)
      <3> SUFFICES ASSUME ~out_of_order' PROVE SameEntry(d)
        OBVIOUS
      <3>1. fd'[d] = fd[d]
        BY <1>3
      <3>2. CASE fd[d] = 0
        BY <3>1, <3>2 DEF SameEntry, Level
      <3>3. CASE fd[d] # 0
        <4>1. d \in Connected'
          BY <3>1, <3>3 DEF Connected
        <4>2. PICK i \in 0 .. client_cnt' - 1 : Own(d, i) /\ Own(d, i)'
          BY <1>7, <4>1
        <4>3. Entry(d) = client_t_array[i] /\ Entry(d)' = client_t_array'[i]
          BY <1>1, <1>4, <4>2, OwnEntry, OwnEntryAfter
        <4> QED BY <1>1, <3>1, <3>3, <4>3 DEF SameEntry, Level
      <3> QED BY <3>2, <3>3
    <2> QED BY <2>1, <2>2, ClientFrame DEF IInv
  <1>11. ClientInv(c)'
    <2>1. thread'.client # c
      BY <1>1, Constants DEF IInv, ThreadInv, Joined
    <2>2. ReadInv(c)' /\ SentInv(c)'
      BY <1>1, <1>3, <2>1 DEF ReadInv, Requests, SentInv, Has
    <2>3. AnswerInv(c)'
      BY <1>1, <1>3, <2>1 DEF AnswerInv, IInv, ClientInv
    <2>4. LevelInv(c)' /\ ShownInv(c)' /\ ReplyInv(c)' /\ CutInv(c)'
      BY <1>3 DEF LevelInv, Live, ShownInv, ReplyInv, CutInv, Departed
    <2> QED BY <2>2, <2>3, <2>4 DEF ClientInv
  <1>12. StaysUp'
    BY <1>1 DEF StaysUp
  <1> QED BY <1>5, <1>6, <1>8, <1>9, <1>10, <1>11, <1>12 DEF IInv

-----------------------------------------------------------------------------
(* The invariant, and what follows from it. *)

LEMMA StepInv == ASSUME IInv, [Next]_vars PROVE IInv'
  <1>1. CASE UNCHANGED vars
    <2>1. /\ UNCHANGED <<client_cnt, client_t_array, fd, thread, disk>>
          /\ UNCHANGED <<pc, file, file_len, file_t_array, out, in, alive>>
          /\ UNCHANGED <<where, out_of_order, cut, excused>>
      BY <1>1 DEF vars, server, client, history, events
    <2>2. Types'
      <3>1. ServerTypes'
        BY <2>1 DEF IInv, Types, ServerTypes
      <3>2. ClientTypes'
        BY <2>1 DEF IInv, Types, ClientTypes
      <3>3. StreamTypes'
        BY <2>1 DEF IInv, Types, StreamTypes
      <3>4. EventTypes'
        BY <2>1 DEF IInv, Types, EventTypes
      <3> QED BY <3>1, <3>2, <3>3, <3>4 DEF Types
    <2>3. CountInv'
      <3>1. Connected' = Connected
        BY <2>1 DEF Connected
      <3> QED BY <2>1, <3>1 DEF IInv, CountInv
    <2>4. TableInv'
      <3>1. Connected' = Connected
        BY <2>1 DEF Connected
      <3>2. \A c, i : Own(c, i)' = Own(c, i)
        BY <2>1 DEF Own
      <3> QED BY <2>1, <3>1, <3>2 DEF IInv, TableInv
    <2>5. ThreadInv'
      <3>1. Found(thread.client)' = Found(thread.client)
        BY <2>1 DEF Found
      <3>2. Connected' = Connected
        BY <2>1 DEF Connected
      <3> QED BY <2>1, <3>1, <3>2 DEF IInv, ThreadInv
    <2>6. StaysUp'
      BY <2>1 DEF IInv, StaysUp
    <2>7. ASSUME NEW c \in Clients PROVE ClientInv(c)'
      <3>1. SameClient(c) /\ Onward /\ SameEntry(c)
        BY <2>1, TableRests DEF SameClient, Onward
      <3> QED BY <3>1, ClientFrame DEF IInv
    <2> QED BY <2>2, <2>7, <2>3, <2>4, <2>5, <2>6 DEF IInv
  <1>2. CASE Next
    <2>1. PICK c \in Clients : ServerStep(c) \/ ClientStep(c) \/ UserStep(c)
      BY <1>2 DEF Next
    <2>2. CASE ServerStep(c)
      BY <2>2, AcceptInv, CloseClientInv, WrongCommandInv, NullEntryInv, NotOpenedInv,
         ShowDirInv, MoveDirInv, SendFileInv, GetFileInv, ReadInfoInv, ReadDataInv,
         WriteNowhereInv, ReadEndInv DEF ServerStep
    <2>3. CASE ClientStep(c)
      BY <2>3, ShowInv, ReceiveDirectoryInv, DownloadDataInv, UploadMissingInv,
         UploadFileInv DEF ClientStep
    <2>4. CASE UserStep(c)
      BY <2>4, ConnectInv, MoveInv, DownloadInv, UploadInv, RefreshInv, QuitInv,
         InterruptInv DEF UserStep, Command
    <2> QED BY <2>1, <2>2, <2>3, <2>4
  <1> QED BY <1>1, <1>2

\* The inductive invariant of the remote shell.
THEOREM InvariantHolds == Spec => []IInv
  BY InitInv, StepInv, PTL DEF Spec

\* How many commands were typed: a bound of the model, not of the program.
CommandsBounded == commands \in 0 .. MaxCommands

\* The variables keep their types, also after the table has lost a client.
\* That the table has room for all clients is the assumption on EPOLL_SIZE: the
\* server compares client_cnt with nothing when it takes the next entry.
THEOREM TypeCorrect == Spec => []TypeOK
  <1>1. Init => CommandsBounded
    BY ShellAssumption DEF Init, CommandsBounded
  <1>2. ASSUME CommandsBounded, [Next]_vars PROVE CommandsBounded'
    BY <1>2, ShellAssumption DEF CommandsBounded, Next, ServerStep, ClientStep, UserStep,
       Command, vars
  <1>3. IInv /\ CommandsBounded => TypeOK
    <2> SUFFICES ASSUME IInv, CommandsBounded PROVE TypeOK
      OBVIOUS
    <2>1. client_cnt \in 0 .. Cardinality(Clients)
      BY Room DEF IInv, Types, ServerTypes
    <2>2. ASSUME NEW c \in Clients
          PROVE  /\ \A i \in 1 .. Len(out[c]) : out[c][i].type \in ToServer
                 /\ \A i \in 1 .. Len(in[c]) : in[c][i].type \in {"directory", "data"}
      <3>1. /\ \A i \in 1 .. Len(out[c]) : out[c][i] \in ToServerItems
            /\ \A i \in 1 .. Len(in[c]) : in[c][i] \in ToClientItems
        BY OwnTypes
      <3>2. /\ \A x \in ToServerItems : x.type \in ToServer
            /\ \A x \in ToClientItems : x.type \in {"directory", "data"}
        BY DEF ToServerItems, ToClientItems
      <3> QED BY <3>1, <3>2
    <2> QED BY <2>1, <2>2 DEF TypeOK, IInv, Types, ServerTypes, ClientTypes, EventTypes,
                              Entries, Texts, CommandsBounded
  <1> QED BY InvariantHolds, <1>1, <1>2, <1>3, PTL DEF Spec

\* Each connected client has one entry and is where its own moves led it, and
\* is shown that directory, until a client other than the last in the table
\* leaves (CloseClientConnection of the shell's server only counts down).
THEOREM OwnDirectoryAlways == Spec => []OwnDirectory
  <1>1. IInv => OwnDirectory
    <2> SUFFICES ASSUME IInv, ~out_of_order, NEW c \in Clients, fd[c] # 0
                 PROVE  /\ Cardinality(Found(c)) = 1
                        /\ pc[c] = "prompt" =>
                            /\ Entry(c).level = where[c]
                            /\ file_t_array[c].level = where[c]
                            /\ Entry(c).names =
                                {f \in Files : file_t_array[c].size[f] # Absent}
      BY DEF OwnDirectory, Entry
    <2>1. PICK i : Own(c, i)
      BY DEF IInv, TableInv, Connected
    <2>2. Found(c) = {i}
      BY <2>1, OwnEntry DEF IInv, Types, ServerTypes
    <2>3. Cardinality(Found(c)) = 1
      BY <2>2, FS_Singleton
    <2> QED BY <2>3, AtPrompt DEF Shows
  <1> QED BY InvariantHolds, <1>1, PTL

\* The event loop finds no data and no description of a file where it looks for
\* a request, however GetFile's reads cut the data up: it finds requests, and
\* the rest of one only from a client whose request was taken for data.
THEOREM RequestsFramedAlways == Spec => []RequestsFramed
  <1>1. IInv => RequestsFramed
    <2> SUFFICES ASSUME IInv, NEW c \in Clients, thread.client # c, out[c] # << >>
                 PROVE  \/ out[c][1].type \in {"SHOW", "MOVEDIR", "DOWNLOAD", "UPLOAD"}
                        \/ out[c][1].type = "rest" /\ c \in excused
      <3>1. \A c \in Clients : IInv /\ out[c] # << >> => Head(out[c]) = out[c][1]
        BY OwnTypes, TailOf
      <3> QED BY <3>1 DEF RequestsFramed
    <2>1. Requests(out[c])
      BY DEF IInv, ClientInv, ReadInv
    <2>2. OnlyRest(out[c]) => c \in excused
      <3>1. OnlyRest(out[c]) => Has(out[c], "rest")
        BY DEF OnlyRest, Has
      <3> QED BY <3>1 DEF IInv, ClientInv, SentInv
    <2> QED BY <2>1, <2>2 DEF Requests, OnlyShow, OnlyRest
  <1> QED BY InvariantHolds, <1>1, PTL

\* Receive_File_Count never takes the rest of a file for a count, but for a
\* client whose transfer did not go as it was told.
THEOREM RepliesFramedAlways == Spec => []RepliesFramed
  <1>1. IInv => RepliesFramed
    BY DEF IInv, ClientInv, ReplyInv, RepliesFramed
  <1> QED BY InvariantHolds, <1>1, PTL

\* The server does not end before a client has left out of order or in the
\* middle of something, or a file or directory could not be opened.
THEOREM StaysUpAlways == Spec => []StaysUp
  <1>1. IInv => StaysUp
    BY DEF IInv
  <1> QED BY InvariantHolds, <1>1, PTL

=============================================================================

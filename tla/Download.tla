-------------------------------- MODULE Download --------------------------------
(***************************************************************************)
(* The directory download of homework 1: download_serv.c sends one client  *)
(* the list of the files in its directory, and then again and again the    *)
(* file whose index it asks for.  Neither side says where a file ends: the *)
(* client counts up to the size it was told (download_clnt.c).             *)
(*                                                                         *)
(* Sizes are counted in pieces; a piece in the stream carries the index of *)
(* its file.  Files may change after the list was made.  starved and       *)
(* overfull remember that the client was sent less or more than it waits   *)
(* for: what it is promised holds until then.                              *)
(***************************************************************************)
EXTENDS Integers, SequencesExt, FiniteSetsExt

CONSTANTS FILE_COUNT, FileSizes, BUFSIZE,
          MaxLeft     \* bound: requests and pieces left over when the user chooses

ASSUME DownloadAssumption ==
    /\ FILE_COUNT \in Nat /\ FileSizes \subseteq Nat
    /\ BUFSIZE \in Nat \ {0} /\ MaxLeft \in Nat

VARIABLES
    up,                \* the server runs
    serv_pc, request_index,
    disk,              \* index -> size of the file now
    clnt_pc, chosen_index, file_len,
    file_t_array,      \* index -> size of the file when the list was made
    to_serv,           \* indices
    to_clnt,           \* pieces, each the index of its file
    starved, overfull  \* history

serv == <<up, serv_pc, request_index>>
clnt == <<clnt_pc, chosen_index, file_len>>
downloadVars == <<serv, clnt, disk, file_t_array, to_serv, to_clnt, starved, overfull>>

Indices == DOMAIN file_t_array
Absent == -1

\* CreateArrayFromDirectory
DownloadInit ==
    /\ \E count \in 0 .. FILE_COUNT : file_t_array \in [0 .. count - 1 -> FileSizes]
    /\ disk = file_t_array
    /\ up = TRUE /\ serv_pc = "accept" /\ request_index = 0
    /\ clnt_pc = "list" /\ chosen_index = 0 /\ file_len = 0
    /\ to_serv = << >> /\ to_clnt = << >>
    /\ starved = FALSE /\ overfull = FALSE

\* Somebody works in the server's directory, and may delete a file.
FileChanges ==
    /\ \E i \in Indices, size \in FileSizes \cup {Absent} : disk' = [disk EXCEPT ![i] = size]
    /\ UNCHANGED <<serv, clnt, file_t_array, to_serv, to_clnt, starved, overfull>>

\* accept, the count and the entries; Receive_File_Count and Receive_Files,
\* which reads an entry even if the count is 0, and there is none.
SendList ==
    /\ up /\ serv_pc = "accept"
    /\ serv_pc' = "index"
    /\ up' \in IF clnt_pc = "gone" THEN BOOLEAN ELSE {TRUE}
    /\ clnt_pc' = IF clnt_pc = "list" /\ Indices # {} THEN "prompt" ELSE clnt_pc
    /\ starved' = (Indices = {})
    /\ UNCHANGED <<request_index, chosen_index, file_len, disk, file_t_array, to_serv,
                   to_clnt, overfull>>

GetClientRequestIndex ==
    /\ up /\ serv_pc = "index" /\ to_serv # << >>
    /\ request_index' = Head(to_serv)
    /\ to_serv' = Tail(to_serv)
    /\ serv_pc' = "send"
    /\ UNCHANGED <<up, clnt, disk, file_t_array, to_clnt, starved, overfull>>

\* The client is gone: read returns 0, and the index is what the memory held.
\* Sending to nobody may raise SIGPIPE.
RequestEnd ==
    /\ up /\ serv_pc = "index" /\ to_serv = << >> /\ clnt_pc = "gone"
    /\ up' \in BOOLEAN
    /\ UNCHANGED <<serv_pc, request_index, clnt, disk, file_t_array, to_serv,
                   to_clnt, starved, overfull>>

\* fopen
Opened == request_index \in Indices /\ disk[request_index] # Absent

\* fopen and Send_File.  A file that is not there ends the server.
Send_File ==
    /\ up /\ serv_pc = "send"
    /\ IF ~Opened
       THEN up' = FALSE /\ UNCHANGED <<to_clnt, starved, overfull>>
       ELSE LET size == disk[request_index]
                told == file_t_array[request_index]
            IN  /\ IF clnt_pc = "gone" THEN up' \in BOOLEAN /\ UNCHANGED to_clnt
                   ELSE /\ to_clnt' = to_clnt \o [k \in 1 .. size |-> request_index]
                        /\ UNCHANGED up
                /\ starved' = (starved \/ size < told \/ size = 0)
                /\ overfull' = (overfull \/ size > told)
    /\ serv_pc' = "index"
    /\ UNCHANGED <<request_index, clnt, disk, file_t_array, to_serv>>

-----------------------------------------------------------------------------
\* A slip: the count goes on from the file before.
GoesOn == file_len

FromZero == 0

\* The user chooses, maybe an index past the list.  Once the server is down
\* nothing more is modelled.
Choose ==
    /\ up /\ clnt_pc = "prompt"
    /\ Len(to_serv) + Len(to_clnt) <= MaxLeft
    /\ chosen_index' \in 0 .. FILE_COUNT - 1
    /\ to_serv' = Append(to_serv, chosen_index')
    /\ file_len' = FromZero
    /\ clnt_pc' = "receive"
    /\ UNCHANGED <<serv, disk, file_t_array, to_clnt, starved, overfull>>

\* What the client waits for: an index past the end has an empty entry.
Told == IF chosen_index \in Indices THEN file_t_array[chosen_index] ELSE 0

\* A slip: one byte more is waited for.
ReceivedMore == file_len' > Told

Received == file_len' >= Told

\* One read of the loop; each piece is written to the file of chosen_index.
Receive ==
    /\ clnt_pc = "receive"
    /\ \E n \in 1 .. Min({Len(to_clnt), BUFSIZE}) :
        /\ file_len' = file_len + n
        /\ to_clnt' = SubSeq(to_clnt, n + 1, Len(to_clnt))
    /\ clnt_pc' = IF Received THEN "prompt" ELSE "receive"
    /\ UNCHANGED <<serv, chosen_index, disk, file_t_array, to_serv, starved, overfull>>

\* -1, or the user kills it.
Leave ==
    /\ clnt_pc # "gone"
    /\ clnt_pc' = "gone"
    /\ UNCHANGED <<serv, chosen_index, file_len, disk, file_t_array, to_serv, to_clnt,
                   starved, overfull>>

-----------------------------------------------------------------------------
ServerStep == SendList \/ GetClientRequestIndex \/ RequestEnd \/ Send_File

DownloadNext == FileChanges \/ ServerStep \/ Choose \/ Receive \/ Leave

DownloadSpec == DownloadInit /\ [][DownloadNext]_downloadVars

\* Both programs are scheduled; nobody has to choose or to leave.
DownloadFairness == WF_downloadVars(ServerStep) /\ WF_downloadVars(Receive)

\* A file is written from its own pieces only, and at the prompt nothing is on
\* its way that the next file could begin with: unless a file has grown.
FilesApart ==
    \/ overfull
    \/ /\ \A k \in 1 .. Len(to_clnt) : to_clnt[k] = chosen_index \/ clnt_pc = "gone"
       /\ clnt_pc = "prompt" => to_clnt = << >> /\ to_serv = << >>

\* The user gets the prompt back.  Except after an empty file, one that has
\* shrunk, or an empty list: client and server then both read, forever.
BackAtPrompt ==
    []<>(clnt_pc \in {"prompt", "gone"} \/ ~up \/ starved)

=============================================================================

----------------------------- MODULE MCFileServers -----------------------------
(* The one-way file servers in one run: a behaviour is one of Download or one  *)
(* of FileServers, as program says; the variables of the other rest.           *)
EXTENDS Download, FileServers

VARIABLE program

MCInit ==
    /\ program \in {"download", "exercises"}
    /\ DownloadInit /\ Init
    /\ program = "exercises" => file_t_array = << >>
    /\ program = "download" => server = "select"

MCNext ==
    \/ program = "download" /\ DownloadNext /\ UNCHANGED <<program, vars>>
    \/ program = "exercises" /\ Next /\ UNCHANGED <<program, downloadVars>>

MCSpec ==
    /\ MCInit /\ [][MCNext]_<<program, vars, downloadVars>>
    /\ program = "download" => DownloadFairness
    /\ program = "exercises" => Fairness
\* BackAtPrompt of Download, where Download runs.
PromptAgain == program = "download" => BackAtPrompt
=============================================================================

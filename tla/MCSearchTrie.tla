----------------------------- MODULE MCSearchTrie -----------------------------
(* Words over two letters for SearchTrie: repeated letters, words that are     *)
(* prefixes of others, and words that contain a search word with a gap.        *)
EXTENDS SearchTrie

MCLetters == 0 .. 1
MCWords == UNION {[1 .. n -> MCLetters] : n \in 1 .. 3}
MCSearches == UNION {[1 .. n -> MCLetters] : n \in 1 .. 2}
=============================================================================

------------------------------ MODULE SearchTrie ------------------------------
(***************************************************************************)
(* The search engine of the fourth homework: search_server.c loads         *)
(* data.txt into a trie (trie.c), answers a search word with the most      *)
(* searched of the words it finds, and search_clnt.c displays them.        *)
(*                                                                         *)
(* A word is the sequence of its characters in lower case, a character its *)
(* index among the children of a trie node; both programs compare words in *)
(* lower case only.  A trie node is known by its path from the root, and a *)
(* trie is the set of its nodes with the array index (is_leaf) of those    *)
(* that complete a word.                                                   *)
(***************************************************************************)
EXTENDS Integers, SequencesExt

CONSTANTS N,           \* children of a node: letters and the space
          DataWords,   \* words that may stand in data.txt
          Counts,      \* and their search counts
          Searches,    \* what clients search for
          MaxLines,    \* lines of data.txt
          Limit        \* words in an answer: 10

ASSUME SearchAssumption ==
    /\ N \in Nat \ {0} /\ MaxLines \in Nat /\ Limit \in Nat \ {0}
    /\ DataWords \cup Searches \subseteq Seq(0 .. (N - 1)) \ {<< >>}
    /\ Counts \subseteq Nat

VARIABLES
    loading,      \* ReadData_MakeTrie is reading data.txt
    word_array,   \* the words with their search counts, in the order of lines
    root,         \* the trie
    search_word,  \* the last word searched for, or none
    temp_array,   \* array indices of the words found for it
    sent          \* array indices of the words sent to the client

engineVars == <<loading, word_array, root, search_word, temp_array, sent>>

-----------------------------------------------------------------------------
(* trie.c *)

EmptyTrie == [nodes |-> {<< >>}, is_leaf |-> << >>]

\* Create the nodes that are missing on the path of the word, mark the last.
insert_trie(trie, word, count) ==
    [nodes |-> trie.nodes \cup {SubSeq(word, 1, i) : i \in 1 .. Len(word)},
     is_leaf |-> [w \in DOMAIN trie.is_leaf \cup {word} |->
                    IF w = word THEN count ELSE trie.is_leaf[w]]]

\* A node's child with index i - 1; it exists if it is among the trie's nodes.
Child(node, i) == Append(node, i - 1)

\* A slip: the search goes on below a node that completes the match.
FindGoingOn(trie, search) ==
    LET find[at \in trie.nodes \X (0 .. Len(search))] ==
            LET node == at[1]
                nthMatch == at[2]
                hit == /\ node # << >> /\ nthMatch < Len(search)
                       /\ Last(node) = search[nthMatch + 1]
                next == IF hit THEN nthMatch + 1 ELSE nthMatch
            IN  (IF next = Len(search) THEN << node >> ELSE << >>)
                    \o FlattenSeq([i \in 1 .. N |->
                            IF Child(node, i) \in trie.nodes
                            THEN find[<< Child(node, i), next >>] ELSE << >>])
    IN  find[<< << >>, 0 >>]

\* The nodes at which all characters of the search word have been met on the
\* way down, in this order but not necessarily next to each other; below such
\* a node nothing is searched.  The root carries no character.
Find_Match_Prefix_Node(trie, search) ==
    LET find[at \in trie.nodes \X (0 .. Len(search) - 1)] ==
            LET node == at[1]
                nthMatch == at[2]
                hit == /\ node # << >>
                       /\ Last(node) = search[nthMatch + 1]
                next == IF hit THEN nthMatch + 1 ELSE nthMatch
            IN  IF hit /\ next = Len(search) THEN << node >>
                ELSE FlattenSeq([i \in 1 .. N |->
                        IF Child(node, i) \in trie.nodes
                        THEN find[<< Child(node, i), next >>] ELSE << >>])
    IN  find[<< << >>, 0 >>]

\* The indices of the complete words at a node and below it, parents first.
Find_Complete_InChild(trie, top) ==
    LET complete[node \in trie.nodes] ==
            (IF node \in DOMAIN trie.is_leaf
             THEN << trie.is_leaf[node] >> ELSE << >>)
                \o FlattenSeq([i \in 1 .. N |->
                        IF Child(node, i) \in trie.nodes
                        THEN complete[Child(node, i)] ELSE << >>])
    IN  complete[top]

Get_Complete_Words(trie, found) ==
    FlattenSeq([i \in 1 .. Len(found) |-> Find_Complete_InChild(trie, found[i])])

-----------------------------------------------------------------------------
(* search_server.c *)

Count(index) == word_array[index].search_count

\* A slip in the inner loop: the last pair of a pass is not compared.
LastPairTooEarly(array, i) == Len(array) - 2 - i

\* The pairs that pass i of the bubble sort compares.
LastPair(array, i) == Len(array) - 1 - i

\* One comparison, one pass, all passes: in decreasing order of search count.
Bubble(array, j) ==
    IF Count(array[j]) < Count(array[j + 1])
    THEN [array EXCEPT ![j] = array[j + 1], ![j + 1] = array[j]]
    ELSE array

Pass(array, i) ==
    FoldLeft(Bubble, array, [j \in 1 .. LastPair(array, i) |-> j])

Sort_Array(array) ==
    FoldLeft(Pass, array, [i \in 1 .. (Len(array) - 1) |-> i - 1])

\* The words sent: the first Limit of the sorted array.
MostSearched(array) ==
    LET sorted == Sort_Array(array)
    IN  SubSeq(sorted, 1, IF Len(sorted) > Limit THEN Limit ELSE Len(sorted))

EngineInit ==
    /\ loading = TRUE
    /\ word_array = << >>
    /\ root = EmptyTrie
    /\ search_word = << >>
    /\ temp_array = << >>
    /\ sent = << >>

\* One line of data.txt.  A word that was there before loses its place in the
\* trie to the new line.
ReadData_MakeTrie ==
    /\ loading
    /\ Len(word_array) < MaxLines
    /\ \E word \in DataWords, count \in Counts :
        /\ word_array' = Append(word_array,
                            [word |-> word, search_count |-> count])
        /\ root' = insert_trie(root, word, Len(word_array'))
    /\ UNCHANGED <<loading, search_word, temp_array, sent>>

EndOfData ==
    /\ loading
    /\ loading' = FALSE
    /\ UNCHANGED <<word_array, root, search_word, temp_array, sent>>

SearchEngine ==
    /\ ~loading
    /\ \E search \in Searches :
        /\ search_word' = search
        /\ temp_array' = Get_Complete_Words(root,
                            Find_Match_Prefix_Node(root, search))
    /\ sent' = MostSearched(temp_array')
    /\ UNCHANGED <<loading, word_array, root>>

EngineNext == ReadData_MakeTrie \/ EndOfData \/ SearchEngine

EngineSpec == EngineInit /\ [][EngineNext]_engineVars

-----------------------------------------------------------------------------
(* search_clnt.c *)

\* A slip: the last place where the search word may stand is not tried.
HasInsideTooShort(word, search) ==
    \E i \in 0 .. (Len(word) - Len(search) - 1) :
        SubSeq(word, i + 1, i + Len(search)) = search

\* The search word stands somewhere in the word, in one piece.
HasInside(word, search) ==
    \E i \in 0 .. (Len(word) - Len(search)) :
        SubSeq(word, i + 1, i + Len(search)) = search

\* Print_Result displays a word where strstr finds the search word in it.
Displayed == {i \in ToSet(sent) : HasInside(word_array[i].word, search_word)}

-----------------------------------------------------------------------------
(* Properties. *)

Indices == 1 .. Len(word_array)

EngineTypes ==
    /\ loading \in BOOLEAN
    /\ ToSet(word_array) \subseteq [word : DataWords, search_count : Counts]
    /\ root.nodes \subseteq Seq(0 .. (N - 1))
    /\ DOMAIN root.is_leaf \subseteq root.nodes \ {<< >>}
    /\ search_word \in Searches \cup {<< >>}
    /\ ToSet(temp_array) \cup ToSet(sent) \subseteq Indices

\* The characters of the search word occur in the word in the same order.
IsSubsequence(search, word) ==
    \E at \in [1 .. Len(search) -> 1 .. Len(word)] :
        /\ \A i \in 1 .. Len(search) : word[at[i]] = search[i]
        /\ \A i, j \in 1 .. Len(search) : i < j => at[i] < at[j]

\* The last line of each word: the one the trie leads to.
Current ==
    {i \in Indices :
        \A j \in Indices : word_array[j].word = word_array[i].word => j <= i}

\* The walk over the trie finds every word of the data that contains the
\* characters of the search word in their order, each once, and no other: the
\* greedy matching and the return at a match neither miss a word, nor find it
\* under two nodes.  And the trie and the arrays are well formed throughout.
FindsEachMatchOnce ==
    /\ EngineTypes
    /\ search_word # << >> =>
        /\ IsInjective(temp_array)
        /\ ToSet(temp_array) =
            {i \in Current : IsSubsequence(search_word, word_array[i].word)}

\* What is sent is what was searched for most: in decreasing order, at most
\* Limit words, and none of those left out was searched for more often.
SendsMostSearched ==
    /\ Len(sent) <= Limit
    /\ ToSet(sent) \subseteq ToSet(temp_array)
    /\ \A i, j \in 1 .. Len(sent) : i < j => Count(sent[i]) >= Count(sent[j])
    /\ \A i \in ToSet(temp_array) \ ToSet(sent) :
        /\ Len(sent) = Limit
        /\ \A j \in ToSet(sent) : Count(i) <= Count(j)

\* A word whose beginning is the search word is displayed, unless there are
\* more than Limit words that have its characters in their order.
PrefixesDisplayed ==
    search_word # << >> /\ Len(temp_array) <= Limit =>
        \A i \in Current :
            IsPrefix(search_word, word_array[i].word) => i \in Displayed

=============================================================================

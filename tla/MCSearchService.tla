---------------------------- MODULE MCSearchService ----------------------------
(* The values of the constants of SearchService for TLC come from the cfg      *)
(* files.                                                                      *)
EXTENDS SearchService
=============================================================================

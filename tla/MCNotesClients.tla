--------------------------- MODULE MCNotesClients ---------------------------
(* Instances of NotesClients for TLC. *)
EXTENDS NotesClients

\* Writers differ in nothing.
Interchangeable == Permutations(Writers)
=============================================================================

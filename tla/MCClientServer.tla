--------------------------- MODULE MCClientServer ---------------------------
(* Small instances of ClientServer for TLC. *)
EXTENDS ClientServer

CONSTANTS a, b

MCTracks == {a, b}

\* The server starts with one track.
MCLibrary == <<a>>
=============================================================================

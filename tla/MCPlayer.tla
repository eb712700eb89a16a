------------------------------ MODULE MCPlayer ------------------------------
(* A small instance of Player for TLC: files with no title, one, two, one in    *)
(* small letters, and one whose TITLE has no '='.                               *)
EXTENDS Player

MCNames == {"TITLE", "title", "DATE", "date"}
MCUpper == [n \in MCNames |-> CASE n = "title" -> "TITLE" [] n = "date" -> "DATE" [] OTHER -> n]
MCLower == [n \in MCNames |-> CASE n = "TITLE" -> "title" [] n = "DATE" -> "date" [] OTHER -> n]
MCAllButLast ==
    [n \in MCNames |-> CASE n = "TITLE" -> "TITL" [] n = "title" -> "titl"
                         [] n = "DATE" -> "DAT" [] OTHER -> "dat"]

MCFiles ==
    {<<>>,
     <<<<"DATE", "1999">>, <<"TITLE", "Dark">>>>,
     <<<<"TITLE", "Dark">>, <<"TITLE", "Brain">>>>,
     <<<<"TITLE", "Dark">>, <<"title", "Us">>>>,
     <<<<"TITLE", "Dark">>, <<"TITLE">>>>}

MCLibraries == {<<>>} \cup [1..1 -> MCFiles] \cup [1..2 -> MCFiles]
=============================================================================

----------------------------- MODULE TrackTags -----------------------------
(***************************************************************************)
(* The two readers of a FLAC file's Vorbis comments:                       *)
(* lib/flac-reader/src/FLAC_track_info.cpp, which the server runs over its *)
(* library, and the FLAC part of                                           *)
(* lib/audio-data-decoder/src/audio_data_reader.cpp.                       *)
(*                                                                         *)
(* A comment is <<name, value>>, split at its first '=', or <<text>> when  *)
(* it has none.  A file is the sequence of its comments; one whose tags    *)
(* cannot be read gives the same as a file without comments.               *)
(***************************************************************************)
EXTENDS Naturals, Sequences

CONSTANTS Names,      \* the texts before a '=', and those without one
          Upper,      \* toupper over each
          Lower,      \* tolower over each
          AllButLast  \* each without its last character

ASSUME NamesAssumption == /\ Upper \in [Names -> Names]
                          /\ \A n \in Names : Upper[Upper[n]] = Upper[n]
                          /\ Lower \in [Names -> Names]

Comments == {<<n>> : n \in Names} \cup (Names \X STRING)

\* find returns npos when there is no '=', which as an int is -1: the name is
\* the whole text, and the value the text from 0 without its last character.
Name(comment) == comment[1]
Value(comment) == IF Len(comment) = 2 THEN comment[2] ELSE AllButLast[comment[1]]

\* operator[] of the map, assigned to.
Assign(info, name, value) ==
    [n \in DOMAIN info \cup {name} |-> IF n = name THEN value ELSE info[n]]

\* extract_fields_info with insert in the place of operator[].
FirstFieldWins(comments, key) ==
    LET info[i \in 0..Len(comments)] ==
            IF i = 0 THEN <<>>
            ELSE IF key[Name(comments[i])] \in DOMAIN info[i - 1] THEN info[i - 1]
            ELSE Assign(info[i - 1], key[Name(comments[i])], Value(comments[i]))
    IN info[Len(comments)]

\* The loop of FLAC_extract_fields_info: the map takes each field in turn, a later
\* one over an earlier one.
ExtractFieldsInfo(comments, key) ==
    LET info[i \in 0..Len(comments)] ==
            IF i = 0 THEN <<>>
            ELSE Assign(info[i - 1], key[Name(comments[i])], Value(comments[i]))
    IN info[Len(comments)]

\* The members of FLAC_track_info and of audio::track_info that a field fills.
fields == {"TITLE", "ARTIST", "ALBUM", "COMMENT", "DATE", "GENRE", "ALBUM_ARTIST"}
audio_fields ==
    {"TITLE", "ARTIST", "ALBUM", "COMMENT", "COMPOSER", "DATE", "GENRE", "PERFORMER"}

Default ==
    [f \in fields \cup audio_fields |->
        CASE f = "TITLE" -> "unknown title" [] f = "ARTIST" -> "unknown artist"
          [] f = "ALBUM" -> "unknown album" [] f = "COMMENT" -> "empty comment"
          [] f = "DATE" -> "00_00_00" [] f = "GENRE" -> "unknown genre"
          [] f = "ALBUM_ARTIST" -> "unknown album_artist"
          [] f = "COMPOSER" -> "unknown composer" [] f = "PERFORMER" -> "unknown performer"]

\* FLAC_fill_track_info over the defaults of the struct.
FillTrackInfo(info, names) ==
    [f \in names |-> IF f \in DOMAIN info THEN info[f] ELSE Default[f]]

\* FLAC_read_track_info: the names are compared as they are in the file.
ReadTrackInfo(file) == FillTrackInfo(ExtractFieldsInfo(file, [n \in Names |-> n]), fields)

\* make_string_large with tolower.
MakeStringSmall == Lower

\* What audio::flac_data looks its fields up by.
make_string_large == Upper

\* The constructor of audio::flac_data.
FlacData(file) == FillTrackInfo(ExtractFieldsInfo(file, make_string_large), audio_fields)
-----------------------------------------------------------------------------
\* What a file calls its title: the last comment of that very name.
Title(file) ==
    LET titled == {i \in DOMAIN file : Name(file[i]) = "TITLE"} IN
    IF titled = {} THEN Default["TITLE"]
    ELSE Value(file[CHOOSE i \in titled : \A j \in titled : j <= i])

InCapitals(file) == \A i \in DOMAIN file : Upper[Name(file[i])] = Name(file[i])
=============================================================================

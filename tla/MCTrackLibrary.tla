--------------------------- MODULE MCTrackLibrary ---------------------------
(* Small instances of TrackLibrary for TLC. *)
EXTENDS TrackLibrary

CONSTANTS a, b, c  \* two tracks of the directory and one to upload

MCTracks == {a, b, c}

\* A directory the user filled with FLAC files.
Flac == [name \in {Own(a, FLAC), Own(b, FLAC), DSStore} |->
             Whole(IF name = DSStore THEN NoTrack ELSE name.id)]

\* One with a WAV file among them.
Mixed == [name \in {Own(a, FLAC), Own(b, "wav"), DSStore} |->
              Whole(IF name = DSStore THEN NoTrack ELSE name.id)]

\* What a crash in the first copy leaves of that.
Crashed == [name \in {Own(a, FLAC), Own(b, "wav"), Number(0, FLAC)} |->
                IF name = Number(0, FLAC) THEN Part(a) ELSE Whole(name.id)]

MCLibraries == {Flac, Mixed, Crashed}
=============================================================================

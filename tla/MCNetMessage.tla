---------------------------- MODULE MCNetMessage ----------------------------
(* A small instance of NetMessage for TLC: three byte values, two to a size. *)
EXTENDS NetMessage

Repeated(byte, n) == [i \in 1..n |-> byte]

Strings(title, artist, album, comment, date, genre, album_artist) ==
    [tag \in Tags |-> CASE tag = "title" -> title [] tag = "artist" -> artist
                        [] tag = "album" -> album [] tag = "comment" -> comment
                        [] tag = "date" -> date [] tag = "genre" -> genre
                        [] tag = "album_artist" -> album_artist]

\* Strings that differ from their neighbours, that are empty, that contain a NUL
\* or look like a size, and one of the greatest length.
MCTracks ==
    {[hash |-> 0, tags |-> Strings(<<1>>, <<2>>, <<>>, <<0, 1>>, <<1, 1>>, <<2, 0>>, <<0>>)],
     [hash |-> 5, tags |-> Strings(<<>>, <<>>, <<>>, <<>>, <<>>, <<>>, <<>>)],
     [hash |-> 8, tags |-> Strings(<<2, 0>>, Repeated(1, 8), <<2>>, <<>>, <<1>>, <<0>>, <<1, 0>>)]}

\* Files with and without a NUL, an empty one, the largest that is sent, the
\* smallest that is refused, and one whose size passes the int as a small number.
MCLibrary == [i \in 0..5 |-> CASE i = 0 -> <<1, 0, 2>>
                               [] i = 1 -> <<>>
                               [] i = 2 -> <<2, 1>>
                               [] i = 3 -> Repeated(1, 99)
                               [] i = 4 -> Repeated(1, 100)
                               [] i = 5 -> Repeated(2, 203)]
MCIndices == 0..7

\* A path with its NUL, with none, none at all, and two in one.
MCPaths == {<<1, 2, 0>>, <<1, 2>>, <<>>, <<0>>, <<2, 0, 1, 0>>}

MCUploads == {MCLibrary[i] : i \in DOMAIN MCLibrary}
=============================================================================

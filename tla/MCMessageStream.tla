--------------------------- MODULE MCMessageStream ---------------------------
(* Small instances of MessageStream for TLC. *)
EXTENDS MessageStream

CONSTANTS list,     \* a request without a body: nothing is written into it
          reply,    \* a reply or request with a short body
          track,    \* one with a longer body
          silence   \* an empty file uploaded: its header says it has no body

MCSizes == [m \in {list, reply, track, silence} |->
                CASE m = reply -> 1 [] m = track -> 2 [] OTHER -> 0]
MCMessages == DOMAIN MCSizes
MCBare == {list}

\* Without the empty upload.
MCShortSizes == [m \in {list, reply, track} |-> MCSizes[m]]
MCShortMessages == DOMAIN MCShortSizes

\* Two messages with bodies are enough for the finding.
MCPairSizes == [m \in {reply, track} |-> MCSizes[m]]
MCPairMessages == DOMAIN MCPairSizes
=============================================================================

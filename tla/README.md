# Spotivar in TLA+

Spotivar is a music library: a server keeps a directory of tracks and serves it
over TCP (`lib/networking`), a player shows a library in a GTK window
(`lib/ui`, `lib/quick-backend`, `src/spotivar.cpp`), and small libraries read
directories, ID3 tags and FLAC metadata and compute SHA-256. This directory holds
TLA+ modules that model the networking core, the player, the readers of FLAC tags
and the hash, TLC configurations that check them on small
instances, and proofs that TLAPS checks for every value of the constants.

Check a module with `tlc -config X.cfg M`, a proof module with `tlapm M.tla`.

## 1. The system

### Components

| component | state | operations | correct when |
|---|---|---|---|
| `ts_queue` (`thread_safe_queues.h`) | a deque, a mutex for it, a second mutex with a condition variable | `push_back`, `push_front`, `pop_front`, `pop_back`, `empty`, `wait`, ... | the deque is never touched by two threads, no circular wait, items come out once and in order, a waiter wakes for every item |
| `connection` (`connection.h/.cpp`) | a socket, `deq_messages_out`, `temp_message`, the puzzle of the handshake | `send`, the read and write handlers, validation, `disconnect`, the `on_client_` handlers | one write at a time, whole messages in order, no handler on a freed object, only validated peers are listened to |
| server event loop (`server.cpp` 20-130) | `connections_map`, the `io_context` and its thread | the constructor, `async_new_connection`, the restart after an exception | an accept is always outstanding, a connection that ends leaves the map |
| server requests and track library (`server.cpp` 130-420) | the directory, the `indexed.txt` in it, `my_hash` | `index_track_library`, `operate_user_requests`, upload, download, list | no track is lost, an index means one track, only whole tracks are served |
| client (`client.h/.cpp`) | a connection, an incoming queue | `download_track`, `get_tracks_list`, `upload_track` | each call gets the answer to its own request |
| message codec (`net_message.h`) | header with id, size, flag; body bytes | `<<`, `>>` for scalars, strings, vectors, track info | `>>` undoes `<<` |
| player: `spotivar.cpp`, view, `quick_backend` | the rows shown, `tracks_`, the connection under them | construction, handshake, `init`, `on_entry_clicked` | the rows are the titles of the server's files, a row has its track, the startup ends |
| FLAC readers | a map of fields, the members of a track | `FLAC_read_track_info`, `audio::flac_data` | each member is the last field of its name |
| SHA-256 | a cursor over the data with its stage, 64 words, eight registers | cutting and padding, schedule, rounds | the digest is the one of the standard, for every size |
| session | a config directory with `first_session.json`, `last_session.json` | first and later start | a start reads what an earlier one wrote |
| directory scanner, ID3 reader, JSON of tracks | none, or one accumulator | functions over files | the tags found are those in the file |

### How they interact

The server has two threads. `thread_context` runs the `io_context`: accept,
handshake, reads and writes of all connections are handlers of that one thread,
so they never overlap. A complete message is pushed, with a `shared_ptr` to its
connection, to the `ts_queue` `deq_message_in`. The main thread sleeps in
`wait()`, drains the queue in `operate_user_requests`, works on the directory
and answers through `connection::send`, which only posts a lambda to the
`io_context`. The client has the same connection class on its side, an
`io_context` thread of its own, and a main thread that calls `send` and polls or
waits on its queue. A connection object lives as long as a `shared_ptr` to it:
in `connections_map`, in a posted `on_client_` lambda, in a queued message; the
handlers of reads and writes hold a raw pointer.

The player's main thread builds the view, then `quick_backend` with its client,
which connects and reads the server's puzzle before the window exists; then it
runs the GTK application, whose startup signal shows the window and calls
`init`, and `init` spins over the incoming queue until a list is in it. Neither
thread of the player has a handler for exceptions: a lost connection ends the
process. The server reads the tags of its files with `lib/flac-reader` for each
list it sends.

### What is hard in it

* two mutexes taken nested by `push_back` and one after the other by `wait`;
* `send` pushing to the *front* of a queue whose front the write handlers take
  to be the message in progress;
* handlers that throw: one exception restarts the loop, from inside a `catch`;
* raw pointers in handlers against disconnects that erase the owner;
* a map keyed by the client's port;
* `remote_endpoint()`, the first call of every `on_client_` handler, throws on
  a connection that was reset;
* messages without marks: a body is a stack, so `>>` has to mirror `<<` exactly,
  and sizes pass through an `int` and a 32 bit field on their way;
* a startup that blocks the GTK thread on an answer which may not come;
* a message padded in stages across calls, and rounds that rename registers
  instead of moving them;
* a directory renamed file by file while it is iterated, by a process that may
  die between any two changes, with the next index in memory only.

`PROJECT.json` lists each of these as a hazard at its line, with the property
that watches it, or with the reason why none does yet.

## 2. The modules

```
FifoChannel                 what a carrier of messages promises
  ^ implemented by TSQueue          (proved, and checked)
  ^ implemented by MessageStream    (proved, and checked, one message in flight)
TSQueue        <- TSQueue_proofs        thread_safe_queues.h, operate_user_requests
MessageStream  <- MessageStream_proofs  send, the write and the read handlers
ServerLoop     <- ServerLoop_proofs     connections of the server, accept to erase
TrackLibrary   <- TrackLibrary_proofs   the directory on disk, crashes and restarts
ClientServer   <- ClientServer_proofs   client.cpp against on_message_recieved, over
                                        two FIFO channels per client
NetMessage     <- NetMessage_proofs     net_message.h, and the calls down to bytes
TrackTags      <- Player <- Player_proofs
                                        FLAC comments to members; the player from
                                        its start to the rows and the clicks
Compression                 what FIPS 180-4 says of schedule, rounds and sums
  ^ implemented by Sha256           (proved, and checked)
Sha256Words    <- Sha256 <- Sha256_proofs
                                        the words; the hash from block to block
MCMessageStream, MCServerLoop, MCTrackLibrary, MCClientServer, MCNetMessage,
MCPlayer, MCSha256                      instances for TLC
```

Every action is one handler, or one critical section where threads interleave,
or one change on disk where the process may die. Operators whose comment says
that a handler forgets, repeats or swaps something (`PushLockUnguarded`,
`ReadBodyStops`, `ThrowNoAccept`, ...) are *mutants*: they are part of no
specification. Each is a plausible bug of the definition that follows it, and
`PROJECT.json` names the property that must notice it.

### FifoChannel

Two histories, `sent` and `received`; `Put` appends to the first, `Take` hands
out the next one. Its specification says: everything once, in order, nothing
invented.

### TSQueue

`deqQueue`, the owners of `mxQueue` and `mtx_update`, and a control point per
thread. `push_back` is `PushLock`, `Emplace`, `PushNotify`, `PushUnlockUpdate`,
`PushUnlockQueue`: two nested guards. `wait()` is `WaitLock`, `WaitEmpty`
(`empty()` unlocks before its result is used), `WaitLockUpdate`, `CvWait`
(release and sleep in one step), `WaitRelock`, `WaitEndScope`; a
`notify_one` on nobody is lost, and `SpuriousWakeup` needs no cause. The drain
loop of `operate_user_requests` is `DrainLock`, `DrainEmpty`, `PopLock`,
`PopFront`, `Handle`.

### MessageStream

One direction of one connection: the sender's `posted` lambdas,
`deq_messages_out` and the write in progress; the bytes on the wire, in units (a
header is one, a body `BodySize[m]`); the receiver's outstanding read and its
one buffer `temp_message`. A message never written into has size 0 in its
header and is delivered without a body read, with the body of the message before
it left in the buffer (`Bare`). If a body is taken for a header its bytes may
claim any size in `GarbageSizes`, or one that makes `resize` throw. `Break`
ends the connection at any moment.

What the receiver makes of a message is the refinement mapping: `Received` maps
a delivered message to itself if its body is its own and to `Garbage`, which was
never sent, otherwise.

### ServerLoop

Per connection: the client's end (`peer`), the server's socket, the read and
the write outstanding, the length of the output queue; and `connections_map`,
the posted handlers in order, the outstanding accepts and what `thread_context`
is doing. `Referenced(c)` says who owns a connection, `HandlerPending(c)` who
points at it without owning it; a handler that runs on a freed connection is
undefined behaviour and ends the model (`DanglingHandler`). `Throw` is what an
exception does: the loop goes from `running` to `restarted` with one more
accept, and from there to `terminated`. A reset of the peer makes the port
unknown (`PortKnown`), which is where `get_port` throws. The content of
messages is left to the other modules; here they are only whose they are, with one
exception: a header whose size makes `resize` throw (`connection.cpp:143`) is
`ReadThrows`, after which the connection has no read outstanding (`reading` is
"lost") and keeps its entry in the map. `MessageStream` shows how a sender that does
not wait produces such a header; here any validated client may send one.

`faults` is a history of what the properties make exceptions for: a connection was
reset, an accept failed, a header threw, a client left with an answer unread
(`UnreadAnswer`), a port was taken of which the map still had an entry (`PortTaken`).
`Tolerated` says that the last two did not happen.

### TrackLibrary

`dir` maps file names to contents; a content is a track, whole or in part.
Indexing is `Start`, `SkipSystem`, `IndexEntry` (index taken, target created),
`CopyFile`, `RemoveOld`, `SignAsIndexed`; an upload is `OnUploadRequest`
(`new.flac` created), `AddToLibrary`, `IndexNewTrack` (renamed to its index);
`OnDownloadRequest` and `SendTracksList` change nothing on disk and are one step
each. `Crash` may come between any two, and `Ends` is what a process leaves of
itself, whether it died ("down") or ended by an exception of `copy_file` that nobody
catches ("aborted"). `fwrite` may write less than it was given, which
`add_to_library` does not notice (`server.cpp:276`): the second case of
`AddToLibrary`, with `short` the history of it. A copy or a signature that does not
fit on the disk ends the process and is a `Crash`. The directory iterator may
return a file that was created after it was opened or not (`buffered`, chosen for each
iterator). `Init`
takes the directory from `Libraries`; the constant may hold what an earlier
process left. `UploadAssumption` tells an uploaded track from those the user had
already: it names where a track came from, not how it sounds.
`fds` counts the descriptors `check_if_exists` never closes. `remove_new` is
not modelled: the test that leads to it asks for a file named by the extension
alone and is never true.

### ClientServer

The calls of several clients and the one main thread of the server. A call is
`SendRequest` and, for a download, `LookAtAnswer` (after `wait()`, the test of
`back()`) and then `InstallTrack` or `DownloadFails`; for a list, `SpinEnds` and
`DecodeList`; an upload returns at once. `PopBack` is the queue's `pop_back`,
which returns the front and removes the back. `OnMessageRecieved` is the
dispatch with its `catch`: a request that fails is answered with Error404, which
for an upload is the only answer there is (`Failures`). The messages of the
program carry no call number; `no` is in the model for the properties to compare.

The connections are sequences here. `MessageStream` shows that one is a FIFO
channel for one message in flight, so a client sends, and the server answers,
only when what was sent before has arrived (`Settled`): calls that follow each
other faster are the subject of `MessageStream`. `library` is a sequence of tracks by
index, which is what `ListedIsDownloadable` shows an indexed directory to be in
the run that indexed it.

### NetMessage

A body is a sequence of bytes, a `size_t` is `Width` bytes of `Base` values, and
`Scalar` the numbers of which nothing is left when they are shifted by that many
(`Shifted`).
`PutScalar`, `PutBytes` and `PutTrack` are the `<<` of `net_message.h`; a `>>` is
`Holds` (its assert), `Top` and `Drop`; `TakeTrack` goes through the strings in
its own order, `ReadOrder`, as the code does. `size` is `header.size` and wraps
at `SizeLimit`.

One call is followed to its end; the wire between the two sides is left to
`MessageStream`. A list is `ListTracks`, `PutEntry` per file,
`SendTracksList`; then `TakeCount`, `TakeEntry` per track, `ReturnList`. A
download is `RequestDownload`, `OnDownloadRequest` (takes the index, looks, puts
it back), `SendTrack` (takes it again; the rest of the request, the path, opens
the reply), `InstallTrack` (splits the reply at the first NUL). An upload is
`UploadTrack` and `AddToLibrary`. An assert that fails ends the call in
`aborted`. Reading the byte behind a reply without NUL is undefined: either the
call throws, after it made an empty file, or anything is written (`undefined`).
`SizeFromFile` is `get_file_size`, whose `int` makes a large file negative, which
no vector can hold, or small.

### TrackTags and Player

A file is the sequence of its comments, `<<name, value>>`, or `<<text>>` if there
is no `=`; then `find` gives `npos`, which the `int` turns into -1, and the value
is the text without its last character (`AllButLast`). `ExtractFieldsInfo` is the
loop over the map, `FillTrackInfo` the members with their defaults.
`ReadTrackInfo` compares names as they are; `FlacData`, of the audio data
decoder, puts them in capitals first.

`app` is where the player's main thread is: `Connect` and `ReadServerValidation`
in the client's constructor, `Startup` in the signal, `GetTracksList` the end of
the spin with the rest of `init` and `update_entries`, then `OnEntryClicked` and
`Quit`. The io thread runs the handlers of `context` in order; `run()` returns when
a handler leaves neither a handler nor a read (`RunAfter`). asio attempts a write
at once, so whether the validation was written is decided in
`ReadServerValidation` and learned in `ValidationWritten` or `ValidationFailed`.
The server is what `ServerLoop` and `ClientServer` say of it, reduced to what one
client sees; `LoseLink` may come at any point and take the answer with it. The
list arrives whole and in reverse, which is what `NetMessage` shows
(`DecodesListReversed`). What `std::move` leaves of a string is the empty string
of libstdc++.

### Sha256Words, Compression, Sha256

A `uint32_t` is the set of its one bits: `&` and `|` are set operations, `sum` is
the addition with its carries. A byte of data is a number, and a word of the block
under construction is four of them, the highest first. `DataBlock` is
a call of `get_next_message_block` that ends within the data; `PaddedBlock` is one
that falls through the stages from wherever the last call stopped. `Schedule` and
`CompressRound` are one iteration each; `Register(reg)` is `GET_REG`, through
`modulo`, with the sign that `%` has in C++. An assert that fails ends in `aborted`.
`Garbage` is what the uninitialised words hold. `ShiftedIn` is the loop that shifts
the last bytes in below the 1, as a recursive function; `BytesOf` is the memory of a
block, byte by byte.

`Compression` is the standard: working variables that move by one place in each
round, over any block. The mapping reads the registers under the names of
the round (`Renamed`), and `starting_values` as the hash while they are in use.

## 3. The runs

| run | checks | bounds |
|---|---|---|
| `TSQueue_fifo` | types; `DequeMutualExclusion`; `NoDeadlock`: if nobody can run, the main thread is asleep and no push is under way; `ImplementsFifo`; `LaterPushDrains` | two producers (the code has one per process), two items, five pushes |
| `TSQueue_lost_wakeup` | **violated**: `RequestsAreHandled` | one producer, two pushes |
| `MessageStream_serial` | types; `StreamImplementsFifo`; `SentArrives` | four messages: bare, bodies of 1 and 2 units, an empty upload; one in flight |
| `MessageStream_pipelined` | `OneWriteAtATime`, `WrittenBufferIsQueued`, `BurstOpenerIsWritten`, `QueueDrains` | three messages sent in any order without waiting |
| `MessageStream_unsent` | **violated**: `LeavesQueueOnlyWritten` | two messages with bodies |
| `ServerLoop_life` | types; `AcceptOutstanding`; `OnlyValidatedServed`; `LeaverIsErased`; and, while faults are `Tolerated`, `NoDanglingHandler`, `LoopUndisturbed` | two of three clients, of which two have the same port, one message |
| `TrackLibrary_restarts` | `UploadIsServedWhole`; `ListedIsDownloadable`; `LostToUploadsOnly`; `IndexingFinishes` | two FLAC files, or a FLAC and a WAV, with a `.DS_Store`, or what a crash in the first copy leaves; an upload with either extension, two starts, four indices |
| `ClientServer_calls` | `AnswersOwnRequest`, `OneAnswerQueued`, `ListShowsOwnUploads`, `DownloadsWhatItSaw` | two clients, four calls between them, no request fails |
| `ClientServer_stale_answer` | **violated**: `NoTrackMeansNone` | one client, four calls, requests may fail |
| `NetMessage_calls` | `AssertionsHold`; `DecodesListReversed`; `ServesWhatWasAsked`; `InstallsTerminated`; `AnnouncesItsBody` | three byte values, two bytes to a size, lists of up to five of three tracks, five paths, six files, the largest int 99 |
| `Player_startup` | `ShowsTitlesOnce`; `ReadersAgree`; `StartupEnds` | libraries of up to two of five files, two clicks |
| `Sha256_hash` | types; `SizeHasItsPlace`; `BlocksArePadded`; `HashesAsDocumented`; `ImplementsStandard`; `Returns` | 15 sizes from 0 to 128 bytes, and the word whose digest `lib/sha256/README.md` gives |

Why the bounds are enough. Every hazard of the queue is between one producer
and the consumer; the second producer is there for the mutual exclusion, and
after five pushes the consumer has been through each of its paths with the
queue empty, with one item and with several. On a stream, two messages with
bodies of different length and one without show every confusion of a header
with a body; the third message of the pipelined run is the smallest number that
lets one be pushed in front of another that waits. Two connections are what a
race between a disconnect and an accept needs, with one port or with two; one message is
enough for an answer that is read, for one that is not, and for one to a client that
left. Two starts of the library and a
directory that already holds what a crash left allow a crash during indexing,
during the indexing of what that left, and a run after it; four calls are an
upload and a list of one client around an upload and a download of the other;
indices stop at `MaxIndex`, a bound in the guards of `IndexEntry` and
`OnUploadRequest`, as `MaxPushes`, `MaxConnects`, `MaxMessages`, `MaxRuns` and `MaxCalls` are in those of
`CallPush`, `Connect`, `ReadMessage`, `Start` and `SendRequest`. `MaxFds` is the limit of the
operating system, made as small as leaves each of its three outcomes: a download is
served, it is found but cannot be read, nothing can be opened.

The tracks of `NetMessage` have strings that differ from field to field, empty
ones, one of the greatest length and some that look like a size; its files lie
on both sides of the largest `int` and of twice that.

The files of `Player` have no title, one, two, one in small letters, and one
without `=`; two files show the order. The sizes hashed are those where the padding
changes its shape: none, within a word, at a word, the last size that shares a
block with its own length and the first that does not, a block less a byte, a
block, and more than one. Nothing else in the program depends on the size, and
`SizePlace`, `BlocksAreTheMessage` and `CompressRefinement` are proved for all of them.

Deadlock is not checked by TLC because the systems do come to rest: clients
stop calling, counters reach their bound. For the queue, where being stuck is a
hazard, `NoDeadlock` says which states at rest are right.

### What the passing runs show

* The queue is a FIFO channel whatever the interleaving. It can lose a wakeup,
  but the damage is undone by the next push that finds the main thread asleep
  (`LaterPushDrains`).
* If a caller waits for each message to arrive before it sends the next, a
  connection is a FIFO channel too, for every mixture of messages with and
  without body, and a break only cuts it short. When messages are sent in a
  row, what still holds is that writes never overlap, that the buffer of a write
  is never freed under it, that the queue drains, and that the first message of
  a burst leaves last and whole.
* The raw pointers of the handlers are safe until a client takes a port of which the
  map still has an entry, or leaves with an answer unread: before that, a connection is
  erased at most once and after its last read, or its entry stays in the map.
  Resets, headers that throw, failing accepts and the restart of the loop do not change
  that. With no fault at all no handler throws.
* Whatever happens, the loop, as long as it runs, has an accept outstanding and never
  serves a client that did not solve the puzzle; and who leaves is closed and erased,
  unless its own connection was reset (`get_port` throws first, `connection.cpp:278`) or
  a header of its own threw (nothing reads it any more): those two stay in the map for
  good, open.
* As long as no request fails, a client never mistakes an answer, although
  answers carry no call: at most one is ever in its queue. It sees its own
  uploads, and the index it saw stays the index of the same track.
* Readers mirror writers: no assert of a `>>` fails, the list arrives complete
  (in reverse), and the reply to a download is for the index asked for. A file
  too large for `header.size` never gets that far, thanks to the `int` that
  is too small for it as well. A download installs what was sent if, and in
  general only if, the caller ended the path with a NUL: nothing in the code or
  its comments asks for that.
* The player's rows are the titles in the files, each the last TITLE comment, the
  file the directory yields last on top. The titles are moved there: what a click
  prints is always an empty string, from an element that is always there.
* The startup ends when the list was sent or the connection is lost. It does not
  end, with the window on screen and unable to react, after an Error404, or when
  the validation could not be written and `run()` returned before the request was
  posted (`connection.cpp:108`): no thread is left that could notice.
* Both FLAC readers agree on files whose field names are in capitals. On
  others they do not: the server shows `title=` as "unknown title".
* SHA-256 is what the standard says; the digest in its README comes out.
* No sequence of crashes during indexing loses a track: the copy is complete
  before the original is removed. Later runs lose tracks to uploads only, whose first is
  renamed over index 0. No half upload is ever served but one the disk had no room for.
* Indexing ends, and finds the names free that it makes, once no numbered file of a run
  cut short is left to be returned. With one it may end in an exception and the server
  does not start (`server.cpp:174`), at the next attempt neither.

### Disagreements met (`findings`)

* `wait()` (`thread_safe_queues.h:75`) tests the queue and falls asleep in two
  critical sections; a push between them notifies nobody.
* `send` (`connection.cpp:124`) pushes to the front of the queue that the write
  handlers read the front of: the header of one message goes out with the body
  of another, and one of the two is never sent.
* The Error404 of a failed upload is taken by the next call of the client
  (`client.cpp:136`) for its own answer, and all later answers are off by one.

The models also contain, without a run of their own: the first upload after a
restart renamed over track 0, because `my_hash` (`server.h:69`) starts at 0 in every
process (`LostToUploadsOnly` names it); the restart of the event
loop, which is inside the `catch` and works once (`server.cpp:85`), a reset
connection that is neither closed nor erased because `get_port` throws first
(`connection.cpp:278`), the entry of another host's
connection erased through a shared port (`PortOf` not injective), a directory
indexed twice after a crash before the signature, the beginning of a
track served after a crash inside a copy, an uploaded WAV file that no download
finds, and every file reported missing once the descriptors are used up.

## 4. Fairness

* `TSQueue`: the consumer's steps and those of a push under way are weakly fair:
  a runnable thread is scheduled. Nobody has to push, and no spurious wakeup
  is owed to anybody.
* `MessageStream`: the two `io_context` threads run the handlers that are ready.
* `ServerLoop`: the same for the one `io_context` of the server, and the main
  thread. One weak fairness condition for all handlers is enough, because the
  handlers ready at any time are finitely many and bounded by what clients do;
  clients owe nothing, an accept need not fail and a header need not be wrong: were
  `AcceptFails` or `WrongHeader` among the fair handlers, fairness would force them and
  excuse the loop from everything else.
* `ClientServer` assumes no fairness and promises no progress: a wakeup of the
  server may be lost (`TSQueue_lost_wakeup`), so a request need not be answered.
* `TrackLibrary`: the main thread goes on with indexing and with a request it
  has begun. Nobody has to send requests, and a crash, which no fairness forces,
  ends an obligation (`IndexingFinishes` allows "down", and "aborted" only while a
  numbered file of an earlier run is still to be returned).
* `Player`: the operating system runs both threads: some step of the main thread
  before the rows are shown, some handler of the io thread. Nothing is assumed of
  the server, the network or the user; that the list was sent is a premise of
  `StartupEnds`, since the server may sleep over the request.
* `Sha256`: one thread inside one call.

## 5. The proofs

All theorems are about the module's `Spec`, for every value of the constants
that satisfies the named assumptions (distinct threads, `NoConn` no connection,
bounds that are numbers, ...). What a theorem assumes beyond them stands in its
statement and is one of four things: `~Failures` (`ClientServer`: no request is
answered with Error404), `~Pipelined` (`MessageStream`: the next message waits for
the last one to arrive), `ListsFit` (`NetMessage`: the longest list is
below 2^32 bytes) and `NoneInTheGap` (`TSQueue`: no push notifies between `empty()` and
the locking of `mtx_update` in `wait()`, `thread_safe_queues.h:75`). The passing runs are
instances that satisfy the first three. One more assumption is part of a `Spec` and so of
every theorem about it: in `ClientServer` a client sends, and the server answers, only
when what was sent before in that direction has arrived (`Settled`). The bounds in guards
(`MaxPushes`, `MaxConnects`, `MaxMessages`, `MaxCalls`, `MaxRuns`, `MaxIndex`) are constants,
any numbers; a theorem holds whatever they are. What a property makes an exception for
it names itself (`Tolerated`, `fresh`, `short`).

`ClientServer_stale_answer`, `MessageStream_unsent` and `TSQueue_lost_wakeup` are what
happens without the first two and the last, and three theorems say that nothing else is
to blame: `OnlyFailuresMislead` and `UnqueuedIsWritten` prove the refuted statements of
`client.cpp:142` and `connection.h:75` under `~Failures` and `~Pipelined`, and
`OnlyTheGapStrands` that under `NoneInTheGap` the main thread never sleeps over a request
unless its push is about to notify.

**TSQueue_proofs.** `IInv` is the types, `LockInv` (a mutex is owned by exactly
the thread inside its critical section) and `PopReady` (between `empty()` and
`pop_front` of the consumer the deque stays non-empty: nobody else removes).
`DequeMutualExclusion` follows from `LockInv` alone, since an owner is one thread;
it is not inductive without it, because it says nothing of a mutex
that is free while somebody is inside. `NoDeadlock` follows by looking at the
owner of each mutex. For the refinement, `Conserved` says that `pushed` is
`popped` followed by the deque; `PopReady` makes `PopFront` a `Take` of the
abstract channel, `Emplace` is its `Put`, and every other step stutters.
`OnlyTheGapStrands` rests on `NotifyInv`: from the moment the main thread saw the queue
empty, something is in it only while the push that put it there has still to notify. A
push that notifies ends that, and finds the main thread asleep, which wakes it, or in the
gap, which `NoneInTheGap` excludes; it cannot find it before `cv.wait`, where it holds the
mutex.

**ServerLoop_proofs.** `LocalInv` holds the types of the scalars, `WriteInv` (a
write has something to write), `AcceptInv` (exactly one accept while
`running`, one or two once `restarted`) and `HandshakeInv` (a message read is
outstanding only on a validated connection). `NeverDeaf` follows from
`AcceptInv`: each handler that consumes the accept either starts another or
throws, and the restart starts one. For `ValidatedOnly` the invariant
`ServedInv` follows a validated client's message through the incoming queue,
the main thread's hand and the posted `send`; every one of them may hold
validated connections only, and validation is never taken back.

`NoHandlerDangles` and `LoopStaysUp` are about the time in which faults are
`Tolerated`; that, too, the properties say themselves. `Calm` is what holds then, and
its parts are not inductive alone. `OrderInv`: nothing of a connection is posted
behind what ends it. `EventInv`: what
a posted handler implies (a failed client was not validated, one that disconnects is
gone or reset, and nothing reads any more behind either). `PlaceInv`: a connection
that is open, or that a handler may still use, has its entry in the map; so that its
object lives. A port that is taken breaks this, since the entry is overwritten.
`PeerInv`: an answer is on its way only to a client that is still there; an answer to
one that left may have its write fail after the read did, which disconnects the
connection a second time. A reset leaves the entry in the map, since `get_port` throws
before it is erased, and a header that throws posts nothing: neither frees anything.
`ResetInv` says that only a recorded reset makes a port unknown, which is why
nothing throws without one.

**MessageStream_proofs.** `IInv` is the types of the sender's part with
`OneWriteAtATime` and `WrittenBufferIsQueued` themselves: together they are
inductive, since `RunSend` starts a write only on an empty queue and
`StartsNext` describes what every completed write leaves: an empty
queue and no write, or one write of the front. `TypesAreKept` extends it to the
receiver, whose sizes come from bytes that may be no header.
`BurstEndsWithOpener` rests on `BurstInv`: no message is queued twice, and the one that
found the queue empty stays its last element while others are put before it; so
when its body is written, nothing but its header can have been written before.

With one message in flight, `OneInFlightIsFifo` is the refinement of `FifoChannel`.
`SerialInv` says that everything sent before was delivered intact and that the last
message is in one of four places, or the stream is quiet: in the posted lambda
(`Posted`), at its header (`WritingHeader`), at its body (`WritingBody`), or on the
wire as a whole (`AllWritten`), the receiver being at its header or its body in the
last two. A message is `Put` when it is sent and `Take`n when the receiver delivers
it; every other step stutters. A broken connection stays where it is (`failed`).
`UnqueuedIsWritten` rests on `WrittenInv`: all messages but the last lie on the wire,
header and body in one piece, and the last does too once it is neither posted nor
queued; the wire is only appended to, so what lies there stays (`OnWireStays`).

**ClientServer_proofs.** Answers carry no call, so what has to be shown is that there
is never more than one. `QueueInv` says that of the requests of a client in the server's
queue only the last can be one that is answered; `CallInv` that the last request
of a client, or its answer, is in exactly one of five places (`Settling`, nowhere or
an upload; `Asking`, on the way to the server; `Queueing`; `Answering`, on the way
back; `Answered`, in the client's queue), and which of them each state of the
client's main thread leaves open. `AnswersOwnRequest` and `OneAnswerQueued` follow
from it. For the other two, `LibraryInv` says that an uploaded track is in the library
or still on its way before any later request, and that a list once seen is a prefix of the
library, which only grows. `OnlyFailuresMislead` adds `NoneInv`: an answer "no track",
wherever it is, is about the index of the client's last request, which lies beyond the
tracks the server started with, since the library only grows.

With failures none of this holds, and `OnlyOwnAnswers` says what does. `NumberInv`:
whatever is on its way to or from a client, wherever it is, carries the number of a
request the client made, and a call that ended was told one no later than its own.
`OwnInv`: no number is on its way to two clients, or known to two. Every step either
takes a number nobody has (`Begun`), reads one that is on its way to the same client
(`Ended`), or moves numbers from one place of a client to its next (`Went`).
`StepTypeF` and `PopInv` are the types behind it, for answers Error404 as well: what was
looked at in a queue can be popped, since the other thread only adds to it.

**TrackLibrary_proofs.** `SignedInv`: requests are served from a signed directory
only, and a directory that is not signed holds nothing of an upload. `UploadInv`: the
part of an upload, unless the disk had no room for the rest, is under `new.flac` only,
which is no number, so no download asks for it. `ScanInv`: while the directory is indexed, each file in it is still to be
returned, in hand, or a number given out by this run. `CopyInv`: the original is
there until its copy is whole, under another name. `FreshInv` and `ReplyInv`:
the run that indexed the directory knows every name in it, so its next index is free
and a list stays true. A crash forgets the process and keeps the directory; the
invariants about the process are guarded by its state. For `OnlyUploadsLose`,
`FilesKept` is about the steps of indexing and of the run that indexed: the contents of
the directory after one are at least those before, up to the copy that replaces an
original.

`IndicesAreUnique` needs a strengthening of its own, `UniqueInv`: what the directory
iterator will not return any more and is not the entry in hand has an index that no
other such file has, whatever its extension. It says nothing of what is still to be
returned, and must not: a directory left by a crash may hold `0.flac` while this run
makes `0.wav`, and only when its turn comes is `0.flac` renamed. That an index once given
out is below `my_hash` does the rest, for `IndexEntry` and `IndexNewTrack` alike
(`NewNumber`). `ServedFilesAreKept` follows from `NextIsFree`. Both are about the run
that indexed the directory (`fresh`): after a restart `my_hash` is 0 again, an upload may
share an index with an older file, and one with its extension too is replaced.
`IndicesStay` needs it for directories of mixed files: a FLAC file under the index of a
listed WAV file would be a second file with that index. `OnlyUploadsLose` covers the
later runs as well: of all their steps only that rename loses a track, and the upload
that overwrites a `new.flac` a crash left; the end of an upload overwrites
nothing but that upload's own part (`UploadInv`).

**NetMessage_proofs.** `Value(Bytes(v)) = v` is an induction over the width, and what
`<<` and `>>` do for strings and tracks follows from it: what was written last is
taken first, and then the rest is as it was. The invariant says of each phase what the
message is: `Written(tracks)[i]`, the message after i tracks of the list, or the
bytes of the request or reply of a download, or of the upload. `NoAssertFails`,
`ListIsReversed` and `RightFileIsServed` read the property off it; `TrackIsInstalled`
needs that the first NUL of the reply is the one that ends the path.
`SizeIsAnnounced` bounds what a file adds by the `int` of `get_file_size`; for a list
there is no such limit in the code, and it is a hypothesis (`ListsFit`).

`ValueOfBytes` and `TakesTrack` are those two facts, as theorems of their own: they do
not depend on the state machine.

**Player_proofs.** The map of the fields after n comments is a recursive function;
that it holds the last value of each name (`LastFieldWins`) is an induction over n. From it come
`TagReadersAgree` and that the titles the server reads are titles. `AnswerInv` says
that there is at most one answer, wherever it is, and that a list is the titles of
the library; `RowsInv` that the rows are those titles reversed and the elements of
`tracks_` moved from.

**Sha256_proofs.** For the refinement, `ScheduleInv` says that the counter is in
range, that the words below it are the schedule of the block, and that the
registers are those of eight names; `ModuloIsRemainder` makes `modulo(reg - i, 8)` a
bijection of the eight registers, so the two a round overwrites are read by the
next one as A and E, which is `RoundIsRound`. Every iteration of `Schedule` but
the last stutters, the last is the standard's `Begin`, `AddStartingValues` its
`End`, and the cutting of blocks stutters. `SizePlace` rests on two lemmas: a padded
call never has more than 16 words when the zeros begin, whatever stage it resumes
and however many bytes are left (`UnpaddedLength`), and from any such number
the zeros end at the 14th word or at the 16th, never in between
(`PadZerosLength`). `K` and `H` are numbers nothing depends on; that they are the
right ones is what `HashesAsDocumented` tests.

`BlocksAreTheMessage` needs `CutInv`, which knows between the calls that the blocks
so far are the first of the padded message and what each stage leaves: bytes of the
data behind the last block, fewer than four of them before `WRITE_LAST_WORD`, none
but one more block in `WRITE_PADDING_ZEROS`, nothing in `FINISHED`. A call extends
it word by word: `DataWord` and `FinalWord` (the data and the 1, whose bytes are
loaded, shifted and swapped back into their order), `ZerosCopied` and `SizeCopied`.
`PaddedEnds` and `BlocksNeeded` are the arithmetic: data, 1 and zeros end 8 bytes
before a multiple of 64, in this block if the words in hand leave room for the
size and in the next one otherwise.

`HashIsBounded` is what a safety proof can say of `Returns`: 115 steps for every block
still to come, and what is left of this one, is a number that every step makes
smaller by one and that is 0 exactly when `hash` has returned. With weak fairness of
`Next` that is termination; the last inference is the part TLC checks. It also says
that the number of steps does not depend on the bytes. `NoGarbageIsHashed` uses
`WordInv`, which knows how much of the array `message`, uninitialised at
`sha256.cpp:377`, was filled for this block: no other element reaches a sum.

The words are sets of bits, and the sum is defined by its carries. `SumIsAddition`
shows that this is the addition of the code, `+` on `uint32_t`: `Number` is the number a
word stands for, and bit by bit what the two words have below a position adds up to
what the sum has below it and the carry into it (`SumStep`); the carry out of the
last bit is what modulo 2^32 takes away.

The library's induction rules take an operator, which none of the provers can
instantiate. The inductions over data are therefore inductions over a set
(`SetInduction`): the numbers for which the claim holds contain 0 and with each number
the next, and the least number that is not among them leads to a contradiction. The
recursions of the models are recursive functions, or loops of steps with an
invariant.

Only model-checked: everything temporal under fairness (`SentArrives`,
`QueueDrains`, `LaterPushDrains`, `LeaverIsErased`, `IndexingFinishes`,
`StartupEnds`, `Returns`), which is beyond the prover, and `HashesAsDocumented`, the
computation of one digest.

## 6. Not modelled, and the plan

What is left to prove is smaller than what is proved:

1. The types of `TrackLibrary`, `NetMessage` and `Player` are parts of their invariants
   (`TypeInv`, `AnswerInv`), not theorems of their own; no run checks them apart.
2. That `ClientServer`'s channels may be replaced by a `MessageStream` with one message
   in flight is argued in its section above (`Settled` is the guard both share), not
   proved by composing the two modules.
3. What happens to handlers after a port was taken of which the map had an entry (two
   hosts, or the operating system giving a port out again before the server noticed), or
   after an answer went unread: the model has it all, undefined behaviour included, and
   `AcceptOutstanding`, `OnlyValidatedServed` and `LeaverIsErased` hold of it, but which of
   the other connections are still safe then is not stated.

Not modelled, because no program of the repository calls it, so that there is no
sequence of calls to take as the environment: `session.cpp` and the draft
`backend.cpp`, its only user (the first start makes an empty `merthfirst_session.json`
beside the directory, later ones read `last_session.json` in it, which nothing writes); the directory scanner, a recursive
walk of `boost::filesystem` that appends to the directory it is given, by default a
static one, so that a second call would return the files of the first as well; the ID3 reader, which cuts 600
bytes at every unprintable character, takes words that are frame names for keys
and looks up members for LENGTH and PIC which its table does not have; the JSON
form of a track, a copy of fields.

Left out for good: GTK widgets and the glade file (pure I/O), printing, libFLAC,
GTK and boost::asio themselves (external; modelled by how the code uses them),
the solving of the puzzle (only its outcome matters), and the big endian side of
SHA-256, which the file says is not done.

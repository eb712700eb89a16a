------------------------ MODULE TrackLibrary_proofs ------------------------
(***************************************************************************)
(* Proofs about TrackLibrary for any directory that no server has signed   *)
(* yet, any tracks, uploads and extensions, and any number of starts and   *)
(* crashes: indexing and the uploads after it lose no track, no half       *)
(* upload is served, the list shows what downloads find, every file gets   *)
(* an index of its own, and what has one keeps it.                         *)
(***************************************************************************)
EXTENDS TrackLibrary, TLAPS

TypeInv ==
    /\ DOMAIN dir \subseteq Names
    /\ \A name \in DOMAIN dir : dir[name] \in Content
    /\ my_hash \in 0..MaxIndex
    /\ pc \in {"down", "aborted", "scan", "copy", "remove", "serving", "write", "rename"}
    /\ pending \subseteq Names
    /\ entry \in Names
    /\ upload.ext \in Extensions
    /\ fresh \in BOOLEAN
    /\ buffered \in BOOLEAN

InIndexing == pc \in {"scan", "copy", "remove"}
InServing == pc \in {"serving", "write", "rename"}

Untouched(d) == /\ New \notin DOMAIN d
                /\ \A name \in DOMAIN d : d[name].track \notin Uploads

\* The server serves from a signed directory only, and uploads reach no other.
SignedInv ==
    /\ InServing => CheckIfIndexed
    /\ InIndexing => ~CheckIfIndexed
    /\ ~CheckIfIndexed => Untouched(dir)

\* What is not whole of the uploads the disk had room for is under the name new.flac.
UploadInv ==
    /\ \A name \in DOMAIN dir :
          dir[name].track \in Uploads \ short /\ ~dir[name].whole => name = New
    /\ pc = "write" => upload.id \in Uploads /\ dir[New] = Part(upload.id)
    /\ pc = "rename" => \/ dir[New] = Whole(upload.id)
                        \/ dir[New] = Part(upload.id) /\ upload.id \in short
    /\ pc \in {"write", "rename"} => New \in DOMAIN dir /\ my_hash < MaxIndex

\* Names that were given out by this run, or could have been.
Taken(name) == name.kind = "number" /\ name.id < my_hash

\* While it indexes, what is not taken is still to be returned by the iterator, or
\* is the entry in hand.
ScanInv ==
    InIndexing =>
        /\ fresh
        /\ pending \subseteq DOMAIN dir
        /\ \A name \in DOMAIN dir :
              \/ ~CheckNotSystem(name) \/ name \in pending \/ Taken(name)
              \/ pc # "scan" /\ name = entry

new_path == Number(my_hash - 1, entry.ext)

\* The original stays until its copy is whole.
CopyInv ==
    pc \in {"copy", "remove"} =>
        /\ entry \in DOMAIN dir \ pending /\ CheckNotSystem(entry)
        /\ my_hash > 0
        /\ new_path \in DOMAIN dir /\ entry # new_path
        /\ pc = "copy" => ~dir[new_path].whole
        /\ pc = "remove" => dir[new_path] = dir[entry]

\* The run that indexed the directory knows all names in it.
FreshInv ==
    InServing /\ fresh =>
        \A name \in DOMAIN dir :
            ~CheckNotSystem(name) \/ Taken(name) \/ (name = New /\ pc # "serving")

\* The files that were listed are where they were.
ListInv ==
    fresh /\ reply.kind = "GetList" =>
        \A track \in reply.what : \E e \in Extensions :
            /\ Number(track.index, e) \in DOMAIN dir
            /\ dir[Number(track.index, e)] = track.content

ReplyInv ==
    /\ ~InServing => reply = NoReply
    /\ UploadIsServedWhole
    /\ ListInv

IInv == TypeInv /\ SignedInv /\ UploadInv /\ ScanInv /\ CopyInv /\ FreshInv /\ ReplyInv
-----------------------------------------------------------------------------
(* Names and directories *)

LEMMA Bounds == MaxFds \in Nat /\ MaxIndex \in Nat /\ MaxRuns \in Nat
  BY ConstantAssumption

LEMMA NameFacts ==
  /\ CheckNotSystem(New) /\ ~CheckNotSystem(Indexed) /\ New # Indexed
  /\ \A n, e : /\ Number(n, e) # New /\ Number(n, e) # Indexed
               /\ CheckNotSystem(Number(n, e))
               /\ Number(n, e).kind = "number"
               /\ Number(n, e).id = n /\ Number(n, e).ext = e
  BY DEF CheckNotSystem, Number, New, Indexed, DSStore

\* The names a directory may hold.
LEMMA NamesFacts ==
  /\ New \in Names /\ Indexed \in Names
  /\ \A n \in 0..MaxIndex, e \in Extensions : Number(n, e) \in Names
  /\ \A name \in Names : CheckNotSystem(name) => name.ext \in Extensions
  /\ \A name \in Names : name.kind = "number" =>
        /\ name = Number(name.id, name.ext)
        /\ name.id \in 0..MaxIndex /\ name.ext \in Extensions
  <1>1. New \in Names /\ Indexed \in Names
    BY DEF Names
  <1>2. \A n \in 0..MaxIndex, e \in Extensions : Number(n, e) \in Names
    BY DEF Names, Numbers
  <1>3. ASSUME NEW name \in Names
        PROVE  \/ name \in Numbers
               \/ \E t \in Tracks, e \in Extensions : name = Own(t, e)
               \/ name = New \/ name = Indexed \/ name = DSStore
    BY DEF Names
  <1>4. ASSUME NEW name \in Names, CheckNotSystem(name) PROVE name.ext \in Extensions
    BY <1>3, <1>4, ConstantAssumption DEF Numbers, Number, Own, New, CheckNotSystem
  <1>5. ASSUME NEW name \in Names, name.kind = "number"
        PROVE  /\ name = Number(name.id, name.ext)
               /\ name.id \in 0..MaxIndex /\ name.ext \in Extensions
    <2>1. name \in Numbers
      <3>1. /\ \A t, e : name # Own(t, e)
            /\ name # New /\ name # Indexed /\ name # DSStore
        <4>1. /\ \A t, e : Own(t, e).kind = "own"
              /\ New.kind = "new" /\ Indexed.kind = "indexed" /\ DSStore.kind = "DS_Store"
          BY DEF Own, New, Indexed, DSStore
        <4> QED
          BY <1>5, <4>1
      <3> QED
        BY <1>3, <3>1
    <2>2. PICK n \in 0..MaxIndex, e \in Extensions : name = Number(n, e)
      BY <2>1 DEF Numbers
    <2> QED
      BY <2>2, NameFacts
  <1> QED
    BY <1>1, <1>2, <1>4, <1>5

LEMMA ContentFacts ==
  \A t \in Tracks \cup {NoTrack} :
      /\ Part(t) \in Content /\ Part(t).track = t /\ ~Part(t).whole
      /\ Whole(t) \in Content /\ Whole(t).track = t /\ Whole(t).whole
  BY DEF Part, Whole, Content

LEMMA InitIInv == Init => IInv
  <1> SUFFICES ASSUME Init PROVE IInv
    OBVIOUS
  <1> USE DEF Init
  <1>1. TypeInv
    <2>1. DOMAIN dir \subseteq Names /\ \A name \in DOMAIN dir : dir[name] \in Content
      BY LibraryAssumption
    <2>2. upload.ext \in Extensions
      BY ConstantAssumption DEF NoUpload, Own
    <2> QED
      <3>1. 0 \in 0..MaxIndex /\ New \in Names
        BY NamesFacts, Bounds
      <3> QED
        BY <2>1, <2>2, <3>1 DEF TypeInv
  <1>2. SignedInv
    BY LibraryAssumption, UploadAssumption
       DEF SignedInv, InServing, InIndexing, Untouched, CheckIfIndexed
  <1>3. UploadInv
    BY UploadAssumption DEF UploadInv
  <1>4. ScanInv /\ CopyInv /\ FreshInv
    BY DEF ScanInv, CopyInv, FreshInv, InIndexing, InServing
  <1>5. ReplyInv
    BY DEF ReplyInv, InServing, UploadIsServedWhole, ListInv, NoReply
  <1> QED
    BY <1>1, <1>2, <1>3, <1>4, <1>5 DEF IInv
-----------------------------------------------------------------------------
(* Indexing *)

LEMMA StartInv == IInv /\ Start => IInv'
  <1> SUFFICES ASSUME IInv, Start PROVE IInv'
    OBVIOUS
  <1>0. TypeInv /\ SignedInv /\ UploadInv /\ ReplyInv /\ pc \in {"down", "aborted"}
    BY DEF IInv, Start, Off
  <1>1. /\ UNCHANGED <<dir, my_hash, entry, upload, reply, short>>
        /\ \/ CheckIfIndexed /\ pc' = "serving" /\ fresh' = FALSE /\ pending' = pending
           \/ ~CheckIfIndexed /\ pc' = "scan" /\ fresh' = TRUE /\ pending' = DOMAIN dir
        /\ buffered' \in {buffered, TRUE, FALSE}
    BY DEF Start
  <1>2. reply' = NoReply
    BY <1>0, <1>1 DEF ReplyInv, InServing
  <1>3. TypeInv'
    <2>2. pc' \in {"scan", "serving"} /\ fresh' \in BOOLEAN /\ pending' \subseteq Names
      BY <1>0, <1>1 DEF TypeInv
    <2> QED
      BY <1>0, <1>1, <2>2 DEF TypeInv
  <1>4. SignedInv'
    BY <1>0, <1>1 DEF SignedInv, InServing, InIndexing, CheckIfIndexed, Untouched
  <1>5. UploadInv'
    BY <1>0, <1>1 DEF UploadInv
  <1>6. ScanInv' /\ CopyInv' /\ FreshInv'
    BY <1>1 DEF ScanInv, CopyInv, FreshInv, InIndexing, InServing
  <1>7. ReplyInv'
    BY <1>2 DEF ReplyInv, UploadIsServedWhole, ListInv, NoReply
  <1> QED
    BY <1>3, <1>4, <1>5, <1>6, <1>7 DEF IInv

LEMMA SkipSystemInv == \A name : IInv /\ SkipSystem(name) => IInv'
  <1> SUFFICES ASSUME NEW name, IInv, SkipSystem(name) PROVE IInv'
    OBVIOUS
  <1>0. TypeInv /\ SignedInv /\ UploadInv /\ ScanInv /\ ReplyInv
    BY DEF IInv
  <1>1. /\ pc = "scan" /\ ~CheckNotSystem(name) /\ pending' = pending \ {name}
        /\ UNCHANGED <<dir, my_hash, pc, entry, upload, reply, fresh, short, buffered>>
    BY DEF SkipSystem
  <1>2. TypeInv'
    BY <1>0, <1>1 DEF TypeInv
  <1>3. SignedInv' /\ UploadInv'
    BY <1>0, <1>1
       DEF SignedInv, InServing, InIndexing, CheckIfIndexed, Untouched, UploadInv
  <1>4. ScanInv'
    BY <1>0, <1>1 DEF ScanInv, InIndexing, Taken
  <1>5. CopyInv' /\ FreshInv'
    BY <1>1 DEF CopyInv, FreshInv, InServing
  <1>6. ReplyInv'
    BY <1>0, <1>1 DEF ReplyInv, InServing, UploadIsServedWhole, ListInv
  <1> QED
    BY <1>2, <1>3, <1>4, <1>5, <1>6 DEF IInv

\* While it indexes, the server has answered nobody.
LEMMA NothingServed ==
  ASSUME reply' = NoReply
  PROVE  ReplyInv'
  BY DEF ReplyInv, UploadIsServedWhole, ListInv, NoReply

\* The process ends, while the directory is as it was.
LEMMA EndsInv ==
  ASSUME IInv, NEW state \in {"down", "aborted"}, Ends(state), UNCHANGED <<dir, fresh, short>>
  PROVE  IInv'
  <1>0. TypeInv /\ SignedInv /\ UploadInv
    BY DEF IInv
  <1>1. /\ pc' = state /\ my_hash' = 0 /\ pending' = {} /\ entry' = New
        /\ upload' = NoUpload /\ reply' = NoReply /\ buffered' = FALSE
    BY DEF Ends
  <1>2. TypeInv'
    <2>1. 0 \in 0..MaxIndex /\ New \in Names /\ NoUpload.ext \in Extensions
      BY Bounds, NamesFacts, ConstantAssumption DEF NoUpload, Own
    <2> QED
      BY <1>0, <1>1, <2>1 DEF TypeInv
  <1>3. SignedInv' /\ UploadInv'
    BY <1>0, <1>1
       DEF SignedInv, InServing, InIndexing, CheckIfIndexed, Untouched, UploadInv
  <1>4. ScanInv' /\ CopyInv' /\ FreshInv'
    BY <1>1 DEF ScanInv, CopyInv, FreshInv, InIndexing, InServing
  <1> QED
    BY <1>1, <1>2, <1>3, <1>4, NothingServed DEF IInv

LEMMA IndexEntryInv == \A name : IInv /\ IndexEntry(name) => IInv'
  <1> SUFFICES ASSUME NEW name, IInv, IndexEntry(name) PROVE IInv'
    OBVIOUS
  <1>a. PICK new : new = Number(my_hash, name.ext)
    OBVIOUS
  <1>0. TypeInv /\ SignedInv /\ UploadInv /\ ScanInv /\ ReplyInv
    BY DEF IInv
  <1>1. /\ pc = "scan" /\ name \in pending /\ CheckNotSystem(name) /\ my_hash < MaxIndex
        /\ UNCHANGED <<fresh, short>>
    BY DEF IndexEntry
  <1>2. /\ name \in DOMAIN dir /\ name \in Names /\ fresh /\ ~CheckIfIndexed
        /\ my_hash \in Nat /\ MaxIndex \in Nat
        /\ reply = NoReply
    BY <1>0, <1>1, ConstantAssumption
       DEF ScanInv, InIndexing, TypeInv, SignedInv, ReplyInv, InServing
  <1>3. name.ext \in Extensions /\ new \in Names
    BY <1>0, <1>1, <1>2, <1>a, NamesFacts DEF TypeInv
  <1>4. CASE new \in DOMAIN dir
    <2>1. Ends("aborted") /\ UNCHANGED dir
      BY <1>4, <1>a DEF IndexEntry
    <2> QED
      BY <1>1, <2>1, EndsInv
  <1>5. CASE new \notin DOMAIN dir
    <2>1. /\ dir' = Put(dir, new, Part(dir[name].track))
          /\ pc' = "copy" /\ entry' = name
          /\ \E more \in Noticed(new) : pending' = (pending \ {name}) \cup more
          /\ my_hash' = my_hash + 1
          /\ UNCHANGED <<upload, reply, buffered>>
      BY <1>5, <1>a DEF IndexEntry
    <2>2. PICK more \in SUBSET {new} : pending' = (pending \ {name}) \cup more
      BY <2>1 DEF Noticed
    <2>3. /\ DOMAIN dir' = DOMAIN dir \cup {new}
          /\ dir'[new] = Part(dir[name].track)
          /\ \A n \in DOMAIN dir : dir'[n] = dir[n]
      BY <1>5, <2>1 DEF Put
    <2>4. /\ dir[name].track \in Tracks \cup {NoTrack}
          /\ dir[name].track \notin Uploads
      BY <1>0, <1>2 DEF TypeInv, Content, SignedInv, Untouched
    <2>5. /\ dir'[new] \in Content /\ ~dir'[new].whole
          /\ dir'[new].track = dir[name].track
      BY <2>3, <2>4, ContentFacts
    <2>6. /\ new # New /\ new # Indexed /\ CheckNotSystem(new)
          /\ new.kind = "number" /\ new.id = my_hash /\ new.ext = name.ext
          /\ new # name
      BY <1>2, <1>5, <1>a, NameFacts
    <2>7. TypeInv'
      BY <1>0, <1>1, <1>2, <1>3, <2>1, <2>2, <2>3, <2>5 DEF TypeInv
    <2>8. SignedInv'
      BY <1>0, <1>2, <2>1, <2>3, <2>4, <2>5, <2>6
         DEF SignedInv, InServing, InIndexing, CheckIfIndexed, Untouched
    <2>9. UploadInv'
      BY <1>0, <1>1, <2>1, <2>3, <2>4, <2>5 DEF UploadInv
    <2>10. ScanInv'
      <3>1. \A n \in DOMAIN dir : \/ ~CheckNotSystem(n) \/ n \in pending \/ Taken(n)
        BY <1>0, <1>1 DEF ScanInv, InIndexing
      <3>2. \A n \in DOMAIN dir : Taken(n) => Taken(n)'
        <4>1. ASSUME NEW n \in DOMAIN dir, Taken(n) PROVE n.id < my_hash + 1
          <5>1. n.id \in Nat /\ n.id < my_hash
            BY <1>0, <4>1, NamesFacts DEF TypeInv, Taken
          <5> QED
            BY <1>2, <5>1
        <4> QED
          BY <2>1, <4>1 DEF Taken
      <3>3. Taken(new)'
        BY <1>2, <2>1, <2>6 DEF Taken
      <3>4. pending' \subseteq DOMAIN dir'
        BY <1>0, <1>1, <2>2, <2>3 DEF ScanInv, InIndexing
      <3> QED
        BY <1>1, <1>2, <2>1, <2>2, <2>3, <3>1, <3>2, <3>3, <3>4 DEF ScanInv
    <2>11. CopyInv'
      <3>1. new_path' = new
        BY <1>1, <1>2, <1>a, <2>1 DEF new_path
      <3>2. entry' \in DOMAIN dir' \ pending'
        BY <1>2, <2>1, <2>2, <2>3, <2>6
      <3> QED
        BY <1>1, <1>2, <2>1, <2>3, <2>5, <2>6, <3>1, <3>2 DEF CopyInv
    <2>12. FreshInv'
      BY <2>1 DEF FreshInv, InServing
    <2> QED
      BY <1>2, <2>1, <2>7, <2>8, <2>9, <2>10, <2>11, <2>12, NothingServed DEF IInv
  <1> QED
    BY <1>4, <1>5

LEMMA CopyFileInv == IInv /\ CopyFile => IInv'
  <1> SUFFICES ASSUME IInv, CopyFile PROVE IInv'
    OBVIOUS
  <1>a. PICK new : new = new_path
    OBVIOUS
  <1>0. TypeInv /\ SignedInv /\ UploadInv /\ ScanInv /\ CopyInv /\ ReplyInv
    BY DEF IInv
  <1>1. /\ pc = "copy" /\ pc' = "remove"
        /\ dir' = Put(dir, new, dir[entry])
        /\ UNCHANGED <<my_hash, pending, entry, upload, reply, fresh, short, buffered>>
    BY <1>a DEF CopyFile, memory, new_path
  <1>2. /\ entry \in DOMAIN dir \ pending /\ CheckNotSystem(entry) /\ my_hash > 0
        /\ new \in DOMAIN dir /\ entry # new /\ new # Indexed /\ new # New
        /\ reply = NoReply /\ ~CheckIfIndexed /\ new_path' = new
    BY <1>0, <1>1, <1>a, NameFacts
       DEF CopyInv, ReplyInv, InServing, SignedInv, InIndexing, new_path
  <1>3. /\ DOMAIN dir' = DOMAIN dir /\ dir'[new] = dir[entry]
        /\ \A n \in DOMAIN dir : n # new => dir'[n] = dir[n]
    BY <1>1, <1>2 DEF Put
  <1>4. TypeInv'
    BY <1>0, <1>1, <1>2, <1>3 DEF TypeInv
  <1>5. SignedInv'
    BY <1>0, <1>1, <1>2, <1>3
       DEF SignedInv, InServing, InIndexing, CheckIfIndexed, Untouched
  <1>6. UploadInv'
    BY <1>0, <1>1, <1>2, <1>3 DEF UploadInv, SignedInv, Untouched
  <1>7. ScanInv'
    BY <1>0, <1>1, <1>3 DEF ScanInv, InIndexing, Taken
  <1>8. CopyInv'
    BY <1>1, <1>2, <1>3 DEF CopyInv
  <1>9. FreshInv'
    BY <1>1 DEF FreshInv, InServing
  <1> QED
    BY <1>1, <1>2, <1>4, <1>5, <1>6, <1>7, <1>8, <1>9, NothingServed DEF IInv

LEMMA RemoveOldInv == IInv /\ RemoveOld => IInv'
  <1> SUFFICES ASSUME IInv, RemoveOld PROVE IInv'
    OBVIOUS
  <1>0. TypeInv /\ SignedInv /\ UploadInv /\ ScanInv /\ CopyInv /\ ReplyInv
    BY DEF IInv
  <1>1. /\ pc = "remove" /\ pc' = "scan"
        /\ dir' = Remove(dir, entry)
        /\ UNCHANGED <<my_hash, pending, entry, upload, reply, fresh, short, buffered>>
    BY DEF RemoveOld, memory
  <1>2. /\ entry \in DOMAIN dir \ pending /\ reply = NoReply /\ ~CheckIfIndexed
    BY <1>0, <1>1 DEF CopyInv, ReplyInv, InServing, SignedInv, InIndexing
  <1>3. /\ DOMAIN dir' = DOMAIN dir \ {entry}
        /\ \A n \in DOMAIN dir' : dir'[n] = dir[n]
    BY <1>1 DEF Remove
  <1>4. TypeInv'
    BY <1>0, <1>1, <1>3 DEF TypeInv
  <1>5. SignedInv'
    BY <1>0, <1>1, <1>2, <1>3
       DEF SignedInv, InServing, InIndexing, CheckIfIndexed, Untouched
  <1>6. UploadInv'
    BY <1>0, <1>1, <1>3 DEF UploadInv
  <1>7. ScanInv'
    BY <1>0, <1>1, <1>2, <1>3 DEF ScanInv, InIndexing, Taken
  <1>8. CopyInv' /\ FreshInv'
    BY <1>1 DEF CopyInv, FreshInv, InServing
  <1> QED
    BY <1>1, <1>2, <1>4, <1>5, <1>6, <1>7, <1>8, NothingServed DEF IInv

LEMMA SignAsIndexedInv == IInv /\ SignAsIndexed => IInv'
  <1> SUFFICES ASSUME IInv, SignAsIndexed PROVE IInv'
    OBVIOUS
  <1>0. TypeInv /\ SignedInv /\ UploadInv /\ ScanInv /\ ReplyInv
    BY DEF IInv
  <1>1. /\ pc = "scan" /\ pending = {} /\ pc' = "serving"
        /\ dir' = Put(dir, Indexed, Whole(NoTrack))
        /\ UNCHANGED <<my_hash, pending, entry, upload, reply, fresh, short>>
        /\ buffered' \in BOOLEAN
    BY DEF SignAsIndexed, memory
  <1>2. reply = NoReply /\ ~CheckIfIndexed /\ Untouched(dir)
    BY <1>0, <1>1 DEF ReplyInv, InServing, SignedInv, InIndexing
  <1>3. /\ DOMAIN dir' = DOMAIN dir \cup {Indexed}
        /\ dir'[Indexed] = Whole(NoTrack)
        /\ \A n \in DOMAIN dir : dir'[n] = dir[n]
    BY <1>1, <1>2 DEF Put, CheckIfIndexed
  <1>4. TypeInv'
    BY <1>0, <1>1, <1>3, NamesFacts, ContentFacts DEF TypeInv
  <1>5. SignedInv'
    BY <1>1, <1>3 DEF SignedInv, InIndexing, CheckIfIndexed
  <1>6. UploadInv'
    BY <1>1, <1>2, <1>3, ContentFacts DEF UploadInv, Untouched
  <1>7. ScanInv' /\ CopyInv'
    BY <1>1 DEF ScanInv, CopyInv, InIndexing
  <1>8. FreshInv'
    BY <1>0, <1>1, <1>3, NameFacts DEF FreshInv, ScanInv, InIndexing, Taken
  <1> QED
    BY <1>1, <1>2, <1>4, <1>5, <1>6, <1>7, <1>8, NothingServed DEF IInv
-----------------------------------------------------------------------------
(* Requests *)

\* Whatever is put under other names, or removed there, the files that were listed
\* stay, and so does the answer.
LEMMA ReplyKept ==
  ASSUME ReplyInv, InServing, UNCHANGED <<reply, fresh>>, InServing', short \subseteq short',
         \A n \in DOMAIN dir : n.kind = "number" /\ fresh
             => n \in DOMAIN dir' /\ dir'[n] = dir[n]
  PROVE  ReplyInv'
  <1>1. UploadIsServedWhole'
    BY DEF ReplyInv, UploadIsServedWhole
  <1>2. ListInv'
    <2>1. SUFFICES ASSUME fresh, reply.kind = "GetList", NEW track \in reply.what
                   PROVE  \E e \in Extensions : /\ Number(track.index, e) \in DOMAIN dir'
                                                /\ dir'[Number(track.index, e)] = track.content
      BY DEF ListInv
    <2>2. PICK e \in Extensions : /\ Number(track.index, e) \in DOMAIN dir
                                  /\ dir[Number(track.index, e)] = track.content
      BY <2>1 DEF ReplyInv, ListInv
    <2> QED
      BY <2>1, <2>2, NameFacts
  <1> QED
    BY <1>1, <1>2 DEF ReplyInv

LEMMA OnUploadRequestInv ==
  \A t \in Uploads, e \in Extensions : IInv /\ OnUploadRequest(t, e) => IInv'
  <1> SUFFICES ASSUME NEW t \in Uploads, NEW e \in Extensions, IInv, OnUploadRequest(t, e)
               PROVE  IInv'
    OBVIOUS
  <1>0. TypeInv /\ SignedInv /\ UploadInv /\ FreshInv /\ ReplyInv
    BY DEF IInv
  <1>1. /\ pc = "serving" /\ my_hash < MaxIndex
        /\ UNCHANGED <<my_hash, pending, entry, fresh, short, buffered>>
    BY DEF OnUploadRequest
  <1>2. CheckIfIndexed
    BY <1>0, <1>1 DEF SignedInv, InServing
  <1>3. CASE FilesCanOpen(1)
    <2>1. /\ dir' = Put(dir, New, Part(t)) /\ pc' = "write" /\ upload' = Own(t, e)
          /\ reply' = reply
      BY <1>3 DEF OnUploadRequest
    <2>2. upload'.id = t /\ upload'.ext = e /\ Part(t) \in Content
      BY <2>1, ContentFacts, ConstantAssumption DEF Own
    <2>3. /\ DOMAIN dir' = DOMAIN dir \cup {New} /\ dir'[New] = Part(t)
          /\ \A n \in DOMAIN dir : n # New => dir'[n] = dir[n]
      BY <2>1 DEF Put
    <2>4. TypeInv'
      BY <1>0, <1>1, <2>1, <2>2, <2>3, NamesFacts DEF TypeInv
    <2>5. SignedInv'
      BY <1>2, <2>1, <2>3, NameFacts DEF SignedInv, InIndexing, CheckIfIndexed
    <2>6. UploadInv'
      BY <1>0, <1>1, <2>1, <2>2, <2>3 DEF UploadInv
    <2>7. ScanInv' /\ CopyInv'
      BY <2>1 DEF ScanInv, CopyInv, InIndexing
    <2>8. FreshInv'
      BY <1>0, <1>1, <2>1, <2>3 DEF FreshInv, InServing, Taken
    <2>9. ReplyInv'
      <3>1. \A n : n.kind = "number" => n # New
        BY DEF New
      <3>2. InServing /\ InServing'
        BY <1>1, <2>1 DEF InServing
      <3> QED
        BY <1>0, <1>1, <2>1, <2>3, <3>1, <3>2, ReplyKept
    <2> QED
      BY <2>4, <2>5, <2>6, <2>7, <2>8, <2>9 DEF IInv
  <1>4. CASE ~FilesCanOpen(1)
    <2>1. /\ UNCHANGED <<dir, pc, upload>>
          /\ reply' = [kind |-> "Error404", what |-> {}]
      BY <1>4 DEF OnUploadRequest, SendUser404, Answer
    <2>2. TypeInv'
      BY <1>0, <1>1, <2>1 DEF TypeInv
    <2>3. SignedInv' /\ UploadInv'
      BY <1>0, <1>1, <2>1
         DEF SignedInv, InServing, InIndexing, CheckIfIndexed, Untouched, UploadInv
    <2>4. ScanInv' /\ CopyInv'
      BY <1>1, <2>1 DEF ScanInv, CopyInv, InIndexing
    <2>5. FreshInv'
      BY <1>0, <1>1, <2>1 DEF FreshInv, InServing, Taken
    <2>6. ReplyInv'
      BY <1>1, <2>1 DEF ReplyInv, InServing, UploadIsServedWhole, ListInv
    <2> QED
      BY <2>2, <2>3, <2>4, <2>5, <2>6 DEF IInv
  <1> QED
    BY <1>3, <1>4

LEMMA AddToLibraryInv == IInv /\ AddToLibrary => IInv'
  <1> SUFFICES ASSUME IInv, AddToLibrary PROVE IInv'
    OBVIOUS
  <1>0. TypeInv /\ SignedInv /\ UploadInv /\ FreshInv /\ ReplyInv
    BY DEF IInv
  <1>1. /\ pc = "write" /\ pc' = "rename"
        /\ \/ dir' = Put(dir, New, Whole(upload.id)) /\ short' = short
           \/ short' = short \cup {upload.id} /\ dir' = dir
        /\ UNCHANGED <<my_hash, pending, entry, upload, reply, fresh, buffered>>
    BY DEF AddToLibrary, memory
  <1>2. /\ CheckIfIndexed /\ upload.id \in Uploads /\ New \in DOMAIN dir
        /\ my_hash < MaxIndex /\ InServing /\ dir[New] = Part(upload.id)
    BY <1>0, <1>1 DEF SignedInv, InServing, UploadInv
  <1>3. /\ Whole(upload.id) \in Content /\ Whole(upload.id).whole
        /\ Part(upload.id) \in Content
    BY <1>2, ContentFacts, ConstantAssumption
  <1>4. /\ DOMAIN dir' = DOMAIN dir
        /\ \/ dir'[New] = Whole(upload.id)
           \/ dir'[New] = Part(upload.id) /\ upload.id \in short'
        /\ \A n \in DOMAIN dir : n # New => dir'[n] = dir[n]
        /\ short \subseteq short'
    <2>1. CASE dir' = Put(dir, New, Whole(upload.id)) /\ short' = short
      BY <1>2, <2>1 DEF Put
    <2>2. CASE short' = short \cup {upload.id} /\ dir' = dir
      BY <1>2, <2>2
    <2> QED
      BY <1>1, <2>1, <2>2
  <1>5. TypeInv'
    BY <1>0, <1>1, <1>3, <1>4 DEF TypeInv
  <1>6. SignedInv'
    BY <1>1, <1>2, <1>4 DEF SignedInv, InIndexing, CheckIfIndexed
  <1>7. UploadInv'
    BY <1>0, <1>1, <1>2, <1>3, <1>4 DEF UploadInv
  <1>8. ScanInv' /\ CopyInv'
    BY <1>1 DEF ScanInv, CopyInv, InIndexing
  <1>9. FreshInv'
    BY <1>0, <1>1, <1>4 DEF FreshInv, InServing, Taken
  <1>10. ReplyInv'
    <2>1. \A n : n.kind = "number" => n # New
      BY DEF New
    <2>2. InServing'
      BY <1>1 DEF InServing
    <2> QED
      BY <1>0, <1>1, <1>2, <1>4, <2>1, <2>2, ReplyKept
  <1> QED
    BY <1>5, <1>6, <1>7, <1>8, <1>9, <1>10 DEF IInv

\* In the run that indexed the directory the next index is free.
LEMMA NextIsFree ==
  ASSUME IInv, fresh, pc = "rename", NEW e
  PROVE  Number(my_hash, e) \notin DOMAIN dir
  <1>1. FreshInv /\ my_hash \in Nat
    BY Bounds DEF IInv, TypeInv
  <1>2. /\ CheckNotSystem(Number(my_hash, e)) /\ Number(my_hash, e) # New
        /\ Number(my_hash, e).id = my_hash
    BY NameFacts
  <1>3. ~Taken(Number(my_hash, e))
    BY <1>1, <1>2 DEF Taken
  <1> QED
    BY <1>1, <1>2, <1>3 DEF FreshInv, InServing

LEMMA IndexNewTrackInv == IInv /\ IndexNewTrack => IInv'
  <1> SUFFICES ASSUME IInv, IndexNewTrack PROVE IInv'
    OBVIOUS
  <1>a. PICK new : new = Number(my_hash, upload.ext)
    OBVIOUS
  <1>0. TypeInv /\ SignedInv /\ UploadInv /\ FreshInv /\ ReplyInv
    BY DEF IInv
  <1>1. /\ pc = "rename" /\ pc' = "serving" /\ my_hash' = my_hash + 1
        /\ dir' = Remove(Put(dir, new, dir[New]), New)
        /\ upload' = NoUpload
        /\ UNCHANGED <<pending, entry, reply, fresh, short, buffered>>
    BY <1>a DEF IndexNewTrack
  <1>2. /\ CheckIfIndexed /\ New \in DOMAIN dir
        /\ \/ dir[New] = Whole(upload.id)
           \/ dir[New] = Part(upload.id) /\ upload.id \in short
        /\ my_hash < MaxIndex /\ InServing /\ my_hash \in Nat /\ MaxIndex \in Nat
        /\ upload.ext \in Extensions
    BY <1>0, <1>1, Bounds DEF SignedInv, InServing, UploadInv, TypeInv
  <1>3. /\ new # New /\ new # Indexed /\ new \in Names
        /\ new.kind = "number" /\ new.id = my_hash
    BY <1>2, <1>a, NameFacts, NamesFacts
  <1>4. /\ DOMAIN dir' = (DOMAIN dir \cup {new}) \ {New} /\ dir'[new] = dir[New]
        /\ \A n \in DOMAIN dir : n # New /\ n # new => dir'[n] = dir[n]
    <2>1. /\ DOMAIN Put(dir, new, dir[New]) = DOMAIN dir \cup {new}
          /\ Put(dir, new, dir[New])[new] = dir[New]
          /\ \A n \in DOMAIN dir : n # new => Put(dir, new, dir[New])[n] = dir[n]
      BY DEF Put
    <2>2. /\ DOMAIN dir' = DOMAIN Put(dir, new, dir[New]) \ {New}
          /\ \A n \in DOMAIN dir' : dir'[n] = Put(dir, new, dir[New])[n]
      BY <1>1 DEF Remove
    <2> QED
      BY <1>3, <2>1, <2>2
  <1>5. TypeInv'
    <2>1. upload'.ext \in Extensions
      BY <1>1, ConstantAssumption DEF NoUpload, Own
    <2> QED
      BY <1>0, <1>1, <1>2, <1>3, <1>4, <2>1 DEF TypeInv
  <1>6. SignedInv'
    BY <1>1, <1>2, <1>4, NameFacts DEF SignedInv, InIndexing, CheckIfIndexed
  <1>7. UploadInv'
    <2>1. dir'[new].track \notin short => dir'[new].whole
      BY <1>2, <1>4 DEF Whole, Part
    <2> QED
      BY <1>0, <1>1, <1>4, <2>1 DEF UploadInv
  <1>8. ScanInv' /\ CopyInv'
    BY <1>1 DEF ScanInv, CopyInv, InIndexing
  <1>9. FreshInv'
    <2>1. \A n \in DOMAIN dir : Taken(n) => Taken(n)'
      <3>1. ASSUME NEW n \in DOMAIN dir, Taken(n) PROVE n.id < my_hash + 1
        <4>1. n.id \in Nat /\ n.id < my_hash
          BY <1>0, <3>1, NamesFacts DEF TypeInv, Taken
        <4> QED
          BY <1>2, <4>1
      <3> QED
        BY <1>1, <3>1 DEF Taken
    <2>2. Taken(new)'
      BY <1>1, <1>2, <1>3 DEF Taken
    <2> QED
      BY <1>0, <1>1, <1>2, <1>4, <2>1, <2>2 DEF FreshInv
  <1>10. ReplyInv'
    <2>1. \A n : n.kind = "number" => n # New
      BY DEF New
    <2>2. fresh => new \notin DOMAIN dir
      BY <1>1, <1>a, NextIsFree
    <2>3. InServing'
      BY <1>1 DEF InServing
    <2> QED
      BY <1>0, <1>1, <1>2, <1>4, <2>1, <2>2, <2>3, ReplyKept
  <1> QED
    BY <1>5, <1>6, <1>7, <1>8, <1>9, <1>10 DEF IInv

\* A request that leaves the directory alone.
LEMMA OnlyAnswered ==
  ASSUME IInv, pc = "serving", ReplyInv',
         UNCHANGED <<dir, my_hash, pc, pending, entry, upload, fresh, short, buffered>>
  PROVE  IInv'
  <1>0. TypeInv /\ SignedInv /\ UploadInv /\ FreshInv
    BY DEF IInv
  <1>1. TypeInv'
    BY <1>0 DEF TypeInv
  <1>2. SignedInv' /\ UploadInv'
    BY <1>0 DEF SignedInv, InServing, InIndexing, CheckIfIndexed, Untouched, UploadInv
  <1>3. ScanInv' /\ CopyInv'
    BY DEF ScanInv, CopyInv, InIndexing
  <1>4. FreshInv'
    BY <1>0 DEF FreshInv, InServing, Taken
  <1> QED
    BY <1>1, <1>2, <1>3, <1>4 DEF IInv

LEMMA OnDownloadRequestInv == \A index : IInv /\ OnDownloadRequest(index) => IInv'
  <1> SUFFICES ASSUME NEW index, IInv, OnDownloadRequest(index) PROVE IInv'
    OBVIOUS
  <1>a. PICK file : file = Number(index, FLAC)
    OBVIOUS
  <1>0. UploadInv
    BY DEF IInv
  <1>1. /\ pc = "serving"
        /\ UNCHANGED <<dir, my_hash, pc, pending, entry, upload, fresh, short, buffered>>
    BY DEF OnDownloadRequest
  <1>2. \/ /\ file \in DOMAIN dir
           /\ reply' = [kind |-> "DownloadTrack",
                        what |-> {[index |-> index, content |-> dir[file]]}]
        \/ reply'.kind \in {"Error404", "NoTrackExists"}
    BY <1>a DEF OnDownloadRequest, CheckIfExists, SendTrack, SendUser404, SendNoTrack, Answer
  <1>3. UploadIsServedWhole'
    <2>1. CASE /\ file \in DOMAIN dir
               /\ reply' = [kind |-> "DownloadTrack",
                            what |-> {[index |-> index, content |-> dir[file]]}]
      <3>1. dir[file].track \in Uploads \ short => dir[file].whole
        BY <1>0, <1>a, <2>1, NameFacts DEF UploadInv
      <3>2. \A track \in reply'.what : track.content = dir[file]
        BY <2>1
      <3> QED
        BY <1>1, <3>1, <3>2 DEF UploadIsServedWhole
    <2>2. CASE reply'.kind \in {"Error404", "NoTrackExists"}
      BY <2>2 DEF UploadIsServedWhole
    <2> QED
      BY <1>2, <2>1, <2>2
  <1>4. ListInv'
    BY <1>2 DEF ListInv
  <1>5. ReplyInv'
    BY <1>1, <1>3, <1>4 DEF ReplyInv, InServing
  <1> QED
    BY <1>1, <1>5, OnlyAnswered

LEMMA SendTracksListInv == IInv /\ SendTracksList => IInv'
  <1> SUFFICES ASSUME IInv, SendTracksList PROVE IInv'
    OBVIOUS
  <1> DEFINE listed == {[index |-> Hash(name), content |-> dir[name]] :
                            name \in {n \in DOMAIN dir : CheckNotSystem(n)}}
  <1>0. TypeInv /\ FreshInv
    BY DEF IInv
  <1>1. /\ pc = "serving"
        /\ UNCHANGED <<dir, my_hash, pc, pending, entry, upload, fresh, short, buffered>>
    BY DEF SendTracksList
  <1>2. \/ reply' = [kind |-> "GetList", what |-> listed]
        \/ reply' = [kind |-> "Error404", what |-> {}]
    BY DEF SendTracksList, SendUser404, Answer
  <1>3. UploadIsServedWhole'
    BY <1>2 DEF UploadIsServedWhole
  <1>4. ListInv'
    <2>1. SUFFICES ASSUME fresh, NEW name \in DOMAIN dir, CheckNotSystem(name)
                   PROVE  \E e \in Extensions : /\ Number(Hash(name), e) \in DOMAIN dir
                                                /\ dir[Number(Hash(name), e)] = dir[name]
      <3>1. ASSUME NEW track \in listed
            PROVE  \E name \in DOMAIN dir :
                      CheckNotSystem(name) /\ track.index = Hash(name)
                      /\ track.content = dir[name]
        OBVIOUS
      <3>2. CASE reply' = [kind |-> "GetList", what |-> listed]
        <4>1. reply'.what = listed
          BY <3>2
        <4> HIDE DEF listed
        <4>2. SUFFICES ASSUME fresh, NEW track \in listed
                       PROVE  \E e \in Extensions :
                                 /\ Number(track.index, e) \in DOMAIN dir
                                 /\ dir[Number(track.index, e)] = track.content
          BY <1>1, <4>1 DEF ListInv
        <4> QED
          BY <2>1, <3>1, <4>2
      <3>3. CASE reply' = [kind |-> "Error404", what |-> {}]
        BY <3>3 DEF ListInv
      <3> QED
        BY <1>2, <3>2, <3>3
    <2>2. Taken(name) /\ name \in Names
      BY <1>0, <1>1, <2>1 DEF FreshInv, InServing, TypeInv
    <2>3. name = Number(Hash(name), name.ext) /\ name.ext \in Extensions
      BY <2>2, NamesFacts DEF Taken, Hash
    <2> QED
      BY <2>3
  <1>5. ReplyInv'
    BY <1>1, <1>3, <1>4 DEF ReplyInv, InServing
  <1> QED
    BY <1>1, <1>5, OnlyAnswered

LEMMA CrashInv == IInv /\ Crash => IInv'
  BY EndsInv DEF Crash

LEMMA StepIInv == IInv /\ [Next]_vars => IInv'
  <1> SUFFICES ASSUME IInv, [Next]_vars PROVE IInv'
    OBVIOUS
  <1>1. CASE Indexing
    BY <1>1, StartInv, SkipSystemInv, IndexEntryInv, CopyFileInv, RemoveOldInv,
       SignAsIndexedInv DEF Indexing
  <1>2. CASE Requests
    BY <1>2, OnUploadRequestInv, OnDownloadRequestInv, SendTracksListInv DEF Requests
  <1>3. CASE Handling
    BY <1>3, AddToLibraryInv, IndexNewTrackInv DEF Handling
  <1>4. CASE Crash
    BY <1>4, CrashInv
  <1>5. CASE UNCHANGED vars
    BY <1>5 DEF vars, memory, IInv, TypeInv, SignedInv, InServing, InIndexing,
                CheckIfIndexed, Untouched, UploadInv, ScanInv, CopyInv, FreshInv, ReplyInv,
                UploadIsServedWhole, ListInv, Taken, new_path
  <1> QED
    BY <1>1, <1>2, <1>3, <1>4, <1>5 DEF Next

LEMMA Invariance == Spec => []IInv
  BY InitIInv, StepIInv, PTL DEF Spec
-----------------------------------------------------------------------------
\* However often the process dies while add_to_library writes new.flac or before
\* index_new_track renames it, and whatever the extension of the upload, no download
\* is answered with the beginning of an upload.
THEOREM HalfUploadsStay == Spec => []UploadIsServedWhole
  <1>1. IInv => UploadIsServedWhole
    BY DEF IInv, ReplyInv
  <1> QED
    BY <1>1, Invariance, PTL
-----------------------------------------------------------------------------
(* No track is lost *)

\* Every file is still there, under its name or another.
KeepsFiles == \A name \in DOMAIN dir : \E n \in DOMAIN dir' :
                  dir[name].whole => dir'[n] = dir[name]

LEMMA StoredKept ==
  ASSUME KeepsFiles, NEW t \in Tracks, Stored(t)
  PROVE  Stored(t)'
  <1>1. PICK name \in DOMAIN dir : dir[name] = Whole(t)
    BY DEF Stored
  <1>2. PICK n \in DOMAIN dir' : dir'[n] = Whole(t)
    BY <1>1, ContentFacts DEF KeepsFiles
  <1> QED
    BY <1>2 DEF Stored

LEMMA FilesKept ==
  ASSUME IInv, [Next]_vars, Off \/ fresh
  PROVE  KeepsFiles
  <1>0. TypeInv /\ SignedInv /\ UploadInv /\ CopyInv /\ FreshInv
    BY DEF IInv
  <1>1. ASSUME UNCHANGED dir PROVE KeepsFiles
    BY <1>1 DEF KeepsFiles
  <1>2. ASSUME NEW new, NEW content, dir' = Put(dir, new, content),
               new \in DOMAIN dir => ~dir[new].whole
        PROVE  KeepsFiles
    BY <1>2 DEF KeepsFiles, Put
  <1>3. ASSUME NEW name, IndexEntry(name) PROVE KeepsFiles
    BY <1>1, <1>2, <1>3 DEF IndexEntry
  <1>4. CASE CopyFile
    BY <1>0, <1>2, <1>4 DEF CopyFile, CopyInv, new_path
  <1>5. CASE RemoveOld
    <2>1. /\ DOMAIN dir' = DOMAIN dir \ {entry}
          /\ \A n \in DOMAIN dir' : dir'[n] = dir[n]
          /\ new_path \in DOMAIN dir /\ entry # new_path /\ dir[new_path] = dir[entry]
      BY <1>0, <1>5 DEF RemoveOld, Remove, CopyInv
    <2>2. \A name \in DOMAIN dir : name # entry => dir'[name] = dir[name] /\ name \in DOMAIN dir'
      BY <2>1
    <2>3. new_path \in DOMAIN dir' /\ dir'[new_path] = dir[entry]
      BY <2>1
    <2> QED
      BY <2>2, <2>3 DEF KeepsFiles
  <1>6. CASE SignAsIndexed
    <2>1. Indexed \notin DOMAIN dir /\ dir' = Put(dir, Indexed, Whole(NoTrack))
      BY <1>0, <1>6 DEF SignAsIndexed, SignedInv, InIndexing, CheckIfIndexed
    <2> QED
      BY <1>2, <2>1
  <1>7. ASSUME NEW t \in Uploads, NEW e \in Extensions, OnUploadRequest(t, e)
        PROVE  KeepsFiles
    <2>1. New \notin DOMAIN dir
      <3>1. fresh /\ pc = "serving"
        BY <1>7 DEF OnUploadRequest, Off
      <3>2. ~Taken(New)
        BY DEF Taken, New
      <3> QED
        BY <1>0, <3>1, <3>2, NameFacts DEF FreshInv, InServing
    <2> QED
      BY <1>1, <1>2, <1>7, <2>1 DEF OnUploadRequest
  <1>8. CASE AddToLibrary
    <2>1. /\ dir[New] = Part(upload.id)
          /\ dir' = Put(dir, New, Whole(upload.id)) \/ UNCHANGED dir
      BY <1>0, <1>8 DEF AddToLibrary, UploadInv
    <2>2. ~dir[New].whole
      BY <2>1 DEF Part
    <2> QED
      BY <1>1, <1>2, <2>1, <2>2
  <1>9. CASE IndexNewTrack
    <2>1. PICK new : new = Number(my_hash, upload.ext)
      OBVIOUS
    <2>2. new \notin DOMAIN dir /\ new # New /\ New \in DOMAIN dir
      BY <1>0, <1>9, <2>1, NextIsFree, NameFacts DEF IndexNewTrack, UploadInv, Off
    <2>3. dir' = Remove(Put(dir, new, dir[New]), New)
      BY <1>9, <2>1 DEF IndexNewTrack
    <2>4. /\ DOMAIN Put(dir, new, dir[New]) = DOMAIN dir \cup {new}
          /\ Put(dir, new, dir[New])[new] = dir[New]
          /\ \A n \in DOMAIN dir : n # new => Put(dir, new, dir[New])[n] = dir[n]
      BY DEF Put
    <2>5. /\ DOMAIN dir' = DOMAIN Put(dir, new, dir[New]) \ {New}
          /\ \A n \in DOMAIN dir' : dir'[n] = Put(dir, new, dir[New])[n]
      BY <2>3 DEF Remove
    <2>6. new \in DOMAIN dir' /\ dir'[new] = dir[New]
      BY <2>2, <2>4, <2>5
    <2>7. \A n \in DOMAIN dir : n # New => n \in DOMAIN dir' /\ dir'[n] = dir[n]
      BY <2>2, <2>4, <2>5
    <2> QED
      BY <2>6, <2>7 DEF KeepsFiles
  <1>10. ASSUME \/ Start \/ SendTracksList \/ Crash \/ UNCHANGED vars
                \/ \E name : SkipSystem(name)
                \/ \E index : OnDownloadRequest(index)
         PROVE  KeepsFiles
    BY <1>1, <1>10 DEF Start, SendTracksList, Crash, vars, SkipSystem, OnDownloadRequest
  <1> QED
    BY <1>3, <1>4, <1>5, <1>6, <1>7, <1>8, <1>9, <1>10
       DEF Next, Indexing, Requests, Handling
-----------------------------------------------------------------------------
(* An index is a file, and a file an index *)

IsNumber(name) == name.kind = "number"

InHand(name) == pc \in {"copy", "remove"} /\ name = entry

\* What the iterator does not return any more and is not the entry in hand has an index
\* of its own; when the run serves, there is nothing left to return.
UniqueInv ==
    /\ fresh /\ ~Off =>
          \A m, n \in DOMAIN dir \ pending :
              /\ IsNumber(m) /\ IsNumber(n) /\ m.id = n.id
              /\ ~InHand(m) /\ ~InHand(n)
              => m = n
    /\ fresh /\ InServing => pending = {}

\* The directory as the run that indexed it serves it: every file of the user has an
\* index below my_hash, and no two files have one, whatever their extensions.
OneFilePerIndex ==
    fresh /\ pc = "serving" =>
        /\ \A name \in DOMAIN dir :
              CheckNotSystem(name) => IsNumber(name) /\ name.id < my_hash
        /\ \A m, n \in DOMAIN dir : IsNumber(m) /\ IsNumber(n) /\ m.id = n.id => m = n

\* A file under an index that was not given out yet: the others keep theirs.
LEMMA NewNumber ==
  ASSUME TypeInv, UniqueInv, fresh, ~Off, fresh' = fresh, InServing' => pending' = {},
         NEW e, NEW new, new = Number(my_hash, e),
         DOMAIN dir' \subseteq DOMAIN dir \cup {new},
         \A name \in DOMAIN dir' \ pending' :
             IsNumber(name) /\ ~InHand(name)' =>
                 name = new \/ (name \notin pending /\ ~InHand(name) /\ Taken(name))
  PROVE  UniqueInv'
  <1>1. my_hash \in Nat /\ new.id = my_hash
    BY NameFacts, Bounds DEF TypeInv
  <1>2. \A name \in DOMAIN dir : Taken(name) => name.id # my_hash
    <2> SUFFICES ASSUME NEW name \in DOMAIN dir, Taken(name) PROVE name.id # my_hash
      OBVIOUS
    <2>1. name.id \in Nat /\ name.id < my_hash
      BY NamesFacts, Bounds DEF TypeInv, Taken
    <2> QED
      BY <1>1, <2>1
  <1>3. ASSUME NEW m \in DOMAIN dir' \ pending', NEW n \in DOMAIN dir' \ pending',
               IsNumber(m), IsNumber(n), m.id = n.id, ~InHand(m)', ~InHand(n)'
        PROVE  m = n
    BY <1>1, <1>2, <1>3 DEF UniqueInv
  <1> QED
    BY <1>3 DEF UniqueInv, IsNumber

LEMMA UniqueInvStays ==
  ASSUME IInv, UniqueInv, [Next]_vars
  PROVE  UniqueInv'
  <1>0. TypeInv /\ SignedInv /\ UploadInv /\ ScanInv /\ CopyInv /\ FreshInv
    BY DEF IInv
  <1>n. ~IsNumber(New) /\ ~IsNumber(Indexed) /\ ~IsNumber(DSStore)
    BY DEF IsNumber, New, Indexed, DSStore
  <1>1. ASSUME UNCHANGED <<dir, pc, pending, entry, fresh>> PROVE UniqueInv'
    BY <1>1 DEF UniqueInv, Off, InHand, InServing, IsNumber
  <1>2. CASE Start
    BY <1>2 DEF Start, UniqueInv, InServing
  <1>3. ASSUME NEW name, SkipSystem(name) PROVE UniqueInv'
    <2>1. ~IsNumber(name)
      BY <1>n, <1>3 DEF SkipSystem, CheckNotSystem
    <2>2. \A n : IsNumber(n) /\ n \notin pending' => n \notin pending
      BY <1>3, <2>1 DEF SkipSystem
    <2> QED
      BY <1>3, <2>2 DEF SkipSystem, UniqueInv, Off, InHand, InServing, IsNumber
  <1>4. ASSUME NEW name, IndexEntry(name) PROVE UniqueInv'
    <2>1. PICK new : new = Number(my_hash, name.ext)
      OBVIOUS
    <2>2. CASE new \in DOMAIN dir
      BY <1>4, <2>1, <2>2 DEF IndexEntry, Ends, Off, UniqueInv, InServing
    <2>3. CASE new \notin DOMAIN dir
      <3>1. /\ pc = "scan" /\ fresh /\ pc' = "copy" /\ fresh' = fresh /\ entry' = name
            /\ name \in pending /\ pending \ {name} \subseteq pending'
            /\ DOMAIN dir' = DOMAIN dir \cup {new}
        BY <1>0, <1>4, <2>1, <2>3 DEF IndexEntry, ScanInv, InIndexing, Put
      <3>2. ASSUME NEW n \in DOMAIN dir' \ pending', IsNumber(n), ~InHand(n)', n # new
            PROVE  n \notin pending /\ ~InHand(n) /\ Taken(n)
        <4>1. n \in DOMAIN dir \ pending
          BY <3>1, <3>2 DEF InHand
        <4>2. CheckNotSystem(n)
          BY <1>n, <3>2 DEF CheckNotSystem
        <4> QED
          BY <1>0, <3>1, <4>1, <4>2 DEF ScanInv, InIndexing, InHand
      <3> QED
        BY <1>0, <2>1, <3>1, <3>2, NewNumber DEF InServing, Off
    <2> QED
      BY <2>2, <2>3
  <1>5. CASE CopyFile
    <2>1. DOMAIN dir' = DOMAIN dir /\ pc = "copy" /\ pc' = "remove"
      BY <1>0, <1>5 DEF CopyFile, CopyInv, new_path, Put
    <2> QED
      BY <1>5, <2>1 DEF CopyFile, memory, UniqueInv, Off, InHand, InServing, IsNumber
  <1>6. CASE RemoveOld
    <2>1. DOMAIN dir' = DOMAIN dir \ {entry} /\ pc = "remove" /\ pc' = "scan"
      BY <1>6 DEF RemoveOld, Remove
    <2> QED
      BY <1>6, <2>1 DEF RemoveOld, memory, UniqueInv, Off, InHand, InServing, IsNumber
  <1>7. CASE SignAsIndexed
    <2>1. DOMAIN dir' = DOMAIN dir \cup {Indexed}
      BY <1>7 DEF SignAsIndexed, Put
    <2> QED
      BY <1>n, <1>7, <2>1 DEF SignAsIndexed, memory, UniqueInv, Off, InHand, InServing, IsNumber
  <1>8. ASSUME \/ \E t \in Uploads, e \in Extensions : OnUploadRequest(t, e)
               \/ AddToLibrary
        PROVE  UniqueInv'
    <2>1. /\ DOMAIN dir' \subseteq DOMAIN dir \cup {New}
          /\ pc \in {"serving", "write"} /\ pc' \in {"serving", "write", "rename"}
          /\ UNCHANGED <<pending, fresh>>
      BY <1>8 DEF OnUploadRequest, AddToLibrary, memory, Put
    <2> QED
      BY <1>n, <2>1 DEF UniqueInv, Off, InHand, InServing, IsNumber
  <1>9. CASE IndexNewTrack
    <2>1. PICK new : new = Number(my_hash, upload.ext)
      OBVIOUS
    <2>2. /\ pc = "rename" /\ pc' = "serving" /\ UNCHANGED <<pending, fresh>>
          /\ DOMAIN dir' \subseteq DOMAIN dir \cup {new}
      BY <1>9, <2>1 DEF IndexNewTrack, Put, Remove
    <2>3. CASE ~fresh
      BY <2>2, <2>3 DEF UniqueInv
    <2>4. CASE fresh
      <3>1. pending = {}
        BY <2>2, <2>4 DEF UniqueInv, InServing
      <3>2. ASSUME NEW n \in DOMAIN dir', IsNumber(n), n # new
            PROVE  n \notin pending /\ ~InHand(n) /\ Taken(n)
        BY <1>0, <1>n, <2>2, <2>4, <3>1, <3>2
           DEF FreshInv, InServing, InHand, CheckNotSystem
      <3> QED
        BY <1>0, <2>1, <2>2, <2>4, <3>1, <3>2, NewNumber DEF Off
    <2> QED
      BY <2>3, <2>4
  <1>10. CASE Crash
    BY <1>10 DEF Crash, Ends, Off, UniqueInv, InServing
  <1>11. ASSUME \/ SendTracksList \/ UNCHANGED vars
                \/ \E index : OnDownloadRequest(index)
         PROVE  UniqueInv'
    BY <1>1, <1>11 DEF SendTracksList, OnDownloadRequest, vars, memory
  <1> QED
    BY <1>2, <1>3, <1>4, <1>5, <1>6, <1>7, <1>8, <1>9, <1>10, <1>11
       DEF Next, Indexing, Requests, Handling

LEMMA UniqueInvariance == Spec => [](IInv /\ UniqueInv)
  <1>1. Init => UniqueInv
    BY DEF Init, Off, UniqueInv, InServing
  <1>2. IInv /\ UniqueInv /\ [Next]_vars => UniqueInv'
    BY UniqueInvStays
  <1> QED
    BY <1>1, <1>2, Invariance, PTL DEF Spec

\* index_track_library gives every file of the user an index and no index twice, whatever
\* numbered files of earlier runs cut short it found, and index_new_track goes on so:
\* what a download is answered with under an index can be one file only.
THEOREM IndicesAreUnique == Spec => []OneFilePerIndex
  <1>1. IInv /\ UniqueInv => OneFilePerIndex
    <2>1. IInv /\ fresh /\ pc = "serving" =>
             \A name \in DOMAIN dir :
                 CheckNotSystem(name) => IsNumber(name) /\ name.id < my_hash
      BY DEF IInv, FreshInv, InServing, Taken, IsNumber
    <2>2. UniqueInv /\ fresh /\ pc = "serving" =>
             \A m, n \in DOMAIN dir : IsNumber(m) /\ IsNumber(n) /\ m.id = n.id => m = n
      BY DEF UniqueInv, Off, InServing, InHand
    <2> QED
      BY <2>1, <2>2 DEF OneFilePerIndex
  <1> QED
    BY <1>1, UniqueInvariance, PTL

\* In the run that indexed the directory, the file on_download_request finds under an index
\* send_tracks_list showed is the track shown with it, whatever was uploaded since; under
\* the index of a file that is not FLAC it finds none, and no other.
THEOREM IndicesStay == Spec => []ListedIsDownloadable
  <1>1. IInv /\ UniqueInv => ListedIsDownloadable
    <2> SUFFICES ASSUME IInv, UniqueInv, reply.kind = "GetList", fresh,
                        NEW track \in reply.what,
                        NEW file, file = Number(track.index, FLAC)
                 PROVE  /\ file \in DOMAIN dir => dir[file] = track.content
                        /\ OnlyFlac => file \in DOMAIN dir
      BY DEF ListedIsDownloadable
    <2>1. PICK e \in Extensions : /\ Number(track.index, e) \in DOMAIN dir
                                  /\ dir[Number(track.index, e)] = track.content
      BY DEF IInv, ReplyInv, ListInv
    <2>2. pending = {} /\ ~Off /\ \A n : ~InHand(n)
      <3>1. InServing
        BY DEF IInv, ReplyInv, NoReply
      <3> QED
        BY <3>1 DEF UniqueInv, InServing, InHand, Off
    <2>3. ASSUME file \in DOMAIN dir PROVE file = Number(track.index, e)
      BY <2>1, <2>2, <2>3, NameFacts DEF UniqueInv, IsNumber
    <2>4. ASSUME OnlyFlac PROVE e = FLAC
      BY <2>1, <2>4, NameFacts DEF OnlyFlac
    <2> QED
      BY <2>1, <2>3, <2>4
  <1> QED
    BY <1>1, UniqueInvariance, PTL
-----------------------------------------------------------------------------
(* What was served is served again *)

\* In the run that indexed the directory the file of an index that was given out stays
\* what it is, whatever is uploaded behind it; when the process dies, too.
ServedFilesStay ==
    [][ fresh /\ InServing =>
            \A name \in DOMAIN dir :
                Taken(name) => name \in DOMAIN dir' /\ dir'[name] = dir[name] ]_vars

\* No upload replaces an indexed file: rename (index_new_track) finds its name free, and
\* new.flac is no index.
THEOREM ServedFilesAreKept == Spec => ServedFilesStay
  <1>1. IInv /\ [Next]_vars =>
            [fresh /\ InServing =>
                \A name \in DOMAIN dir :
                    Taken(name) => name \in DOMAIN dir' /\ dir'[name] = dir[name]]_vars
    <2> SUFFICES ASSUME IInv, [Next]_vars, fresh, InServing,
                        NEW name \in DOMAIN dir, Taken(name)
                 PROVE  name \in DOMAIN dir' /\ dir'[name] = dir[name]
      OBVIOUS
    <2>n. name # New
      BY DEF Taken, New
    <2>1. ASSUME UNCHANGED dir PROVE name \in DOMAIN dir' /\ dir'[name] = dir[name]
      BY <2>1
    <2>2. ASSUME NEW content, dir' = Put(dir, New, content)
          PROVE  name \in DOMAIN dir' /\ dir'[name] = dir[name]
      BY <2>n, <2>2 DEF Put
    <2>3. CASE IndexNewTrack
      <3>1. PICK new : new = Number(my_hash, upload.ext)
        OBVIOUS
      <3>2. new # name
        BY <2>3, <3>1, NextIsFree DEF IInv, IndexNewTrack
      <3>3. dir' = Remove(Put(dir, new, dir[New]), New)
        BY <2>3, <3>1 DEF IndexNewTrack
      <3>4. name \in DOMAIN Put(dir, new, dir[New]) /\ Put(dir, new, dir[New])[name] = dir[name]
        BY <3>2 DEF Put
      <3> QED
        BY <2>n, <3>3, <3>4 DEF Remove
    <2>4. ~Indexing
      BY DEF InServing, Indexing, Start, Off, SkipSystem, IndexEntry, CopyFile, RemoveOld,
             SignAsIndexed
    <2>5. ASSUME NEW t \in Uploads, NEW e \in Extensions, OnUploadRequest(t, e)
          PROVE  name \in DOMAIN dir' /\ dir'[name] = dir[name]
      BY <2>1, <2>2, <2>5 DEF OnUploadRequest
    <2>6. CASE AddToLibrary
      BY <2>2, <2>6 DEF AddToLibrary
    <2>7. ASSUME \/ SendTracksList \/ Crash \/ UNCHANGED vars
                 \/ \E index : OnDownloadRequest(index)
          PROVE  name \in DOMAIN dir' /\ dir'[name] = dir[name]
      BY <2>1, <2>7 DEF SendTracksList, Crash, vars, OnDownloadRequest
    <2> QED
      BY <2>3, <2>4, <2>5, <2>6, <2>7 DEF Next, Requests, Handling
  <1> QED
    BY <1>1, Invariance, PTL DEF Spec, ServedFilesStay
-----------------------------------------------------------------------------
(* What later runs lose *)

\* Neither index_track_library, cut short anywhere and started again, nor the uploads of
\* the run that indexed lose a track; in later runs two steps can, and no file but the one
\* they replace is lost with them: the rename of index_new_track over the index that
\* my_hash (server.h:69), begun at 0 again, names, and the next upload over a new.flac.
THEOREM OnlyUploadsLose == Spec => LostToUploadsOnly
  <1>1. ASSUME IInv, [Next]_vars, NEW t \in Tracks, Stored(t), ~(Stored(t))'
        PROVE  /\ ~fresh
               /\ \/ /\ pc = "rename" /\ Number(my_hash, upload.ext) \in DOMAIN dir
                     /\ dir[Number(my_hash, upload.ext)] = Whole(t)
                  \/ /\ pc = "serving" /\ New \in DOMAIN dir
                     /\ dir[New] = Whole(t)
    <2>1. ~Off /\ ~fresh
      BY <1>1, FilesKept, StoredKept
    <2>2. InServing
      BY <1>1, <2>1 DEF IInv, TypeInv, ScanInv, InIndexing, InServing, Off
    <2>3. PICK name \in DOMAIN dir : dir[name] = Whole(t)
      BY <1>1 DEF Stored
    <2>4. \A n \in DOMAIN dir' : dir'[n] # Whole(t)
      BY <1>1 DEF Stored
    <2>5. dir' # dir
      BY <2>3, <2>4
    <2>6. ~Indexing
      BY <2>2 DEF InServing, Indexing, Start, Off, SkipSystem, IndexEntry, CopyFile, RemoveOld,
                  SignAsIndexed
    <2>7. \/ \E u \in Uploads, e \in Extensions : OnUploadRequest(u, e)
          \/ AddToLibrary \/ IndexNewTrack
      BY <1>1, <2>5, <2>6 DEF Next, Requests, Handling, SendTracksList, Crash, vars,
                              OnDownloadRequest
    <2>8. ASSUME NEW content, dir' = Put(dir, New, content) PROVE name = New
      BY <2>3, <2>4, <2>8 DEF Put
    <2>9. ASSUME NEW u \in Uploads, NEW e \in Extensions, OnUploadRequest(u, e)
          PROVE  pc = "serving" /\ New \in DOMAIN dir /\ dir[New] = Whole(t)
      BY <2>3, <2>5, <2>8, <2>9 DEF OnUploadRequest
    <2>10. ~AddToLibrary
      <3> SUFFICES ASSUME AddToLibrary PROVE FALSE
        OBVIOUS
      <3>1. dir[New] = Part(upload.id)
        BY <1>1 DEF IInv, UploadInv, AddToLibrary
      <3>2. name = New
        BY <2>5, <2>8 DEF AddToLibrary
      <3> QED
        BY <2>3, <3>1, <3>2 DEF Part, Whole
    <2>11. ASSUME IndexNewTrack
           PROVE  /\ pc = "rename" /\ Number(my_hash, upload.ext) \in DOMAIN dir
                  /\ dir[Number(my_hash, upload.ext)] = Whole(t)
      <3>1. PICK new : new = Number(my_hash, upload.ext)
        OBVIOUS
      <3>2. new # New
        BY <3>1, NameFacts
      <3>3. dir' = Remove(Put(dir, new, dir[New]), New)
        BY <2>11, <3>1 DEF IndexNewTrack
      <3>4. /\ DOMAIN Put(dir, new, dir[New]) = DOMAIN dir \cup {new}
            /\ Put(dir, new, dir[New])[new] = dir[New]
            /\ \A n \in DOMAIN dir : n # new => Put(dir, new, dir[New])[n] = dir[n]
        BY DEF Put
      <3>5. /\ DOMAIN dir' = (DOMAIN dir \cup {new}) \ {New}
            /\ \A n \in DOMAIN dir' : dir'[n] = Put(dir, new, dir[New])[n]
        BY <3>3, <3>4 DEF Remove
      <3>6. name # New
        BY <2>3, <2>4, <3>2, <3>4, <3>5
      <3>7. name = new
        BY <2>3, <2>4, <3>4, <3>5, <3>6
      <3> QED
        BY <2>3, <2>11, <3>1, <3>7 DEF IndexNewTrack
    <2> QED
      BY <2>1, <2>7, <2>9, <2>10, <2>11
  <1>2. IInv /\ [Next]_vars =>
          [\A t \in Tracks : Stored(t) /\ ~(Stored(t))' =>
            /\ ~fresh
            /\ \/ /\ pc = "rename" /\ Number(my_hash, upload.ext) \in DOMAIN dir
                  /\ dir[Number(my_hash, upload.ext)] = Whole(t)
               \/ /\ pc = "serving" /\ New \in DOMAIN dir
                  /\ dir[New] = Whole(t)]_vars
    BY <1>1
  <1> QED
    BY <1>2, Invariance, PTL DEF Spec, LostToUploadsOnly

=============================================================================

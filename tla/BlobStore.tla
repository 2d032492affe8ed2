------------------------------ MODULE BlobStore ------------------------------
(***************************************************************************)
(* internal/blob: the spool directory of encrypted message bodies and its  *)
(* master key.  A body is sealed chunk by chunk into a temporary file that *)
(* is renamed when it is complete; a reader opens the chunks one after the *)
(* other.  A sealed chunk opens only under the key, the salt of the header *)
(* and the nonce (counter, last) it was sealed with, so it is the record of*)
(* these with its plaintext.  Module Spool only knows whether a body is    *)
(* there; this one is about what a file holds.                             *)
(***************************************************************************)
EXTENDS Naturals, Sequences, SequencesExt

CONSTANTS Id,         \* message ids, each stored once
          Proc,       \* processes that open the store
          Key,        \* master keys that may be generated
          NoKey,      \* no master key file
          ShortKey,   \* a master key file that is not complete
          Chunk,      \* chunkSize
          MaxLen,     \* bound: length of a body
          MaxBytes,   \* the size the caller allows
          MaxDamage,  \* bound: changes to files from outside
          MaxCrashes  \* bound: crashes

BlobBounds == /\ Chunk \in Nat \ {0} /\ MaxLen \in Nat /\ MaxBytes \in Nat \ {0}
              /\ NoKey \notin Key \union Id /\ ShortKey \notin Key /\ NoKey # ShortKey

VARIABLES keyFile,  \* the file master.key
          used,     \* keys generated so far
          opened,   \* [Proc -> where Open is, and the key it has]
          len,      \* [Id -> length of the body that was given to Put]
          put,      \* [Id -> where Put is, and the temporary file]
          file,     \* [Id -> the file in place, or NoFile]
          rd,       \* [Id -> a reader of the body]
          damaged,  \* ids whose file was changed from outside
          damage, crashes

keyVars == <<keyFile, used, opened>>
vars == <<keyVars, len, put, file, rd, damaged, damage, crashes>>

\* The bytes of a body are told apart.
Body(i) == [k \in 1..len[i] |-> <<i, k>>]

NoFile == [salt |-> NoKey, chunks |-> <<>>]
NoPut == [at |-> "no", by |-> NoKey, key |-> NoKey, read |-> 0, chunks |-> <<>>]
NoReader == [at |-> "no", by |-> NoKey, key |-> NoKey, file |-> NoFile, ctr |-> 0, out |-> <<>>]

BlobInit ==
    /\ keyFile = NoKey /\ used = {}
    /\ opened = [p \in Proc |-> [at |-> "down", key |-> NoKey]]
    /\ len \in [Id -> 0..MaxLen]
    /\ put = [i \in Id |-> NoPut] /\ file = [i \in Id |-> NoFile]
    /\ rd = [i \in Id |-> NoReader]
    /\ damaged = {} /\ damage = 0 /\ crashes = 0

-----------------------------------------------------------------------------
(* Open.                                                                   *)

Opening(p, at, k) == opened' = [opened EXCEPT ![p] = [at |-> at, key |-> k]]

\* A key of the wrong size ends the start; a missing one is generated.
LoadKey(p) ==
    /\ opened[p].at = "down"
    /\ \/ keyFile \in Key /\ Opening(p, "open", keyFile)
       \/ keyFile = ShortKey /\ Opening(p, "down", NoKey)
       \/ keyFile = NoKey /\ Opening(p, "generated", NoKey)
    /\ UNCHANGED <<keyFile, used, len, put, file, rd, damaged, damage, crashes>>

\* O_EXCL: the process that comes second reads the key of the first.
CreateKey(p) ==
    /\ opened[p].at = "generated"
    /\ IF keyFile = NoKey THEN keyFile' = ShortKey /\ Opening(p, "created", NoKey)
       ELSE Opening(p, "down", NoKey) /\ UNCHANGED keyFile
    /\ UNCHANGED <<used, len, put, file, rd, damaged, damage, crashes>>

WriteKey(p, k) ==
    /\ opened[p].at = "created" /\ k \notin used
    /\ keyFile' = k /\ used' = used \union {k} /\ Opening(p, "open", k)
    /\ UNCHANGED <<len, put, file, rd, damaged, damage, crashes>>

-----------------------------------------------------------------------------
(* Put.                                                                    *)

PutStart(p, i) ==
    /\ opened[p].at = "open" /\ put[i].at = "no" /\ file[i] = NoFile
    /\ put' = [put EXCEPT ![i] = [NoPut EXCEPT !.at = "writing", !.by = p, !.key = opened[p].key]]
    /\ UNCHANGED <<keyVars, len, file, rd, damaged, damage, crashes>>

\* The bytes io.ReadFull returns next.
Read(i) == SubSeq(Body(i), put[i].read + 1, Min({put[i].read + Chunk, len[i]}))

\* The chunk that could not be filled is the last one, an empty one when the
\* length is a multiple of the chunk size.
Sealed(i) ==
    [key |-> put[i].key, salt |-> i, ctr |-> Len(put[i].chunks),
     last |-> Len(Read(i)) < Chunk, data |-> Read(i)]

PutChunk(i) ==
    /\ put[i].at = "writing" /\ put[i].read + Len(Read(i)) <= MaxBytes
    /\ put' = [put EXCEPT ![i].read = @ + Len(Read(i)), ![i].chunks = Append(@, Sealed(i)),
                          ![i].at = IF Sealed(i).last THEN "synced" ELSE @]
    /\ UNCHANGED <<keyVars, len, file, rd, damaged, damage, crashes>>

\* The source is too long, or could not be read or written: the temporary file
\* is removed.
PutFails(i) ==
    /\ put[i].at \in {"writing", "synced"}
    /\ put' = [put EXCEPT ![i] = [NoPut EXCEPT !.at = "failed"]]
    /\ UNCHANGED <<keyVars, len, file, rd, damaged, damage, crashes>>

PutRename(i) ==
    /\ put[i].at = "synced"
    /\ file' = [file EXCEPT ![i] = [salt |-> i, chunks |-> put[i].chunks]]
    /\ put' = [put EXCEPT ![i] = [NoPut EXCEPT !.at = "done"]]
    /\ UNCHANGED <<keyVars, len, rd, damaged, damage, crashes>>

Delete(i) ==
    /\ file[i] # NoFile
    /\ file' = [file EXCEPT ![i] = NoFile]
    /\ UNCHANGED <<keyVars, len, put, rd, damaged, damage, crashes>>

-----------------------------------------------------------------------------
(* Get: the open file stays readable when its name is removed.             *)

Get(p, i) ==
    /\ opened[p].at = "open" /\ file[i] # NoFile /\ rd[i].at # "reading"
    /\ rd' = [rd EXCEPT ![i] = [NoReader EXCEPT !.at = "reading", !.by = p,
                                                !.key = opened[p].key, !.file = file[i]]]
    /\ UNCHANGED <<keyVars, len, put, file, damaged, damage, crashes>>

Opens(r, c, last) == c.key = r.key /\ c.salt = r.file.salt /\ c.last = last /\ c.ctr = r.ctr

Rest(r) == SubSeq(r.file.chunks, r.ctr + 1, Len(r.file.chunks))

\* A chunk that is not full is read together with what follows it.
Aligned(r) == Len(Head(Rest(r)).data) = Chunk \/ Len(Rest(r)) = 1

\* Mutant: any chunk may be the last one
NextUntilEOF(r) ==
    IF Rest(r) = <<>> THEN [r EXCEPT !.at = "eof"]
    ELSE LET c == Head(Rest(r)) IN
         IF Aligned(r) /\ (Opens(r, c, FALSE) \/ Opens(r, c, TRUE))
         THEN [r EXCEPT !.out = @ \o c.data, !.ctr = @ + 1]
         ELSE [r EXCEPT !.at = "corrupt"]

\* next: what the reader is after one more chunk.
NextChunk(r) ==
    IF Rest(r) = <<>> \/ ~Aligned(r) THEN [r EXCEPT !.at = "corrupt"]
    ELSE LET c == Head(Rest(r)) IN
         IF Opens(r, c, FALSE) THEN [r EXCEPT !.out = @ \o c.data, !.ctr = @ + 1]
         ELSE IF Opens(r, c, TRUE) THEN [r EXCEPT !.out = @ \o c.data, !.ctr = @ + 1,
                                                  !.at = IF Len(Rest(r)) > 1 THEN "corrupt" ELSE "eof"]
         ELSE [r EXCEPT !.at = "corrupt"]

ReadNext(i) ==
    /\ rd[i].at = "reading"
    /\ rd' = [rd EXCEPT ![i] = NextChunk(@)]
    /\ UNCHANGED <<keyVars, len, put, file, damaged, damage, crashes>>

-----------------------------------------------------------------------------
(* What happens to files: a bad block, a truncation, chunks that were lost,*)
(* repeated, exchanged, or brought in from another file.                   *)

Garbled(c) == [c EXCEPT !.key = NoKey]
Short(c) == [c EXCEPT !.key = NoKey, !.data = <<>>]

Damages(i) ==
    LET s == file[i].chunks
        n == Len(s)
    IN UNION { {SubSeq(s, 1, k - 1), SubSeq(s, 1, k - 1) \o <<Short(s[k])>>,
                [s EXCEPT ![k] = Garbled(@)], RemoveAt(s, k), InsertAt(s, k, s[k]), Append(s, s[k])}
               \union {[s EXCEPT ![k] = s[j], ![j] = s[k]] : j \in 1..n}
               \union UNION {{[s EXCEPT ![k] = file[j].chunks[l]] : l \in 1..Len(file[j].chunks)} : j \in Id}
             : k \in 1..n } \ {s}

DamageFile(i) ==
    /\ damage < MaxDamage /\ damage' = damage + 1
    /\ \E s \in Damages(i) : file' = [file EXCEPT ![i].chunks = s]
    /\ damaged' = damaged \union {i}
    /\ UNCHANGED <<keyVars, len, put, rd, crashes>>

\* Temporary files that were not renamed stay where nobody looks at them.
Crash(p) ==
    /\ crashes < MaxCrashes /\ crashes' = crashes + 1
    /\ Opening(p, "down", NoKey)
    /\ put' = [i \in Id |-> IF put[i].by = p THEN [NoPut EXCEPT !.at = "failed"] ELSE put[i]]
    /\ rd' = [i \in Id |-> IF rd[i].by = p THEN NoReader ELSE rd[i]]
    /\ UNCHANGED <<keyFile, used, len, file, damaged, damage>>

BlobNext ==
    \/ \E p \in Proc : LoadKey(p) \/ CreateKey(p) \/ Crash(p) \/ \E k \in Key : WriteKey(p, k)
    \/ \E i \in Id : \/ \E p \in Proc : PutStart(p, i) \/ Get(p, i)
                     \/ PutChunk(i) \/ PutFails(i) \/ PutRename(i) \/ Delete(i)
                     \/ ReadNext(i) \/ DamageFile(i)

BlobSpec == BlobInit /\ [][BlobNext]_vars

-----------------------------------------------------------------------------
(* Properties.                                                             *)

\* A body read to its end is the body that was stored, whatever length it has
\* and whatever became of the file: "truncated spool files fail authentication".
ReadIsWhole == \A i \in Id : rd[i].at = "eof" => rd[i].out = Body(i)

\* What a reader has handed out before it finds a file damaged is the beginning
\* of the body: chunks are never out of place.
ReadIsPrefix == \A i \in Id : IsPrefix(rd[i].out, Body(i))

\* A file that is in place and was left alone can be read, also by a process
\* started later, or at the same time as the one that generated the key: no Put
\* that failed or was cut off leaves a part of a body under the id.
UndamagedReads == \A i \in Id : rd[i].at = "corrupt" => i \in damaged

-----------------------------------------------------------------------------
(* Invariant.                                                              *)

\* What Put seals as chunk n of body i, and a body sealed as far as that, or to
\* its end.
Piece(i, n) == SubSeq(Body(i), n * Chunk + 1, Min({n * Chunk + Chunk, len[i]}))
SealedAs(k, i, n) ==
    [key |-> k, salt |-> i, ctr |-> n, last |-> len[i] < n * Chunk + Chunk, data |-> Piece(i, n)]
Part(k, i, s) == \A n \in 1..Len(s) : s[n] = SealedAs(k, i, n - 1)
Complete(k, i, s) ==
    /\ Part(k, i, s) /\ Len(s) > 0
    /\ (Len(s) - 1) * Chunk <= len[i] /\ len[i] < Len(s) * Chunk

\* Chunks that open under some key are as Put sealed them, wherever they are now.
Sealing == {c \in [key : Key \union {NoKey}, salt : Id, ctr : Nat, last : BOOLEAN, data : Seq(Id \X Nat)] :
              c.key \in Key => c = SealedAs(c.key, c.salt, c.ctr)}

Putting == [at : {"no", "writing", "synced", "failed", "done"}, by : Proc \union {NoKey},
            key : Key \union {NoKey}, read : Nat, chunks : Seq(Sealing)]
Stored == [salt : Id \union {NoKey}, chunks : Seq(Sealing)]
Reader == [at : {"no", "reading", "eof", "corrupt"}, by : Proc \union {NoKey},
           key : Key \union {NoKey}, file : Stored, ctr : Nat, out : Seq(Id \X Nat)]

BlobTypeOK ==
    /\ keyFile \in Key \union {NoKey, ShortKey} /\ len \in [Id -> Nat]
    /\ opened \in [Proc -> [at : {"down", "generated", "created", "open"}, key : Key \union {NoKey}]]
    /\ put \in [Id -> Putting] /\ file \in [Id -> Stored] /\ rd \in [Id -> Reader]

\* One process writes the key, and whoever has opened the store has that one.
KeysAgree ==
    /\ \A p \in Proc :
          /\ opened[p].at = "open" => keyFile \in Key /\ opened[p].key = keyFile
          /\ opened[p].at = "created" => keyFile = ShortKey
    /\ \A p, q \in Proc : opened[p].at = "created" /\ opened[q].at = "created" => p = q

PutsInOrder ==
    \A i \in Id :
       /\ put[i].at = "writing" =>
             /\ keyFile \in Key /\ put[i].key = keyFile
             /\ put[i].read = Len(put[i].chunks) * Chunk /\ put[i].read <= len[i]
             /\ Part(keyFile, i, put[i].chunks)
       /\ put[i].at = "synced" => keyFile \in Key /\ Complete(keyFile, i, put[i].chunks)

FilesAreWhole ==
    \A i \in Id : file[i] # NoFile =>
       /\ keyFile \in Key /\ file[i].salt = i
       /\ i \notin damaged => Complete(keyFile, i, file[i].chunks)

ReadersAreInPlace ==
    \A i \in Id : LET r == rd[i] IN
       /\ Len(r.out) <= len[i] /\ r.out = SubSeq(Body(i), 1, Len(r.out))
       /\ r.at = "eof" => Len(r.out) = len[i]
       /\ r.at = "corrupt" => i \in damaged
       /\ r.at = "reading" =>
             /\ keyFile \in Key /\ r.key = keyFile /\ r.file.salt = i
             /\ Len(r.out) = r.ctr * Chunk
             /\ i \notin damaged => Complete(keyFile, i, r.file.chunks)

BlobInv == BlobTypeOK /\ KeysAgree /\ PutsInOrder /\ FilesAreWhole /\ ReadersAreInPlace
==============================================================================

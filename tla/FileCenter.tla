----------------------------- MODULE FileCenter -----------------------------
(* The upload of one file (FileManager): the client asks for a token, sends *)
(* the ranges of the file and says when it is done. It may send any of      *)
(* these again when an answer is late, so that several process threads work *)
(* on the token: they share the list of ranges and the temporary file, and  *)
(* no lock guards either.                                                   *)
(*                                                                          *)
(* Files are inodes, since a thread that has one open goes on writing to it *)
(* after another thread moved it. A range has the data its start stands     *)
(* for: one that fails its checks is refused and leaves nothing behind. A   *)
(* file is read, for its hash or to be copied, a range at a time.           *)
EXTENDS Integers, Sequences, FiniteSets

CONSTANTS
    Uploaders,      \* process threads of the file center
    Ranges,         \* the ranges the file is made of
    MaxRequests     \* bound: Uploading and Uploaded requests

ASSUME FileCenterAssumption ==
    Ranges # {} /\ IsFiniteSet(Ranges) /\ MaxRequests \in Nat

VARIABLES
    list,       \* DataList of the token, as an iteration meets it
    detached,   \* its end is linked to an entry that no iteration meets
    pc,         \* of a thread in UploadedHandler
    out,        \* the inode it writes to
    next,       \* the entry of the list it writes next
    from,       \* the inode it reads
    left,       \* the ranges it has yet to read
    temp,       \* inode at the temporary path, NoFile: none
    archive,    \* inode at the path of the archive
    content,    \* of the inodes: the ranges written
    cut,        \* history: inodes whose copying was disturbed
    requests,   \* requests served
    uploaded    \* Uploaded requests that were answered with success

uploadVars ==
    <<list, detached, pc, out, next, from, left, temp, archive, content, cut, requests, uploaded>>

NoFile == 0
Inodes == DOMAIN content
Pcs == {"free", "merge", "check", "hash", "archive", "copy", "remove"}

UploadTypeOK ==
    /\ list \in Seq(Ranges) /\ detached \in BOOLEAN
    /\ content \in Seq(SUBSET Ranges)
    /\ temp \in Inodes \cup {NoFile} /\ archive \in Inodes \cup {NoFile}
    /\ pc \in [Uploaders -> Pcs]
    /\ out \in [Uploaders -> Inodes \cup {NoFile}]
    /\ next \in [Uploaders -> Nat \ {0}]
    /\ from \in [Uploaders -> Inodes \cup {NoFile}]
    /\ left \in [Uploaders -> SUBSET Ranges]
    /\ cut \subseteq Inodes
    /\ requests \in 0 .. MaxRequests /\ uploaded \in Nat

UploadInit ==
    /\ list = <<>> /\ detached = FALSE
    /\ content = <<>> /\ cut = {}
    /\ temp = NoFile /\ archive = NoFile
    /\ pc = [t \in Uploaders |-> "free"]
    /\ out = [t \in Uploaders |-> NoFile]
    /\ next = [t \in Uploaders |-> 1]
    /\ from = [t \in Uploaders |-> NoFile]
    /\ left = [t \in Uploaders |-> {}]
    /\ requests = 0 /\ uploaded = 0

Goto(t, step) == pc' = [pc EXCEPT ![t] = step]
Take(n) == requests + n <= MaxRequests /\ requests' = requests + n

Writes(t, i) == out' = [out EXCEPT ![t] = i]
Reads(t, i, ranges) ==
    /\ from' = [from EXCEPT ![t] = i]
    /\ left' = [left EXCEPT ![t] = ranges]

(* UploadingHandler. *)
Uploading(t) ==
    /\ pc[t] = "free" /\ Take(1)
    /\ \E r \in Ranges : list' = IF detached THEN list ELSE Append(list, r)
    /\ UNCHANGED <<detached, pc, out, next, from, left, temp, archive, content, cut, uploaded>>

(* Two threads push to the list at once: both link their entry to the same  *)
(* one, and an iteration meets the entry of one of them. When the end of    *)
(* the list is left at the other one, it meets nothing that is pushed later.*)
UploadingTogether(t, u) ==
    /\ t # u /\ pc[t] = "free" /\ pc[u] = "free" /\ Take(2)
    /\ \E r \in Ranges : list' = IF detached THEN list ELSE Append(list, r)
    /\ detached' \in {detached, TRUE}
    /\ UNCHANGED <<pc, out, next, from, left, temp, archive, content, cut, uploaded>>

(* The files that are being copied from i. *)
CopiesOf(i) == {out[t] : t \in {u \in Uploaders : pc[u] = "copy" /\ from[u] = i}}

(* UploadedHandler opens the temporary file, which empties it. *)
Uploaded(t) ==
    /\ pc[t] = "free" /\ Take(1)
    /\ IF temp = NoFile
         THEN /\ content' = Append(content, {})
              /\ temp' = Len(content) + 1
              /\ UNCHANGED cut
         ELSE /\ content' = [content EXCEPT ![temp] = {}]
              /\ cut' = cut \cup CopiesOf(temp)
              /\ UNCHANGED temp
    /\ Writes(t, temp')
    /\ next' = [next EXCEPT ![t] = 1]
    /\ Goto(t, "merge")
    /\ UNCHANGED <<list, detached, from, left, archive, uploaded>>

(* MergeFile writes the entries of the list one after the other, those that *)
(* are added in the meantime too, and closes the file.                      *)
MergeFile(t) ==
    /\ pc[t] = "merge"
    /\ IF next[t] <= Len(list)
         THEN /\ content' = [content EXCEPT ![out[t]] = @ \cup {list[next[t]]}]
              /\ next' = [next EXCEPT ![t] = @ + 1]
              /\ UNCHANGED <<pc, out>>
         ELSE /\ Goto(t, "check") /\ Writes(t, NoFile)
              /\ next' = [next EXCEPT ![t] = 1]
              /\ UNCHANGED content
    /\ UNCHANGED <<list, detached, from, left, temp, archive, cut, requests, uploaded>>

(* Mutant: the size of the list is taken for the file to be complete. *)
CheckHash_ListLength(t) ==
    /\ pc[t] = "check"
    /\ Goto(t, IF Len(list) >= Cardinality(Ranges) THEN "archive" ELSE "free")
    /\ UNCHANGED <<list, detached, out, next, from, left, temp, archive, content, cut, requests,
                   uploaded>>

(* The hash is that of the file at the path now: another thread may have    *)
(* moved it, or begun to write it again.                                    *)
CheckHash(t) ==
    /\ pc[t] = "check"
    /\ IF temp = NoFile
         THEN Goto(t, "free") /\ UNCHANGED <<from, left>>
         ELSE Goto(t, "hash") /\ Reads(t, temp, Ranges)
    /\ UNCHANGED <<list, detached, out, next, temp, archive, content, cut, requests, uploaded>>

(* A range is read; the hash is wrong when one was not there.               *)
HashRange(t) ==
    /\ pc[t] = "hash"
    /\ \E r \in left[t] :
         IF r \notin content[from[t]]
           THEN Goto(t, "free") /\ Reads(t, NoFile, {})
         ELSE IF left[t] = {r}
           THEN Goto(t, "archive") /\ Reads(t, NoFile, {})
         ELSE Reads(t, from[t], left[t] \ {r}) /\ UNCHANGED pc
    /\ UNCHANGED <<list, detached, out, next, temp, archive, content, cut, requests, uploaded>>

(* ArchiveFile fails: the file is not at the path any more, the directory   *)
(* of the archive cannot be made, or neither rename nor mv can start.       *)
ArchiveFails(t) ==
    /\ pc[t] = "archive"
    /\ Goto(t, "free")
    /\ UNCHANGED <<list, detached, out, next, from, left, temp, archive, content, cut, requests,
                   uploaded>>

(* ArchiveFile moves what is at the path. *)
ArchiveFile(t) ==
    /\ pc[t] = "archive" /\ temp # NoFile
    /\ archive' = temp /\ temp' = NoFile
    /\ Goto(t, "remove")
    /\ UNCHANGED <<list, detached, out, next, from, left, content, cut, requests, uploaded>>

(* The rename fails, as it does from one file system to another, and mv     *)
(* copies what is at the path to a new file in the archive. A thread that   *)
(* writes the source, or empties it before it is read, disturbs the copy.   *)
ArchiveCopy(t) ==
    /\ pc[t] = "archive" /\ temp # NoFile
    /\ LET new == Len(content) + 1 IN
         /\ content' = Append(content, {})
         /\ archive' = new
         /\ Writes(t, new) /\ Reads(t, temp, Ranges)
         /\ cut' = IF \E u \in Uploaders : pc[u] = "merge" /\ out[u] = temp
                     THEN cut \cup {new} ELSE cut
    /\ Goto(t, "copy")
    /\ UNCHANGED <<list, detached, next, temp, requests, uploaded>>

CopyRange(t) ==
    /\ pc[t] = "copy"
    /\ \E r \in left[t] :
         /\ content' = [content EXCEPT ![out[t]] = @ \cup (content[from[t]] \cap {r})]
         /\ Reads(t, from[t], left[t] \ {r})
    /\ UNCHANGED <<list, detached, pc, out, next, temp, archive, cut, requests, uploaded>>

(* The copy is complete and mv removes what is at the path, or reports that *)
(* there is nothing.                                                        *)
CopyEnds(t) ==
    /\ pc[t] = "copy" /\ left[t] = {}
    /\ temp' = NoFile
    /\ Goto(t, IF temp = NoFile THEN "free" ELSE "remove")
    /\ Writes(t, NoFile) /\ Reads(t, NoFile, {})
    /\ UNCHANGED <<list, detached, next, archive, content, cut, requests, uploaded>>

(* mv cannot go on, as when the disk is full: what it wrote stays. *)
CopyFails(t) ==
    /\ pc[t] = "copy"
    /\ cut' = cut \cup {out[t]}
    /\ Goto(t, "free")
    /\ Writes(t, NoFile) /\ Reads(t, NoFile, {})
    /\ UNCHANGED <<list, detached, next, temp, archive, content, requests, uploaded>>

(* The directory is removed when it is empty, and the client is answered;   *)
(* the token and its list stay.                                             *)
Finish(t) ==
    /\ pc[t] = "remove"
    /\ uploaded' = uploaded + 1
    /\ Goto(t, "free")
    /\ UNCHANGED <<list, detached, out, next, from, left, temp, archive, content, cut, requests>>

UploadStep(t) ==
    \/ Uploading(t) \/ (\E u \in Uploaders : UploadingTogether(t, u))
    \/ Uploaded(t) \/ MergeFile(t) \/ CheckHash(t) \/ HashRange(t)
    \/ ArchiveFails(t) \/ ArchiveFile(t) \/ ArchiveCopy(t)
    \/ CopyRange(t) \/ CopyEnds(t) \/ CopyFails(t) \/ Finish(t)

UploadNext == \E t \in Uploaders : UploadStep(t)

UploadSpec == UploadInit /\ [][UploadNext]_uploadVars

---------------------------------------------------------------------------
(* Some thread is at work on the file: it merges the list into it, or       *)
(* copies to it.                                                            *)
Writing(i) == \E t \in Uploaders : pc[t] \in {"merge", "copy"} /\ out[t] = i

(* A file in the archive is the whole file, unless a thread is still at     *)
(* work on it or it is a copy that was disturbed: when mv has to copy, a    *)
(* second Uploaded request that empties the temporary file leaves a part of *)
(* it in the archive for good (filemanager.cpp:118-125). Once a client was  *)
(* told that its upload succeeded there is a file in the archive.           *)
ArchivedIsWhole ==
    /\ archive # NoFile =>
         Writing(archive) \/ archive \in cut \/ content[archive] = Ranges
    /\ uploaded > 0 => archive # NoFile
=============================================================================

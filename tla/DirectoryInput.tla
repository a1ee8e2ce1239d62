--------------------------- MODULE DirectoryInput ---------------------------
(***************************************************************************)
(* Reading a directory (read_collection_input and dir_input_hash of        *)
(* crates/shanon-core/src/pipeline.rs, the Unix backend of platform.rs)    *)
(* while another process edits it. Every system call is a step: the        *)
(* directory is listed, its members are inspected by path, read through    *)
(* anchored descriptors, and all of it again for the hash of the map.      *)
(*                                                                         *)
(* A file is a sequence of chunks; sizes and limits count chunks. An edit  *)
(* of a file always changes its modification time.                         *)
(***************************************************************************)
EXTENDS Limits, Sequences, FiniteSets, SequencesExt

CONSTANTS Path,        \* paths that may be below the root
          PathRank,    \* [Path -> Nat], the order of paths.sort()
          Json,        \* the paths whose name ends in .json
          Inode,       \* files and links that exist, in or out of the directory
          Link,        \* the inodes that are symbolic links
          MaxEdits     \* bound on the edits of the other process

ASSUME DirectoryAssumption ==
    /\ PathRank \in [Path -> Nat] /\ Json \subseteq Path /\ Link \subseteq Inode
    /\ \A p, q \in Path : p # q => PathRank[p] # PathRank[q]
    /\ MaxEdits \in Nat /\ IsFiniteSet(Json)

VARIABLES dir,      \* [Path -> Inode or None], the directory
          file,     \* [Inode -> size and version of its content, mtime]
          edits,    \* how many edits there were
          quiet,    \* history: no edit since the first listing
          mapping,  \* a mapping file was asked for
          phase,    \* "list", "inspect", "read", of the hash as well, or an end
          hashing,  \* the second time round, for the hash
          paths,    \* what the last listing returned
          at,       \* the path in paths the run is at
          total,    \* the running total of this phase
          reading,  \* the descriptor being read
          members,  \* what was read
          hashed    \* what was hashed

tree == <<dir, file, edits>>
local == <<mapping, hashing, paths, members, hashed>>
dirVars == <<tree, quiet, local, phase, at, total, reading>>

Closed == [inode |-> None]
Chunk(i, n) == <<i, file[i].version, n>>

\* The path names a file: there is no directory to read.
NoDirectory ==
    /\ dir = [p \in Path |-> None]
    /\ file = [i \in Inode |-> [size |-> 0, version |-> 0, mtime |-> 0]]
    /\ mapping = FALSE
    /\ phase = "unused"

Directory ==
    /\ dir \in [Path -> Inode \cup {None}]
    /\ file \in [Inode -> [size : 1..MaxMember, version : {0}, mtime : {0}]]
    /\ mapping \in BOOLEAN
    /\ phase = "list"

DirInit ==
    /\ Directory \/ NoDirectory
    /\ edits = 0 /\ quiet = TRUE /\ hashing = FALSE
    /\ paths = <<>> /\ at = 1 /\ total = 0
    /\ reading = Closed
    /\ members = <<>> /\ hashed = <<>>
----------------------------------------------------------------------------
(* The other process *)

Edit ==
    /\ edits < MaxEdits /\ phase \in {"list", "inspect", "read"}
    /\ edits' = edits + 1
    /\ quiet' = (phase = "list" /\ ~hashing)
    /\ UNCHANGED <<local, phase, at, total, reading>>

\* A file is written in place, growing or shrinking.
WriteFile(i) ==
    /\ Edit /\ i \notin Link
    /\ \E n \in 0..(MaxMember + 1) :
          file' = [file EXCEPT ![i] = [size |-> n, version |-> @.version + 1,
                                       mtime |-> edits + 1]]
    /\ UNCHANGED dir

\* A path is created, removed or renamed over.
Replace(p) ==
    /\ Edit
    /\ \E i \in Inode \cup {None} : i # dir[p] /\ dir' = [dir EXCEPT ![p] = i]
    /\ UNCHANGED file
----------------------------------------------------------------------------
(* safe_directory_members *)

Fail == /\ phase' = "failed"
        /\ UNCHANGED <<tree, quiet, local, at, total, reading>>

There == {p \in Json : dir[p] # None}

Sorted(s) == \A j, k \in DOMAIN s : j < k => PathRank[s[j]] < PathRank[s[k]]

JsonSorted == CHOOSE s \in [1..Cardinality(There) -> There] : Sorted(s)

\* Mutant: without the sort the order is the one of read_dir, which need not
\* be the same twice.
ListedAsFound == IF hashing THEN Reverse(JsonSorted) ELSE JsonSorted

\* collect_json_recursive and paths.sort().
Listed == JsonSorted

\* The bound on the number of members; the caller of the first listing refuses an
\* input without any.
List ==
    /\ phase = "list"
    /\ IF Len(Listed) > MaxMembers \/ (Listed = <<>> /\ ~hashing)
       THEN Fail
       ELSE /\ paths' = Listed
            /\ phase' = "inspect" /\ at' = 1 /\ total' = 0
            /\ UNCHANGED <<tree, quiet, mapping, hashing, reading, members, hashed>>

\* symlink_metadata of one path.
Inspect ==
    /\ phase = "inspect" /\ at <= Len(paths)
    /\ LET i == dir[paths[at]]
       IN  IF i = None \/ i \in Link THEN Fail
           ELSE IF file[i].size > MaxMember \/ total + file[i].size > MaxTotal THEN Fail
           ELSE /\ at' = at + 1
                /\ total' = total + file[i].size
                /\ UNCHANGED <<tree, quiet, local, phase, reading>>

Inspected ==
    /\ phase = "inspect" /\ at > Len(paths)
    /\ phase' = "read" /\ at' = 1 /\ total' = 0
    /\ UNCHANGED <<tree, quiet, local, reading>>
----------------------------------------------------------------------------
(* read_directory_member_anchored *)

\* openat with O_NOFOLLOW, and fstat.
OpenMember ==
    /\ phase = "read" /\ reading = Closed /\ at <= Len(paths)
    /\ LET i == dir[paths[at]]
       IN  IF i = None \/ i \in Link THEN Fail
           ELSE IF file[i].size > MaxMember THEN Fail
           ELSE /\ reading' = [inode |-> i, before |-> file[i], raw |-> <<>>]
                /\ UNCHANGED <<tree, quiet, local, phase, at, total>>

\* read_bounded: one read, which may go one past the limit.
ReadChunk ==
    /\ phase = "read" /\ reading # Closed
    /\ LET i == reading.inode
           n == Len(reading.raw)
       IN  /\ n < file[i].size
           /\ IF n + 1 > MaxMember THEN Fail
              ELSE /\ reading' = [reading EXCEPT !.raw = Append(@, Chunk(i, n + 1))]
                   /\ UNCHANGED <<tree, quiet, local, phase, at, total>>

\* Mutant: only the length is compared.
ChangedLength(before, i) ==
    before.size # file[i].size \/ Len(reading.raw) # file[i].size

\* The descriptor's fstat before and after, and what was read.
Changed(before, i) ==
    \/ before.size # file[i].size \/ before.mtime # file[i].mtime
    \/ Len(reading.raw) # file[i].size

\* Mutant: the hash has no running total of its own.
CloseUnbounded ==
    /\ phase = "read" /\ reading # Closed
    /\ Len(reading.raw) >= file[reading.inode].size
    /\ IF Changed(reading.before, reading.inode) THEN Fail
       ELSE /\ IF hashing
               THEN hashed' = hashed \o reading.raw /\ UNCHANGED members
               ELSE members' = Append(members, reading.raw) /\ UNCHANGED hashed
            /\ reading' = Closed
            /\ at' = at + 1 /\ total' = total + Len(reading.raw)
            /\ UNCHANGED <<tree, quiet, mapping, hashing, paths, phase>>

\* End of file, fstat again. Only the hash has a running total.
CloseMember ==
    /\ phase = "read" /\ reading # Closed
    /\ Len(reading.raw) >= file[reading.inode].size
    /\ LET sum == total + Len(reading.raw)
       IN  IF Changed(reading.before, reading.inode) \/ (hashing /\ sum > MaxTotal)
           THEN Fail
           ELSE /\ IF hashing
                   THEN hashed' = hashed \o reading.raw /\ UNCHANGED members
                   ELSE members' = Append(members, reading.raw) /\ UNCHANGED hashed
                /\ reading' = Closed
                /\ at' = at + 1 /\ total' = sum
                /\ UNCHANGED <<tree, quiet, mapping, hashing, paths, phase>>

\* anonymize_collection lists and reads again when a map is asked for.
EndReading ==
    /\ phase = "read" /\ reading = Closed /\ at > Len(paths)
    /\ IF mapping /\ ~hashing
       THEN hashing' = TRUE /\ phase' = "list"
       ELSE phase' = "done" /\ UNCHANGED hashing
    /\ UNCHANGED <<tree, quiet, mapping, paths, at, total, reading, members, hashed>>

DirNext ==
    \/ \E i \in Inode : WriteFile(i)
    \/ \E p \in Path : Replace(p)
    \/ List \/ Inspect \/ Inspected
    \/ OpenMember \/ ReadChunk \/ CloseMember \/ EndReading

DirSpec == DirInit /\ [][DirNext]_dirVars
----------------------------------------------------------------------------
\* Whatever is edited while it is read, a member is the content one regular
\* file had at one instant, whole and within the limit
\* (read_directory_member_anchored, read_bounded).
MembersCoherent ==
    \A m \in Range(members) :
        /\ Len(m) <= MaxMember
        /\ \E i \in Inode \ Link, v \in 0..MaxEdits : m = [n \in 1..Len(m) |-> <<i, v, n>>]

\* The hash of the map is the hash of what was anonymized when nothing was
\* edited in between (dir_input_hash, over a listing and reads of its own).
HashOfMembers ==
    phase = "done" /\ mapping /\ quiet => hashed = FlattenSeq(members)

\* A quiet directory within the limits is read as a whole, in the order of its
\* paths, and the total of what is hashed never passes the limit, quiet or not.
InputWhole ==
    /\ phase = "done" /\ quiet =>
          members = [k \in DOMAIN Listed |->
                       [n \in 1..file[dir[Listed[k]]].size |-> Chunk(dir[Listed[k]], n)]]
    /\ Len(hashed) <= MaxTotal
=============================================================================

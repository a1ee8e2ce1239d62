---------------------------- MODULE InputProofs ----------------------------
(* Theorems about reading a collection: a directory while another process   *)
(* edits it, for any directory, any limits and any number of edits; and an  *)
(* archive, whatever it declares, whatever it expands to and whoever        *)
(* replaces it.                                                             *)
EXTENDS CollectionInput, Loops, FiniteSetTheorems

Stat3 == [size : Nat, version : Nat, mtime : Nat]

DirTypeOK ==
    /\ dir \in [Path -> Inode \cup {None}]
    /\ file \in [Inode -> Stat3]
    /\ edits \in 0..MaxEdits
    /\ quiet \in BOOLEAN /\ mapping \in BOOLEAN /\ hashing \in BOOLEAN
    /\ phase \in {"unused", "list", "inspect", "read", "done", "failed"}
    /\ paths \in Seq(Path)
    /\ at \in Nat \ {0} /\ total \in Nat
    /\ members \in Seq(Seq(Inode \X Nat \X Nat)) /\ hashed \in Seq(Inode \X Nat \X Nat)

\* Every edit leaves a newer time and a newer version behind.
ClockOK == \A i \in Inode : file[i].mtime <= edits /\ file[i].version <= edits

\* The first n chunks of a file as it is.
Content(i, n) == [k \in 1..n |-> Chunk(i, k)]

Open == [inode : Inode \ (Link \cup {None}), before : Stat3,
         raw : Seq(Inode \X Nat \X Nat)]

\* Until the time of the open file moves, what was read of it is what is there.
ReadingOK ==
    reading # Closed =>
        /\ phase \in {"read", "failed"}
        /\ reading \in Open /\ Len(reading.raw) <= MaxMember
        /\ reading.before.mtime <= file[reading.inode].mtime
        /\ reading.before.mtime = file[reading.inode].mtime =>
              /\ reading.before = file[reading.inode]
              /\ reading.raw = Content(reading.inode, Len(reading.raw))

CoherentIInv == DirTypeOK /\ ClockOK /\ ReadingOK /\ MembersCoherent

\* What is hashed is counted against the limit.
HashBounded ==
    /\ Len(hashed) <= MaxTotal
    /\ ~hashing \/ phase \in {"list", "inspect"} => hashed = <<>>
    /\ hashing /\ phase = "read" => total = Len(hashed)

Expected(k) == Content(dir[Listed[k]], file[dir[Listed[k]]].size)

\* In a directory that is quiet the listing stays what it was, and every member
\* that was read is the file at its path.
QuietOK ==
    quiet =>
        /\ phase \in {"inspect", "read", "done"} \/ (hashing /\ phase = "list") =>
              paths = Listed
        /\ phase = "read" /\ reading # Closed => reading.inode = dir[paths[at]]
        /\ \A k \in DOMAIN members : k <= Len(Listed) => members[k] = Expected(k)

Progress ==
    /\ phase = "read" => at <= Len(paths) + 1
    /\ phase = "read" /\ reading # Closed => at <= Len(paths)
    /\ ~hashing /\ phase \in {"list", "inspect"} => members = <<>>
    /\ ~hashing /\ phase = "read" => Len(members) = at - 1
    /\ quiet /\ (phase = "done" \/ (hashing /\ phase \in {"list", "inspect", "read"})) =>
          Len(members) = Len(Listed)
    /\ hashing => mapping
    /\ phase = "done" /\ mapping => hashing

Prefix(k) == [j \in 1..k |-> members[j]]

HashFollows ==
    quiet /\ hashing =>
        /\ phase = "read" => hashed = FlattenSeq(Prefix(at - 1))
        /\ phase = "done" => hashed = FlattenSeq(members)

DirIInv == CoherentIInv /\ HashBounded /\ QuietOK /\ Progress /\ HashFollows
----------------------------------------------------------------------------
(* The listing *)

\* The paths there are can be sorted: the k-th is the one that k of them do not
\* come after.
LEMMA CanBeSorted ==
    /\ IsFiniteSet(There) /\ Cardinality(There) \in Nat
    /\ \E s \in [1..Cardinality(There) -> There] : Sorted(s)
<1> DEFINE n == Cardinality(There)
           Upto(p) == {q \in There : PathRank[q] <= PathRank[p]}
           f == [p \in There |-> Cardinality(Upto(p))]
           g == [k \in 1..n |-> CHOOSE p \in There : f[p] = k]
<1>1. There \subseteq Path /\ IsFiniteSet(There) /\ n \in Nat
  BY DirectoryAssumption, FS_Subset, FS_CardinalityType DEF There
<1>2. \A p \in There : PathRank[p] \in Nat
  BY <1>1, DirectoryAssumption
<1>3. ASSUME NEW p \in There
      PROVE  IsFiniteSet(Upto(p)) /\ f[p] = Cardinality(Upto(p)) /\ f[p] \in 1..n
  <2>1. Upto(p) \subseteq There /\ p \in Upto(p)
    BY <1>2
  <2>2. IsFiniteSet(Upto(p)) /\ Cardinality(Upto(p)) \in Nat /\ Cardinality(Upto(p)) <= n
    BY <1>1, <2>1, FS_Subset, FS_CardinalityType
  <2>3. Cardinality(Upto(p)) # 0
    BY <2>1, <2>2, FS_EmptySet
  <2>4. f[p] = Cardinality(Upto(p))
    OBVIOUS
  <2>5. Cardinality(Upto(p)) \in 1..n
    <3> DEFINE c == Cardinality(Upto(p))
    <3>1. c \in Nat /\ c <= n /\ c # 0 /\ n \in Nat
      BY <1>1, <2>2, <2>3
    <3> HIDE DEF c, n
    <3> QED BY <3>1 DEF c
  <2> HIDE DEF n, Upto, f
  <2> QED BY <2>2, <2>4, <2>5
<1>4. ASSUME NEW p \in There, NEW q \in There, PathRank[p] < PathRank[q]
      PROVE  f[p] < f[q]
  <2>1. Upto(p) \subseteq Upto(q) /\ q \in Upto(q) /\ q \notin Upto(p)
    BY <1>2, <1>4
  <2>2. Cardinality(Upto(p)) <= Cardinality(Upto(q)) /\ Cardinality(Upto(p)) # Cardinality(Upto(q))
    BY <1>3, <2>1, FS_Subset
  <2> HIDE DEF n, Upto
  <2> QED BY <1>3, <2>2
<1>5. f \in Surjection(There, 1..n)
  <2>1. \A p, q \in There : f[p] = f[q] => p = q
    <3> SUFFICES ASSUME NEW p \in There, NEW q \in There, p # q PROVE f[p] # f[q]
      OBVIOUS
    <3>1. PathRank[p] # PathRank[q]
      BY <1>1, DirectoryAssumption
    <3>2. PathRank[p] < PathRank[q] \/ PathRank[q] < PathRank[p]
      BY <1>2, <3>1
    <3>3. f[p] \in Nat /\ f[q] \in Nat
      BY <1>1, <1>3
    <3>4. f[p] < f[q] \/ f[q] < f[p]
      BY <1>4, <3>2
    <3> HIDE DEF f
    <3> QED BY <3>3, <3>4
  <2>2. f \in [There -> 1..n]
    BY <1>3
  <2>3. f \in Injection(There, 1..n)
    BY <2>1, <2>2 DEF Injection, IsInjective
  <2>4. IsFiniteSet(1..n) /\ Cardinality(1..n) = n
    BY <1>1, FS_Interval
  <2> HIDE DEF f
  <2> QED BY <1>1, <2>3, <2>4, FS_Injection
<1>6. ASSUME NEW k \in 1..n PROVE g[k] \in There /\ f[g[k]] = k
  BY <1>5 DEF Surjection
<1>7. Sorted(g)
  <2> SUFFICES ASSUME NEW j \in 1..n, NEW k \in 1..n, j < k
               PROVE  PathRank[g[j]] < PathRank[g[k]]
    BY DEF Sorted
  <2> HIDE DEF f, g, n
  <2>1. g[j] \in There /\ g[k] \in There /\ f[g[j]] = j /\ f[g[k]] = k
    BY <1>6
  <2>2. j # k /\ ~(k < j)
    BY <1>1
  <2>3. PathRank[g[j]] # PathRank[g[k]]
    BY <1>1, <2>1, <2>2, DirectoryAssumption
  <2> QED BY <1>2, <1>4, <2>1, <2>2, <2>3
<1> QED BY <1>1, <1>6, <1>7

LEMMA ListedFacts ==
    /\ Listed \in Seq(Path)
    /\ DOMAIN Listed = 1..Len(Listed)
    /\ \A k \in DOMAIN Listed : dir[Listed[k]] # None /\ Listed[k] \in Path
<1>1. JsonSorted \in [1..Cardinality(There) -> There] /\ Cardinality(There) \in Nat
  BY CanBeSorted DEF JsonSorted
<1>2. There \subseteq Path /\ \A p \in There : dir[p] # None
  BY DirectoryAssumption DEF There
<1>3. JsonSorted \in Seq(Path)
  BY <1>1, <1>2
<1> QED BY <1>1, <1>2, <1>3 DEF Listed
----------------------------------------------------------------------------
(* The steps *)

NoEdit == UNCHANGED <<dir, file, edits, quiet>>

\* What the steps of a run are, as far as the invariant is concerned: one of them
\* edits, the others leave the tree alone.
LEMMA DirSteps ==
  ASSUME DirNext
  PROVE  \/ \E i \in Inode : WriteFile(i)
         \/ \E p \in Path : Replace(p)
         \/ NoEdit /\ (List \/ Inspect \/ Inspected \/ OpenMember \/ ReadChunk
                        \/ CloseMember \/ EndReading)
BY DEF DirNext, NoEdit, List, Inspect, Inspected, OpenMember, ReadChunk, CloseMember,
       EndReading, Fail, tree

LEMMA SameListing == ASSUME dir' = dir PROVE Listed' = Listed
BY DEF Listed, JsonSorted, There, Sorted

LEMMA TypeStep ==
  ASSUME DirTypeOK, ReadingOK, DirNext
  PROVE  DirTypeOK'
<1>1. ASSUME NEW i \in Inode, WriteFile(i) PROVE DirTypeOK'
  <2>1. edits + 1 \in Nat /\ edits + 1 \in 0..MaxEdits
    BY <1>1, DirectoryAssumption DEF WriteFile, Edit, DirTypeOK
  <2>2. file[i] \in Stat3
    BY DEF DirTypeOK
  <2>3. file[i].version + 1 \in Nat
    BY <2>2 DEF Stat3
  <2>4. PICK n \in 0..(MaxMember + 1) :
          file' = [file EXCEPT ![i] = [size |-> n, version |-> file[i].version + 1,
                                       mtime |-> edits + 1]]
    BY <1>1 DEF WriteFile
  <2>5. [size |-> n, version |-> file[i].version + 1, mtime |-> edits + 1] \in Stat3
    BY <2>1, <2>3, LimitsAssumption DEF Stat3
  <2>6. file' \in [Inode -> Stat3]
    BY <2>4, <2>5 DEF DirTypeOK
  <2>7. dir' = dir /\ edits' = edits + 1 /\ quiet' \in BOOLEAN
        /\ UNCHANGED <<mapping, hashing, paths, members, hashed, phase, at, total>>
    BY <1>1 DEF WriteFile, Edit, local
  <2> QED BY <2>1, <2>6, <2>7 DEF DirTypeOK
<1>2. ASSUME NEW p \in Path, Replace(p) PROVE DirTypeOK'
  <2>1. dir' \in [Path -> Inode \cup {None}] /\ edits + 1 \in 0..MaxEdits
    BY <1>2, DirectoryAssumption DEF Replace, Edit, DirTypeOK
  <2> QED BY <1>2, <2>1 DEF Replace, Edit, DirTypeOK, local
<1>3. ASSUME List PROVE DirTypeOK'
  <2>1. CASE Fail
    BY <2>1 DEF Fail, DirTypeOK, tree, local
  <2>2. CASE ~Fail
    <3>1. paths' = Listed /\ phase' = "inspect" /\ at' = 1 /\ total' = 0
          /\ UNCHANGED <<tree, quiet, mapping, hashing, reading, members, hashed>>
      BY <1>3, <2>2 DEF List
    <3> QED BY <3>1, ListedFacts DEF DirTypeOK, tree
  <2> QED BY <2>1, <2>2
<1>4. ASSUME Inspect PROVE DirTypeOK'
  <2>1. CASE Fail
    BY <1>4, <2>1 DEF Inspect, Fail, DirTypeOK, tree, local
  <2>2. CASE ~Fail
    <3> DEFINE i == dir[paths[at]]
    <3>1. i \in Inode /\ at' = at + 1 /\ total' = total + file[i].size
          /\ UNCHANGED <<tree, quiet, local, phase, reading>>
      BY <1>4, <2>2 DEF Inspect, DirTypeOK
    <3>2. total + file[i].size \in Nat
      <4>1. file[i] \in Stat3 /\ total \in Nat
        BY <3>1 DEF DirTypeOK
      <4> QED BY <4>1 DEF Stat3
    <3> HIDE DEF i
    <3> QED BY <3>1, <3>2 DEF DirTypeOK, tree, local
  <2> QED BY <2>1, <2>2
<1>5. ASSUME Inspected PROVE DirTypeOK'
  BY <1>5 DEF Inspected, DirTypeOK, tree, local
<1>6. ASSUME OpenMember PROVE DirTypeOK'
  BY <1>6 DEF OpenMember, Fail, DirTypeOK, tree, local
<1>7. ASSUME ReadChunk PROVE DirTypeOK'
  BY <1>7 DEF ReadChunk, Fail, DirTypeOK, tree, local
<1>8. ASSUME CloseMember PROVE DirTypeOK'
  <2>1. reading.raw \in Seq(Inode \X Nat \X Nat) /\ Len(reading.raw) \in Nat
    BY <1>8 DEF CloseMember, ReadingOK, Open
  <2>2. total + Len(reading.raw) \in Nat
    BY <2>1 DEF DirTypeOK
  <2>3. hashed \o reading.raw \in Seq(Inode \X Nat \X Nat)
    BY <2>1 DEF DirTypeOK
  <2>4. Append(members, reading.raw) \in Seq(Seq(Inode \X Nat \X Nat))
    BY <2>1 DEF DirTypeOK
  <2>5. CASE Fail
    BY <2>5 DEF Fail, DirTypeOK, tree, local
  <2>6. CASE ~Fail
    <3>1. at' = at + 1 /\ total' = total + Len(reading.raw)
          /\ hashed' \in {hashed, hashed \o reading.raw}
          /\ members' \in {members, Append(members, reading.raw)}
          /\ UNCHANGED <<tree, quiet, mapping, hashing, paths, phase>>
      BY <1>8, <2>6 DEF CloseMember
    <3>2. /\ at' \in Nat \ {0} /\ total' \in Nat
          /\ hashed' \in Seq(Inode \X Nat \X Nat)
          /\ members' \in Seq(Seq(Inode \X Nat \X Nat))
      <4>1. at \in Nat \ {0} /\ hashed \in Seq(Inode \X Nat \X Nat)
            /\ members \in Seq(Seq(Inode \X Nat \X Nat))
        BY DEF DirTypeOK
      <4>2. at + 1 \in Nat \ {0}
        BY <4>1
      <4> QED BY <3>1, <2>2, <2>3, <2>4, <4>1, <4>2
    <3> QED BY <3>1, <3>2 DEF DirTypeOK, tree
  <2> QED BY <2>5, <2>6
<1>9. ASSUME EndReading PROVE DirTypeOK'
  BY <1>9 DEF EndReading, DirTypeOK, tree, local
<1> QED BY <1>1, <1>2, <1>3, <1>4, <1>5, <1>6, <1>7, <1>8, <1>9 DEF DirNext

LEMMA ClockStep ==
  ASSUME DirTypeOK, ClockOK, DirNext
  PROVE  ClockOK'
<1>1. ASSUME NEW i \in Inode, WriteFile(i) PROVE ClockOK'
  <2>1. PICK n \in 0..(MaxMember + 1) :
          file' = [file EXCEPT ![i] = [size |-> n, version |-> file[i].version + 1,
                                       mtime |-> edits + 1]]
    BY <1>1 DEF WriteFile
  <2>2. edits' = edits + 1 /\ edits \in Nat
    BY <1>1, DirectoryAssumption DEF WriteFile, Edit, DirTypeOK
  <2> SUFFICES ASSUME NEW j \in Inode PROVE file'[j].mtime <= edits' /\ file'[j].version <= edits'
    BY DEF ClockOK
  <2>3. file[j] \in Stat3 /\ file[j].mtime <= edits /\ file[j].version <= edits
    BY DEF DirTypeOK, ClockOK
  <2>4. file[j].mtime \in Nat /\ file[j].version \in Nat
    BY <2>3 DEF Stat3
  <2>5. CASE j = i
    BY <2>1, <2>2, <2>3, <2>4, <2>5 DEF DirTypeOK
  <2>6. CASE j # i
    BY <2>1, <2>2, <2>3, <2>4, <2>6 DEF DirTypeOK
  <2> QED BY <2>5, <2>6
<1>2. ASSUME NEW p \in Path, Replace(p) PROVE ClockOK'
  <2>1. file' = file /\ edits' = edits + 1 /\ edits \in Nat
    BY <1>2, DirectoryAssumption DEF Replace, Edit, DirTypeOK
  <2> SUFFICES ASSUME NEW j \in Inode PROVE file[j].mtime <= edits + 1 /\ file[j].version <= edits + 1
    BY <2>1 DEF ClockOK
  <2>2. file[j] \in Stat3 /\ file[j].mtime <= edits /\ file[j].version <= edits
    BY DEF DirTypeOK, ClockOK
  <2>3. file[j].mtime \in Nat /\ file[j].version \in Nat
    BY <2>2 DEF Stat3
  <2> QED BY <2>1, <2>2, <2>3
<1>3. ASSUME NoEdit PROVE ClockOK'
  BY <1>3 DEF NoEdit, ClockOK
<1> QED BY <1>1, <1>2, <1>3, DirSteps

\* What was read of a file that its time says is unchanged is what is there: any
\* write moves the time past what it was at the opening.
LEMMA ReadingStep ==
  ASSUME DirTypeOK, ClockOK, ReadingOK, DirNext
  PROVE  ReadingOK'
<1>1. ASSUME NEW i \in Inode, WriteFile(i) PROVE ReadingOK'
  <2>1. PICK n \in 0..(MaxMember + 1) :
          file' = [file EXCEPT ![i] = [size |-> n, version |-> file[i].version + 1,
                                       mtime |-> edits + 1]]
    BY <1>1 DEF WriteFile
  <2>2. reading' = reading /\ phase' = phase /\ edits \in Nat
    BY <1>1, DirectoryAssumption DEF WriteFile, Edit, DirTypeOK
  <2>3. CASE reading = Closed
    BY <2>2, <2>3 DEF ReadingOK, Closed
  <2>4. CASE reading # Closed
    <3> DEFINE j == reading.inode
    <3>1. /\ phase \in {"read", "failed"}
          /\ reading \in Open /\ j \in Inode \ (Link \cup {None})
          /\ reading.before \in Stat3 /\ Len(reading.raw) <= MaxMember
          /\ reading.before.mtime <= file[j].mtime
          /\ reading.before.mtime = file[j].mtime =>
                /\ reading.before = file[j]
                /\ reading.raw = Content(j, Len(reading.raw))
      BY <2>4 DEF ReadingOK, Open
    <3>2. j \in Inode /\ file[j].mtime <= edits /\ file[j] \in Stat3
      BY <3>1 DEF DirTypeOK, ClockOK
    <3>3. file[j].mtime \in Nat /\ reading.before.mtime \in Nat
      BY <3>1, <3>2 DEF Stat3
    <3>4. CASE j = i
      <4>1. file'[j].mtime = edits + 1
        BY <2>1, <3>2, <3>4 DEF DirTypeOK
      <4>2. reading.before.mtime < file'[j].mtime
        BY <2>2, <3>1, <3>2, <3>3, <4>1
      <4>3. reading.before.mtime <= file'[j].mtime /\ reading.before.mtime # file'[j].mtime
        <5> DEFINE m == file'[j].mtime
        <5>1. m \in Nat
          BY <2>2, <4>1
        <5> HIDE DEF m
        <5> QED BY <3>3, <4>2, <5>1 DEF m
      <4> QED BY <2>2, <3>1, <4>3 DEF ReadingOK
    <3>5. CASE j # i
      <4>1. file'[j] = file[j]
        BY <2>1, <3>2, <3>5 DEF DirTypeOK
      <4>2. \A n0 : Content(j, n0)' = Content(j, n0)
        BY <2>2, <4>1 DEF Content, Chunk
      <4> QED BY <2>2, <3>1, <4>1, <4>2 DEF ReadingOK, Content, Chunk
    <3> QED BY <3>4, <3>5
  <2> QED BY <2>3, <2>4
<1>2. ASSUME UNCHANGED <<file, reading>>, phase \notin {"read", "failed"} \/ phase' = phase
             \/ phase' = "failed"
      PROVE  ReadingOK'
  BY <1>2 DEF ReadingOK, Closed, Content, Chunk
<1>3. ASSUME NEW p \in Path, Replace(p) PROVE ReadingOK'
  BY <1>2, <1>3 DEF Replace, Edit
<1>4. ASSUME Fail PROVE ReadingOK'
  BY <1>2, <1>4 DEF Fail, tree
<1>5. ASSUME List PROVE ReadingOK'
  BY <1>2, <1>4, <1>5 DEF List, tree
<1>6. ASSUME Inspect PROVE ReadingOK'
  BY <1>2, <1>4, <1>6 DEF Inspect, tree
<1>7. ASSUME Inspected PROVE ReadingOK'
  BY <1>2, <1>7 DEF Inspected, tree
<1>8. ASSUME OpenMember PROVE ReadingOK'
  <2>1. CASE Fail
    BY <1>4, <2>1
  <2>2. CASE ~Fail
    <3> DEFINE i == dir[paths[at]]
    <3>1. i # None /\ i \notin Link /\ phase' = "read" /\ file' = file
          /\ reading' = [inode |-> i, before |-> file[i], raw |-> <<>>]
      BY <1>8, <2>2 DEF OpenMember, tree
    <3>2. i \in Inode
      <4>1. at \in DOMAIN paths /\ paths[at] \in Path
        BY <1>8 DEF OpenMember, DirTypeOK
      <4> QED BY <3>1, <4>1 DEF DirTypeOK
    <3>3. file[i] \in Stat3 /\ file[i].mtime \in Nat
      BY <3>2 DEF DirTypeOK, Stat3
    <3>4. /\ reading' \in Open
          /\ reading'.inode = i /\ reading'.before = file[i] /\ reading'.raw = <<>>
      BY <3>1, <3>2, <3>3 DEF Open
    <3>5. Len(reading'.raw) = 0 /\ 0 <= MaxMember
      BY <3>4, LimitsAssumption
    <3>6. reading'.raw = [k \in 1..Len(reading'.raw) |->
                             <<reading'.inode, file'[reading'.inode].version, k>>]
      BY <3>4, <3>5
    <3> HIDE DEF i
    <3> QED BY <3>1, <3>2, <3>3, <3>4, <3>5, <3>6 DEF ReadingOK, Content, Chunk
  <2> QED BY <2>1, <2>2
<1>9. ASSUME ReadChunk PROVE ReadingOK'
  <2>1. CASE Fail
    BY <1>4, <2>1
  <2>2. CASE ~Fail
    <3> DEFINE i == reading.inode
               n == Len(reading.raw)
               c == Chunk(i, n + 1)
    <3>1. /\ reading # Closed /\ phase = "read" /\ n < file[i].size /\ ~(n + 1 > MaxMember)
          /\ reading' = [reading EXCEPT !.raw = Append(reading.raw, c)]
          /\ phase' = phase /\ file' = file
      BY <1>9, <2>2 DEF ReadChunk, tree
    <3>2. /\ reading \in Open /\ i \in Inode /\ n \in Nat
          /\ reading.before.mtime <= file[i].mtime
          /\ reading.before.mtime = file[i].mtime =>
                reading.before = file[i] /\ reading.raw = Content(i, n)
      BY <3>1 DEF ReadingOK, Open
    <3>3. file[i].version \in Nat
      BY <3>2 DEF DirTypeOK, Stat3
    <3>4. c \in Inode \X Nat \X Nat /\ c = Chunk(i, n + 1)
      BY <3>2, <3>3 DEF Chunk
    <3>5. reading.raw \in Seq(Inode \X Nat \X Nat)
      BY <3>2 DEF Open
    <3> HIDE DEF c
    <3>6. /\ Append(reading.raw, c) \in Seq(Inode \X Nat \X Nat)
          /\ Len(Append(reading.raw, c)) = n + 1
      BY <3>4, <3>5
    <3>7. /\ reading' \in Open /\ reading'.inode = i /\ reading'.before = reading.before
          /\ reading'.raw = Append(reading.raw, c)
      BY <3>1, <3>2, <3>6 DEF Open
    <3>8. reading.raw = Content(i, n) => Append(reading.raw, c) = Content(i, n + 1)
      <4>1. ASSUME reading.raw = Content(i, n)
            PROVE  Append(reading.raw, c) = [k \in 1..(n + 1) |-> Chunk(i, k)]
        <5>1. \A k \in 1..n : reading.raw[k] = Chunk(i, k)
          BY <4>1 DEF Content
        <5> HIDE DEF i
        <5> QED BY <3>2, <3>4, <3>5, <5>1
      <4> QED BY <4>1 DEF Content
    <3>9. reading.raw = Content(i, n) =>
             reading'.raw = [k \in 1..Len(reading'.raw) |->
                                <<reading'.inode, file'[reading'.inode].version, k>>]
      BY <3>1, <3>6, <3>7, <3>8 DEF Content, Chunk
    <3>10. Len(reading'.raw) <= MaxMember
      BY <3>1, <3>2, <3>6, <3>7, LimitsAssumption
    <3> HIDE DEF c, i, n
    <3> QED BY <3>1, <3>2, <3>7, <3>9, <3>10 DEF ReadingOK, Content, Chunk
  <2> QED BY <2>1, <2>2
<1>10. ASSUME CloseMember PROVE ReadingOK'
  <2>1. CASE Fail
    BY <1>4, <2>1
  <2>2. CASE ~Fail
    <3>1. reading' = Closed
      BY <1>10, <2>2 DEF CloseMember
    <3> QED BY <3>1 DEF ReadingOK, Closed
  <2> QED BY <2>1, <2>2
<1>11. ASSUME EndReading PROVE ReadingOK'
  BY <1>11 DEF EndReading, ReadingOK, Closed
<1> QED BY <1>1, <1>3, <1>5, <1>6, <1>7, <1>8, <1>9, <1>10, <1>11 DEF DirNext

\* What passes for unchanged at the second fstat was read whole.
LEMMA ClosedWhole ==
  ASSUME DirTypeOK, ReadingOK, CloseMember, ~Fail
  PROVE  /\ reading \in Open /\ reading.before = file[reading.inode]
         /\ reading.raw = Content(reading.inode, file[reading.inode].size)
         /\ Len(reading.raw) = file[reading.inode].size /\ Len(reading.raw) <= MaxMember
<1>1. reading # Closed /\ ~Changed(reading.before, reading.inode)
  BY DEF CloseMember
<1>2. /\ reading.before.mtime = file[reading.inode].mtime
      /\ Len(reading.raw) = file[reading.inode].size
  BY <1>1 DEF Changed
<1> QED BY <1>1, <1>2 DEF ReadingOK

LEMMA MembersStep ==
  ASSUME CoherentIInv, DirNext
  PROVE  MembersCoherent'
<1> USE DEF CoherentIInv
<1>1. ASSUME UNCHANGED members PROVE MembersCoherent'
  BY <1>1 DEF MembersCoherent
<1>2. CASE CloseMember
  <2>1. CASE Fail
    BY <1>1, <2>1 DEF Fail, local
  <2>2. CASE ~Fail
    <3> DEFINE i == reading.inode
               m == reading.raw
    <3>1. CASE hashing
      BY <1>1, <1>2, <2>2, <3>1 DEF CloseMember
    <3>2. CASE ~hashing
      <4>1. members' = Append(members, m)
        BY <1>2, <2>2, <3>2 DEF CloseMember
      <4>2. /\ i \in Inode \ Link /\ Len(m) <= MaxMember
            /\ m = Content(i, Len(m))
        BY <1>2, <2>2, ClosedWhole DEF Open
      <4>3. file[i].version \in 0..MaxEdits
        <5>1. file[i] \in Stat3 /\ file[i].version <= edits /\ edits \in 0..MaxEdits
          BY <4>2 DEF DirTypeOK, ClockOK
        <5>2. file[i].version \in Nat
          BY <5>1 DEF Stat3
        <5> QED BY <5>1, <5>2, DirectoryAssumption
      <4>4. m = [n \in 1..Len(m) |-> <<i, file[i].version, n>>]
        BY <4>2 DEF Content, Chunk
      <4> HIDE DEF m, i
      <4>5. ASSUME NEW x \in Range(members'), x \notin Range(members) PROVE x = m
        <5>1. members \in Seq(Seq(Inode \X Nat \X Nat))
          BY DEF DirTypeOK
        <5>2. PICK k \in DOMAIN members' : x = members'[k]
          BY <4>5 DEF Range
        <5>3. k \in 1..(Len(members) + 1)
          BY <4>1, <5>1, <5>2
        <5>4. k \in DOMAIN members => x = members[k]
          BY <4>1, <5>1, <5>2
        <5>5. k \notin DOMAIN members
          BY <4>5, <5>4 DEF Range
        <5>6. k = Len(members) + 1
          BY <5>1, <5>3, <5>5
        <5> QED BY <4>1, <5>1, <5>2, <5>6
      <4> SUFFICES ASSUME NEW x \in Range(members')
                   PROVE  /\ Len(x) <= MaxMember
                          /\ \E j \in Inode \ Link, v \in 0..MaxEdits :
                                x = [n \in 1..Len(x) |-> <<j, v, n>>]
        BY DEF MembersCoherent, Range
      <4>6. CASE x \in Range(members)
        BY <4>6 DEF MembersCoherent
      <4>7. CASE x \notin Range(members)
        BY <4>2, <4>3, <4>4, <4>5, <4>7
      <4> QED BY <4>6, <4>7
    <3> QED BY <3>1, <3>2
  <2> QED BY <2>1, <2>2
<1>3. CASE ~CloseMember
  <2>1. UNCHANGED members
    BY <1>3 DEF DirNext, WriteFile, Replace, Edit, List, Inspect, Inspected, OpenMember,
                ReadChunk, EndReading, Fail, local
  <2> QED BY <1>1, <2>1
<1> QED BY <1>2, <1>3

LEMMA CoherentIndInv ==
  /\ InputInit => CoherentIInv
  /\ CoherentIInv /\ [InputNext]_inputVars => CoherentIInv'
<1>1. ASSUME DirInit PROVE CoherentIInv
  <2>1. file \in [Inode -> Stat3] /\ \A i \in Inode : file[i].mtime = 0 /\ file[i].version = 0
    <3>1. 1..MaxMember \subseteq Nat
      OBVIOUS
    <3>2. CASE Directory
      <4>1. [size : 1..MaxMember, version : {0}, mtime : {0}] \subseteq Stat3
        BY <3>1 DEF Stat3
      <4>2. file \in [Inode -> [size : 1..MaxMember, version : {0}, mtime : {0}]]
        BY <3>2 DEF Directory
      <4>3. file \in [Inode -> Stat3]
        BY <4>1, <4>2
      <4> QED BY <4>2, <4>3
    <3>3. CASE NoDirectory
      BY <3>3 DEF NoDirectory, Stat3
    <3> QED BY <1>1, <3>2, <3>3 DEF DirInit
  <2>2. /\ dir \in [Path -> Inode \cup {None}] /\ edits = 0 /\ quiet = TRUE /\ hashing = FALSE
        /\ mapping \in BOOLEAN /\ phase \in {"unused", "list"}
        /\ paths = <<>> /\ at = 1 /\ total = 0 /\ reading = Closed
        /\ members = <<>> /\ hashed = <<>>
    BY <1>1 DEF DirInit, Directory, NoDirectory
  <2>3. DirTypeOK
    <3>1. edits \in 0..MaxEdits /\ at \in Nat \ {0} /\ total \in Nat
      BY <2>2, DirectoryAssumption
    <3>2. /\ paths \in Seq(Path) /\ members \in Seq(Seq(Inode \X Nat \X Nat))
          /\ hashed \in Seq(Inode \X Nat \X Nat)
      BY <2>2
    <3> QED BY <2>1, <2>2, <3>1, <3>2 DEF DirTypeOK
  <2>4. ClockOK
    BY <2>1, <2>2 DEF ClockOK
  <2>5. ReadingOK
    BY <2>2 DEF ReadingOK
  <2>6. MembersCoherent
    BY <2>2 DEF MembersCoherent, Range
  <2> QED BY <2>3, <2>4, <2>5, <2>6 DEF CoherentIInv
<1>2. ASSUME CoherentIInv, DirNext PROVE CoherentIInv'
  BY <1>2, TypeStep, ClockStep, ReadingStep, MembersStep DEF CoherentIInv
<1>3. ASSUME CoherentIInv, UNCHANGED dirVars PROVE CoherentIInv'
  BY <1>3 DEF CoherentIInv, DirTypeOK, ClockOK, ReadingOK, MembersCoherent, Content, Chunk,
              Closed, dirVars, tree, local
<1> QED BY <1>1, <1>2, <1>3 DEF InputInit, InputNext, inputVars

\* What a run reads of a directory, of any size and at any number of edits by
\* another process, is for each member one content of one regular file, whole
\* (MembersCoherent; read_directory_member_anchored).
THEOREM ReadsCoherent == InputSpec => []MembersCoherent
<1>1. CoherentIInv => MembersCoherent
  BY DEF CoherentIInv
<1> QED BY <1>1, CoherentIndInv, PTL DEF InputSpec
----------------------------------------------------------------------------
(* The counts *)

LEMMA Edited ==
  ASSUME (\E i \in Inode : WriteFile(i)) \/ (\E p \in Path : Replace(p))
  PROVE  /\ UNCHANGED <<local, phase, at, total, reading>>
         /\ quiet' => phase = "list" /\ ~hashing
BY DEF WriteFile, Replace, Edit

LEMMA Closing ==
  ASSUME CloseMember, ~Fail
  PROVE  /\ phase = "read" /\ reading # Closed /\ reading' = Closed /\ at' = at + 1
         /\ UNCHANGED <<dir, file, edits, quiet, mapping, hashing, paths, phase>>
         /\ total' = total + Len(reading.raw)
         /\ hashing => /\ hashed' = hashed \o reading.raw /\ UNCHANGED members
                       /\ ~(total + Len(reading.raw) > MaxTotal)
         /\ ~hashing => members' = Append(members, reading.raw) /\ UNCHANGED hashed
BY DEF CloseMember, tree

LEMMA HashStep ==
  ASSUME CoherentIInv, HashBounded, DirNext
  PROVE  HashBounded'
<1>1. CASE (\E i \in Inode : WriteFile(i)) \/ (\E p \in Path : Replace(p))
  BY <1>1, Edited DEF HashBounded, local
<1>2. CASE Fail
  BY <1>2 DEF Fail, HashBounded, local
<1>3. CASE List /\ ~Fail
  BY <1>3 DEF List, HashBounded
<1>4. CASE Inspect /\ ~Fail
  BY <1>4 DEF Inspect, HashBounded, local
<1>5. CASE Inspected
  BY <1>5 DEF Inspected, HashBounded, local
<1>6. CASE OpenMember /\ ~Fail
  BY <1>6 DEF OpenMember, HashBounded, local
<1>7. CASE ReadChunk /\ ~Fail
  BY <1>7 DEF ReadChunk, HashBounded, local
<1>8. CASE CloseMember /\ ~Fail
  <2>1. /\ reading.raw \in Seq(Inode \X Nat \X Nat) /\ hashed \in Seq(Inode \X Nat \X Nat)
        /\ total \in Nat
    BY <1>8, ClosedWhole DEF CoherentIInv, DirTypeOK, Open
  <2>2. CASE hashing
    <3>1. Len(hashed') = Len(hashed) + Len(reading.raw)
      BY <1>8, <2>1, <2>2, Closing
    <3>2. total = Len(hashed)
      BY <1>8, <2>2, Closing DEF HashBounded
    <3>3. total' = Len(hashed') /\ total' <= MaxTotal
      <4>1. Len(reading.raw) \in Nat
        BY <2>1
      <4> QED BY <1>8, <2>1, <2>2, <3>1, <3>2, <4>1, Closing, LimitsAssumption
    <3> QED BY <1>8, <2>2, <3>3, Closing DEF HashBounded
  <2>3. CASE ~hashing
    BY <1>8, <2>3, Closing DEF HashBounded
  <2> QED BY <2>2, <2>3
<1>9. CASE EndReading
  BY <1>9 DEF EndReading, HashBounded
<1> QED BY <1>1, <1>2, <1>3, <1>4, <1>5, <1>6, <1>7, <1>8, <1>9 DEF DirNext

LEMMA ProgressStep ==
  ASSUME CoherentIInv, QuietOK, Progress, DirNext
  PROVE  Progress'
<1> USE SameListing
<1>0. /\ at \in Nat /\ Len(paths) \in Nat /\ Len(Listed) \in Nat
      /\ members \in Seq(Seq(Inode \X Nat \X Nat))
  BY ListedFacts DEF CoherentIInv, DirTypeOK
<1>1. CASE (\E i \in Inode : WriteFile(i)) \/ (\E p \in Path : Replace(p))
  BY <1>1, Edited DEF Progress, local
<1>2. CASE Fail
  BY <1>2 DEF Fail, Progress, local, tree
<1>3. CASE List /\ ~Fail
  BY <1>3 DEF List, Progress, tree
<1>4. CASE Inspect /\ ~Fail
  BY <1>4 DEF Inspect, Progress, local, tree
<1>5. CASE Inspected
  <2>1. 1 <= Len(paths) + 1 /\ 1 - 1 = 0 /\ Len(<<>>) = 0
    BY <1>0
  <2>2. reading = Closed
    BY <1>5 DEF Inspected, CoherentIInv, ReadingOK
  <2> QED BY <1>5, <2>1, <2>2 DEF Inspected, Progress, local, tree
<1>6. CASE OpenMember /\ ~Fail
  BY <1>6 DEF OpenMember, Progress, local, tree
<1>7. CASE ReadChunk /\ ~Fail
  BY <1>7 DEF ReadChunk, Progress, local, tree
<1>8. CASE CloseMember /\ ~Fail
  <2>1. at + 1 <= Len(paths) + 1
    BY <1>0, <1>8, Closing DEF Progress
  <2>2. ~hashing => Len(members') = (at + 1) - 1
    <3>1. ~hashing => Len(members) = at - 1
      BY <1>8, Closing DEF Progress
    <3> QED BY <1>0, <1>8, <3>1, Closing
  <2> QED BY <1>8, <2>1, <2>2, Closing DEF Progress
<1>9. CASE EndReading
  <2>1. at <= Len(paths) + 1 /\ at > Len(paths) /\ phase = "read"
    BY <1>9 DEF EndReading, Progress
  <2>2. at - 1 = Len(paths)
    BY <1>0, <2>1
  <2>3. quiet => Len(members) = Len(Listed)
    BY <2>1, <2>2 DEF Progress, QuietOK
  <2> QED BY <1>9, <2>3 DEF EndReading, Progress, tree
<1> QED BY <1>1, <1>2, <1>3, <1>4, <1>5, <1>6, <1>7, <1>8, <1>9 DEF DirNext

LEMMA QuietStep ==
  ASSUME CoherentIInv, QuietOK, Progress, DirNext
  PROVE  QuietOK'
<1> USE SameListing
<1>0. /\ at \in Nat \ {0} /\ Len(paths) \in Nat /\ Len(Listed) \in Nat
      /\ members \in Seq(Seq(Inode \X Nat \X Nat)) /\ paths \in Seq(Path)
  BY ListedFacts DEF CoherentIInv, DirTypeOK
<1>1. CASE (\E i \in Inode : WriteFile(i)) \/ (\E p \in Path : Replace(p))
  <2>1. quiet' => members = <<>> /\ phase = "list" /\ ~hashing
    BY <1>1, Edited DEF Progress
  <2> QED BY <1>1, <2>1, Edited DEF QuietOK, local
<1>2. ASSUME dir' = dir, file' = file, members' = members
      PROVE  \A k \in DOMAIN members : k <= Len(Listed) =>
                Expected(k)' = Expected(k)
  BY <1>2 DEF Expected, Content, Chunk
<1>3. ASSUME UNCHANGED <<dir, file, quiet, members, reading, hashing, paths, at>>,
             phase' = phase \/ phase' = "failed" \/ (phase = "inspect" /\ phase' = "read")
      PROVE  QuietOK'
  <2>1. phase = "inspect" => reading = Closed
    BY DEF CoherentIInv, ReadingOK
  <2> QED BY <1>3, <1>2, <2>1 DEF QuietOK, Closed
<1>4. CASE Fail
  BY <1>3, <1>4 DEF Fail, tree, local
<1>5. CASE List /\ ~Fail
  <2>1. /\ paths' = Listed /\ phase' = "inspect"
        /\ UNCHANGED <<dir, file, quiet, hashing, reading, members>>
    BY <1>5 DEF List, tree
  <2> QED BY <1>2, <2>1 DEF QuietOK
<1>6. CASE Inspect /\ ~Fail
  <2>1. UNCHANGED <<dir, file, quiet, members, hashing, paths, reading, phase>> /\ phase = "inspect"
    BY <1>6 DEF Inspect, tree, local
  <2> QED BY <1>2, <2>1 DEF QuietOK
<1>7. CASE Inspected
  <2>1. /\ UNCHANGED <<dir, file, quiet, members, hashing, paths, reading>>
        /\ phase = "inspect" /\ phase' = "read"
    BY <1>7 DEF Inspected, tree, local
  <2>2. reading = Closed
    BY <2>1 DEF CoherentIInv, ReadingOK
  <2> QED BY <1>2, <2>1, <2>2 DEF QuietOK, Closed
<1>8. CASE OpenMember /\ ~Fail
  <2>1. /\ UNCHANGED <<dir, file, quiet, members, hashing, paths, at, phase>>
        /\ reading'.inode = dir[paths[at]]
    BY <1>8 DEF OpenMember, tree, local
  <2> QED BY <1>2, <2>1 DEF QuietOK
<1>9. CASE ReadChunk /\ ~Fail
  <2>1. /\ UNCHANGED <<dir, file, quiet, members, hashing, paths, at, phase>>
        /\ reading # Closed /\ reading \in Open
        /\ \E c : reading' = [reading EXCEPT !.raw = Append(@, c)]
    BY <1>9 DEF ReadChunk, tree, local, CoherentIInv, ReadingOK
  <2>2. reading'.inode = reading.inode
    BY <2>1 DEF Open
  <2> QED BY <1>2, <2>1, <2>2 DEF QuietOK
<1>10. CASE CloseMember /\ ~Fail
  <2>1. CASE hashing
    BY <1>2, <1>10, <2>1, Closing DEF QuietOK
  <2>2. CASE ~hashing
    <3>1. /\ members' = Append(members, reading.raw) /\ phase = "read" /\ reading # Closed
          /\ reading' = Closed
          /\ UNCHANGED <<dir, file, quiet, hashing, paths, phase>>
      BY <1>10, <2>2, Closing
    <3>2. Len(members) = at - 1 /\ at <= Len(paths)
      BY <2>2, <3>1 DEF Progress
    <3>3. quiet => reading.raw = Expected(at)
      <4>1. quiet => reading.inode = dir[Listed[at]]
        BY <3>1 DEF QuietOK
      <4> QED BY <1>10, <4>1, ClosedWhole DEF Expected, CoherentIInv
    <3>4. ASSUME quiet, NEW k \in DOMAIN members', k <= Len(Listed)
          PROVE  members'[k] = Expected(k)
      <4>1. k \in 1..at
        BY <1>0, <3>1, <3>2
      <4>2. CASE k = at
        BY <1>0, <3>1, <3>2, <3>3, <3>4, <4>2
      <4>3. CASE k # at
        <5>1. k \in DOMAIN members /\ members'[k] = members[k]
          BY <1>0, <3>1, <3>2, <4>1, <4>3
        <5> QED BY <3>4, <5>1 DEF QuietOK
      <4> QED BY <4>2, <4>3
    <3>5. \A k : Expected(k)' = Expected(k)
      BY <3>1 DEF Expected, Content, Chunk
    <3> QED BY <3>1, <3>4, <3>5 DEF QuietOK
  <2> QED BY <2>1, <2>2
<1>11. CASE EndReading
  <2>1. /\ UNCHANGED <<dir, file, quiet, members, paths, reading>> /\ phase = "read"
        /\ (hashing' /\ phase' = "list") \/ phase' = "done"
    BY <1>11 DEF EndReading, tree
  <2> QED BY <1>2, <2>1 DEF QuietOK
<1> QED BY <1>1, <1>4, <1>5, <1>6, <1>7, <1>8, <1>9, <1>10, <1>11 DEF DirNext
----------------------------------------------------------------------------
(* The hash *)

LEMMA FollowsStep ==
  ASSUME CoherentIInv, HashBounded, QuietOK, Progress, HashFollows, DirNext
  PROVE  HashFollows'
<1>0. /\ at \in Nat \ {0} /\ Len(paths) \in Nat
      /\ members \in Seq(Seq(Inode \X Nat \X Nat))
  BY DEF CoherentIInv, DirTypeOK
<1>1. CASE (\E i \in Inode : WriteFile(i)) \/ (\E p \in Path : Replace(p))
  BY <1>1, Edited DEF HashFollows, local
<1>2. ASSUME UNCHANGED <<quiet, hashing, hashed, members, at>>,
             phase' = phase \/ phase' \notin {"read", "done"}
      PROVE  HashFollows'
  BY <1>2 DEF HashFollows, Prefix
<1>3. CASE Fail
  BY <1>2, <1>3 DEF Fail, local
<1>4. CASE List /\ ~Fail
  BY <1>4 DEF List, HashFollows
<1>5. CASE Inspect /\ ~Fail
  BY <1>5 DEF Inspect, HashFollows, local
<1>6. CASE Inspected
  <2>1. phase' = "read" /\ at' = 1 /\ phase = "inspect"
        /\ UNCHANGED <<quiet, hashing, hashed, members>>
    BY <1>6 DEF Inspected, local
  <2>2. hashed = <<>>
    BY <2>1 DEF HashBounded
  <2>3. [j \in 1..(1 - 1) |-> members[j]] = <<>>
    OBVIOUS
  <2> QED BY <2>1, <2>2, <2>3, FlattenEmpty DEF HashFollows, Prefix
<1>7. CASE OpenMember /\ ~Fail
  BY <1>2, <1>7 DEF OpenMember, local
<1>8. CASE ReadChunk /\ ~Fail
  BY <1>2, <1>8 DEF ReadChunk, local
<1>9. CASE CloseMember /\ ~Fail
  <2> SUFFICES ASSUME quiet, hashing PROVE hashed' = FlattenSeq(Prefix(at))
    <3>1. UNCHANGED <<quiet, hashing, phase>> /\ (members' = members \/ ~hashing)
      BY <1>9, Closing
    <3>2. phase = "read" /\ at' = at + 1 /\ (at + 1) - 1 = at
      BY <1>0, <1>9, Closing
    <3> QED BY <1>9, <3>1, <3>2, Closing DEF HashFollows, Prefix
  <2>1. /\ phase = "read" /\ reading # Closed
        /\ hashed' = hashed \o reading.raw
    BY <1>9, Closing
  <2>2. at <= Len(paths) /\ paths = Listed /\ Len(members) = Len(Listed)
    BY <2>1 DEF Progress, QuietOK
  <2>3. reading.raw = Expected(at) /\ reading.raw \in Seq(Inode \X Nat \X Nat)
    <3>1. reading.inode = dir[Listed[at]]
      BY <2>1, <2>2 DEF QuietOK
    <3> QED BY <1>9, <3>1, ClosedWhole DEF Expected, CoherentIInv, Open
  <2>4. at \in DOMAIN members /\ members[at] = reading.raw
    <3>1. at \in 1..Len(members)
      BY <1>0, <2>2
    <3> QED BY <1>0, <2>2, <2>3, <3>1 DEF QuietOK
  <2>5. hashed = FlattenSeq(Prefix(at - 1))
    BY <2>1 DEF HashFollows
  <2>6. Prefix(at - 1) \in Seq(Seq(Inode \X Nat \X Nat))
        /\ Append(Prefix(at - 1), members[at]) = Prefix(at)
    <3> DEFINE U == Seq(Inode \X Nat \X Nat)
    <3>1. members \in Seq(U) /\ at \in 1..Len(members) /\ at - 1 \in Nat
      BY <1>0, <2>4
    <3> HIDE DEF U
    <3>2. Prefix(at - 1) \in Seq(U) /\ Len(Prefix(at - 1)) = at - 1
      BY <3>1 DEF Prefix
    <3>3. Append(Prefix(at - 1), members[at]) = Prefix(at)
      BY <3>1, <3>2 DEF Prefix
    <3> QED BY <3>2, <3>3 DEF U
  <2> QED BY <2>1, <2>3, <2>4, <2>5, <2>6, FlattenSnoc
<1>10. CASE EndReading
  <2>1. CASE ~hashing
    BY <1>10, <2>1 DEF EndReading, HashFollows
  <2>2. CASE hashing
    <3>1. /\ phase = "read" /\ phase' = "done" /\ at > Len(paths)
          /\ UNCHANGED <<quiet, hashing, hashed, members>>
      BY <1>10, <2>2 DEF EndReading
    <3>2. quiet => Len(members) = Len(Listed) /\ paths = Listed /\ at <= Len(paths) + 1
      BY <2>2, <3>1 DEF Progress, QuietOK
    <3>3. quiet => at - 1 = Len(members)
      BY <1>0, <3>1, <3>2
    <3>4. Prefix(Len(members)) = members
      <4> DEFINE U == Seq(Inode \X Nat \X Nat)
      <4>1. members \in Seq(U)
        BY <1>0
      <4> HIDE DEF U
      <4> QED BY <4>1 DEF Prefix
    <3> QED BY <2>2, <3>1, <3>3, <3>4 DEF HashFollows
  <2> QED BY <2>1, <2>2
<1> QED BY <1>1, <1>3, <1>4, <1>5, <1>6, <1>7, <1>8, <1>9, <1>10 DEF DirNext

LEMMA DirIndInv ==
  /\ InputInit => DirIInv
  /\ DirIInv /\ [InputNext]_inputVars => DirIInv'
<1>1. ASSUME InputInit PROVE DirIInv
  <2>1. /\ hashing = FALSE /\ members = <<>> /\ hashed = <<>> /\ reading = Closed
        /\ phase \in {"unused", "list"}
    BY <1>1 DEF InputInit, DirInit, Directory, NoDirectory
  <2>2. Len(<<>>) = 0 /\ 0 <= MaxTotal
    BY LimitsAssumption
  <2>3. HashBounded /\ Progress /\ HashFollows
    BY <2>1, <2>2 DEF HashBounded, Progress, HashFollows
  <2>4. QuietOK
    <3>1. \A k \in DOMAIN members : FALSE
      BY <2>1
    <3> QED BY <2>1, <3>1 DEF QuietOK
  <2> QED BY <1>1, <2>3, <2>4, CoherentIndInv DEF DirIInv
<1>2. ASSUME DirIInv, DirNext PROVE DirIInv'
  <2>1. CoherentIInv'
    BY <1>2, TypeStep, ClockStep, ReadingStep, MembersStep DEF DirIInv, CoherentIInv
  <2> QED BY <1>2, <2>1, HashStep, QuietStep, ProgressStep, FollowsStep DEF DirIInv
<1>3. ASSUME DirIInv, UNCHANGED dirVars PROVE DirIInv'
  <2>1. CoherentIInv'
    BY <1>3, CoherentIndInv DEF DirIInv, inputVars, CoherentIInv, DirTypeOK, ClockOK,
       ReadingOK, MembersCoherent, Content, Chunk, Closed, dirVars, tree, local
  <2>2. HashBounded' /\ HashFollows'
    BY <1>3 DEF DirIInv, HashBounded, HashFollows, Prefix, dirVars, tree, local
  <2>3. Progress'
    BY <1>3, SameListing DEF DirIInv, Progress, dirVars, tree, local, Closed
  <2>4. QuietOK'
    BY <1>3, SameListing DEF DirIInv, QuietOK, dirVars, tree, local, Closed, Expected,
       Content, Chunk
  <2> QED BY <2>1, <2>2, <2>3, <2>4 DEF DirIInv
<1> QED BY <1>1, <1>2, <1>3 DEF InputNext, inputVars

\* A directory nobody edits is read as a whole, each member the file at its path
\* in the order of the paths; and what is hashed stays within the limit whether
\* it is edited or not (InputWhole; read_collection_input, dir_input_hash).
THEOREM ReadsWhole == InputSpec => []InputWhole
<1>1. ASSUME DirIInv PROVE InputWhole
  <2>1. Len(hashed) <= MaxTotal
    BY <1>1 DEF DirIInv, HashBounded
  <2>2. ASSUME phase = "done", quiet
        PROVE  members = [k \in DOMAIN Listed |->
                  [n \in 1..file[dir[Listed[k]]].size |-> Chunk(dir[Listed[k]], n)]]
    <3>1. Len(members) = Len(Listed) /\ DOMAIN Listed = 1..Len(Listed)
          /\ Len(Listed) \in Nat
      BY <1>1, <2>2, ListedFacts DEF DirIInv, Progress
    <3>2. \A k \in DOMAIN members : k <= Len(Listed) => members[k] = Expected(k)
      BY <1>1, <2>2 DEF DirIInv, QuietOK
    <3>3. members \in Seq(Seq(Inode \X Nat \X Nat))
      BY <1>1 DEF DirIInv, CoherentIInv, DirTypeOK
    <3>4. members = [k \in DOMAIN Listed |-> Expected(k)]
      <4> DEFINE U == Seq(Inode \X Nat \X Nat)
      <4>1. members \in Seq(U)
        BY <3>3
      <4> HIDE DEF U
      <4>2. members = [k \in 1..Len(members) |-> members[k]]
        BY <4>1
      <4>3. \A k \in 1..Len(members) : members[k] = Expected(k)
        BY <3>1, <3>2, <4>1
      <4> QED BY <3>1, <4>2, <4>3
    <3> QED BY <3>4 DEF Expected, Content
  <2> QED BY <2>1, <2>2 DEF InputWhole
<1> QED BY <1>1, DirIndInv, PTL DEF InputSpec

\* The hash of the map is the hash of what was anonymized if nothing was edited
\* in between (HashOfMembers; dir_input_hash).
THEOREM HashesWhatIsRead == InputSpec => []HashOfMembers
<1>1. DirIInv => HashOfMembers
  BY DEF DirIInv, Progress, HashFollows, HashOfMembers
<1> QED BY <1>1, DirIndInv, PTL DEF InputSpec
----------------------------------------------------------------------------
(* Archives: sums *)

Totals(h, f) ==
    /\ h \in [0..Len(f) -> Nat]
    /\ h[0] = 0 /\ \A k \in 1..Len(f) : h[k] = h[k - 1] + f[k]

LEMMA SumLoop ==
  ASSUME NEW f \in Seq(Nat)
  PROVE  \E h : Totals(h, f) /\ Sum(f) = h[Len(f)]
<1> DEFINE n == Len(f)
           step == [x \in (1..n) \X Nat |-> x[2] + f[x[1]]]
           c == CHOOSE t : t = [k \in 0..n |-> IF k = 0 THEN 0 ELSE t[k - 1] + f[k]]
<1>1. n \in Nat /\ \A k \in 1..n : f[k] \in Nat
  OBVIOUS
<1>2. Sum(f) = c[n]
  BY DEF Sum
<1> HIDE DEF n
<1>3. step \in [(1..n) \X Nat -> Nat]
  BY <1>1
<1>4. \A k \in 1..n, t \in Nat : step[<<k, t>>] = t + f[k]
  OBVIOUS
<1> HIDE DEF step
<1>5. PICK h : Rounds(h, Nat, 0, n, step)
  <2>1. n \in Nat /\ 0 \in Nat
    BY <1>1
  <2> QED BY <1>3, <2>1, Loop
<1> USE DEF Rounds
<1>6. \A k \in 1..n : h[k] = h[k - 1] + f[k]
  <2> SUFFICES ASSUME NEW k \in 1..n PROVE h[k] = h[k - 1] + f[k]
    OBVIOUS
  <2>1. k - 1 \in 0..n
    BY <1>1
  <2>2. h[k - 1] \in Nat
    BY <1>5, <2>1
  <2> QED BY <1>4, <1>5, <2>2
<1>7. h = [k \in 0..n |-> IF k = 0 THEN 0 ELSE h[k - 1] + f[k]]
  <2>1. h = [k \in 0..n |-> h[k]]
    BY <1>5
  <2>2. \A k \in 0..n : k # 0 => k \in 1..n
    BY <1>1
  <2>3. \A k \in 0..n : h[k] = IF k = 0 THEN 0 ELSE h[k - 1] + f[k]
    BY <1>5, <1>6, <2>2
  <2> QED BY <2>1, <2>3
<1>8. c = [k \in 0..n |-> IF k = 0 THEN 0 ELSE c[k - 1] + f[k]]
  BY <1>7
<1> HIDE DEF c
<1>9. c[n] = h[n]
  <2>1. 0 \in 0..n /\ \A k \in 1..n : k \in 0..n /\ k # 0
    BY <1>1
  <2>2. c[0] = h[0] /\ \A k \in 1..n : c[k - 1] = h[k - 1] => c[k] = h[k]
    BY <1>5, <1>6, <1>8, <2>1
  <2> QED BY <1>1, <2>2, Agree
<1>10. Totals(h, f)
  BY <1>5, <1>6 DEF Totals, n
<1> QED BY <1>2, <1>9, <1>10 DEF n

LEMMA TotalsUnique ==
  ASSUME NEW f \in Seq(Nat), NEW h, Totals(h, f)
  PROVE  Sum(f) = h[Len(f)] /\ Sum(f) \in Nat
<1>1. PICK g : Totals(g, f) /\ Sum(f) = g[Len(f)]
  BY SumLoop
<1>2. Len(f) \in Nat /\ Len(f) \in 0..Len(f)
  OBVIOUS
<1>3. g[Len(f)] = h[Len(f)]
  <2>1. g[0] = h[0] /\ \A k \in 1..Len(f) : g[k - 1] = h[k - 1] => g[k] = h[k]
    BY <1>1 DEF Totals
  <2> QED BY <1>2, <2>1, Agree
<1>4. h[Len(f)] \in Nat
  BY <1>2 DEF Totals
<1> QED BY <1>1, <1>3, <1>4

LEMMA SumEmpty == Sum(<<>>) = 0
<1>1. <<>> \in Seq(Nat) /\ Len(<<>>) = 0
  OBVIOUS
<1>2. PICK h : Totals(h, <<>>) /\ Sum(<<>>) = h[Len(<<>>)]
  BY <1>1, SumLoop
<1> QED BY <1>1, <1>2 DEF Totals

\* A sum of no larger numbers is no larger.
LEMMA SumMonotone ==
  ASSUME NEW f \in Seq(Nat), NEW g \in Seq(Nat), Len(f) = Len(g),
         \A k \in 1..Len(f) : f[k] <= g[k]
  PROVE  Sum(f) <= Sum(g)
<1>1. PICK a : Totals(a, f) /\ Sum(f) = a[Len(f)]
  BY SumLoop
<1>2. PICK b : Totals(b, g) /\ Sum(g) = b[Len(g)]
  BY SumLoop
<1> DEFINE n == Len(f)
           S == {k \in 0..n : a[k] <= b[k]}
<1>3. n \in Nat /\ n = Len(g)
  OBVIOUS
<1>4. /\ a \in [0..n -> Nat] /\ a[0] = 0 /\ \A k \in 1..n : a[k] = a[k - 1] + f[k]
      /\ b \in [0..n -> Nat] /\ b[0] = 0 /\ \A k \in 1..n : b[k] = b[k - 1] + g[k]
      /\ \A k \in 1..n : f[k] \in Nat /\ g[k] \in Nat /\ f[k] <= g[k]
  BY <1>1, <1>2 DEF Totals
<1> HIDE DEF n
<1>5. 0 \in S
  BY <1>3, <1>4
<1>6. \A k \in 1..n : k - 1 \in S => k \in S
  <2> SUFFICES ASSUME NEW k \in 1..n, a[k - 1] <= b[k - 1] PROVE a[k] <= b[k]
    BY <1>3
  <2>1. k - 1 \in 0..n
    BY <1>3
  <2>2. a[k - 1] \in Nat /\ b[k - 1] \in Nat /\ f[k] \in Nat /\ g[k] \in Nat
    BY <1>4, <2>1
  <2>3. f[k] <= g[k] /\ a[k] = a[k - 1] + f[k] /\ b[k] = b[k - 1] + g[k]
    BY <1>4
  <2> QED BY <2>2, <2>3
<1> HIDE DEF S
<1>7. n \in S
  <2>1. n \in 0..n
    BY <1>3
  <2> QED BY <1>3, <1>5, <1>6, <2>1, Climb
<1> QED BY <1>1, <1>2, <1>3, <1>7 DEF S, n

LEMMA SumAppend ==
  ASSUME NEW f \in Seq(Nat), NEW x \in Nat
  PROVE  Sum(Append(f, x)) = Sum(f) + x
<1> DEFINE g == Append(f, x)
           n == Len(f)
<1>1. /\ g \in Seq(Nat) /\ Len(g) = n + 1 /\ n \in Nat
      /\ g[n + 1] = x /\ \A k \in 1..n : g[k] = f[k]
  OBVIOUS
<1>2. PICK b : Totals(b, g) /\ Sum(g) = b[n + 1]
  BY <1>1, SumLoop
<1>3. /\ b \in [0..(n + 1) -> Nat] /\ b[0] = 0
      /\ \A k \in 1..(n + 1) : b[k] = b[k - 1] + g[k]
  BY <1>1, <1>2 DEF Totals
<1> HIDE DEF g
<1>4. Totals([k \in 0..n |-> b[k]], f)
  <2> DEFINE a == [k \in 0..n |-> b[k]]
  <2>1. \A k \in 0..n : k \in 0..(n + 1) /\ a[k] = b[k]
    BY <1>1
  <2>2. a \in [0..n -> Nat] /\ a[0] = 0
    BY <1>1, <1>3, <2>1
  <2>3. ASSUME NEW k \in 1..n PROVE a[k] = a[k - 1] + f[k]
    <3>1. k \in 0..n /\ k - 1 \in 0..n /\ k \in 1..(n + 1)
      BY <1>1
    <3>2. b[k] = b[k - 1] + f[k]
      BY <1>1, <1>3, <3>1
    <3> QED BY <2>1, <3>1, <3>2
  <2>4. Totals(a, f)
    <3> HIDE DEF a
    <3> QED BY <2>2, <2>3 DEF Totals
  <2> QED BY <2>4
<1>5. Sum(f) = b[n]
  <2>1. n \in 0..n
    BY <1>1
  <2> QED BY <1>4, <2>1, TotalsUnique DEF n
<1>6. n + 1 \in 1..(n + 1) /\ (n + 1) - 1 = n
  BY <1>1
<1>7. b[n + 1] = b[n] + g[n + 1]
  BY <1>3, <1>6
<1> QED BY <1>1, <1>2, <1>5, <1>7 DEF g

\* One number replaced by another.
LEMMA SumExcept ==
  ASSUME NEW f \in Seq(Nat), NEW p \in 1..Len(f), NEW x \in Nat
  PROVE  Sum([f EXCEPT ![p] = x]) <= Sum(f) + x
<1> DEFINE g == [f EXCEPT ![p] = x]
           n == Len(f)
<1>1. /\ g \in Seq(Nat) /\ Len(g) = n /\ n \in Nat /\ p \in 1..n
      /\ \A k \in 1..n : f[k] \in Nat /\ g[k] = IF k = p THEN x ELSE f[k]
  OBVIOUS
<1>2. PICK a : Totals(a, f) /\ Sum(f) = a[n]
  BY SumLoop
<1> HIDE DEF g
<1>3. PICK b : Totals(b, g) /\ Sum(g) = b[n]
  BY <1>1, SumLoop
<1>4. /\ a \in [0..n -> Nat] /\ a[0] = 0 /\ \A k \in 1..n : a[k] = a[k - 1] + f[k]
      /\ b \in [0..n -> Nat] /\ b[0] = 0 /\ \A k \in 1..n : b[k] = b[k - 1] + g[k]
  BY <1>1, <1>2, <1>3 DEF Totals
<1> HIDE DEF n
<1> DEFINE S == {k \in 0..n : b[k] <= a[k] + x /\ (k < p => b[k] = a[k])}
<1>5. 0 \in S
  BY <1>1, <1>4
<1>6. \A k \in 1..n : k - 1 \in S => k \in S
  <2> SUFFICES ASSUME NEW k \in 1..n, b[k - 1] <= a[k - 1] + x,
                      k - 1 < p => b[k - 1] = a[k - 1]
               PROVE  b[k] <= a[k] + x /\ (k < p => b[k] = a[k])
    BY <1>1
  <2>1. k - 1 \in 0..n /\ k \in Nat /\ p \in Nat
    BY <1>1
  <2>2. a[k - 1] \in Nat /\ b[k - 1] \in Nat /\ f[k] \in Nat
    BY <1>1, <1>4, <2>1
  <2>3. /\ a[k] = a[k - 1] + f[k]
        /\ b[k] = b[k - 1] + IF k = p THEN x ELSE f[k]
    BY <1>1, <1>4
  <2> QED BY <2>1, <2>2, <2>3, SMTT(30)
<1> HIDE DEF S
<1>7. n \in S
  <2>1. n \in 0..n
    BY <1>1
  <2> QED BY <1>1, <1>5, <1>6, <2>1, Climb
<1> QED BY <1>2, <1>3, <1>7 DEF S, g
----------------------------------------------------------------------------
(* The latest entry of each name *)

Declared(es) == [i \in DOMAIN es |-> es[i].declared]

LEMMA DeclaredType ==
  ASSUME NEW es \in Seq(Entry)
  PROVE  /\ Declared(es) \in Seq(Nat) /\ Len(Declared(es)) = Len(es)
         /\ \A i \in 1..Len(es) : Declared(es)[i] = es[i].declared
         /\ DeclaredTotal(es) = Sum(Declared(es))
<1>0. \A e \in Entry : e.declared \in Nat
  BY DEF Entry
<1>1. \A i \in 1..Len(es) : es[i] \in Entry /\ es[i].declared \in Nat
  BY <1>0
<1>2. DOMAIN es = 1..Len(es) /\ Len(es) \in Nat
  OBVIOUS
<1> QED BY <1>1, <1>2 DEF Declared, DeclaredTotal

\* What Retain does to a list: it grows by the entry, or the entry replaces one
\* of its name.
LEMMA RetainCases ==
  ASSUME NEW l \in Seq(Entry), NEW e \in Entry
  PROVE  /\ Retain(l, e) \in Seq(Entry)
         /\ \/ /\ \A k \in 1..Len(l) : l[k].name # e.name
               /\ Retain(l, e) = Append(l, e)
            \/ \E p \in 1..Len(l) : l[p].name = e.name /\ Retain(l, e) = [l EXCEPT ![p] = e]
<1>1. DOMAIN l = 1..Len(l) /\ Len(l) \in Nat
  OBVIOUS
<1>2. CASE Position(l, e) = {}
  <2>1. Retain(l, e) = Append(l, e)
    BY <1>2 DEF Retain
  <2>2. \A k \in 1..Len(l) : l[k].name # e.name
    BY <1>1, <1>2 DEF Position
  <2>3. Append(l, e) \in Seq(Entry)
    <3> DEFINE U == Entry
    <3>1. l \in Seq(U) /\ e \in U
      OBVIOUS
    <3> HIDE DEF U
    <3> QED BY <3>1 DEF U
  <2> QED BY <2>1, <2>2, <2>3
<1>3. CASE Position(l, e) # {}
  <2> DEFINE p == CHOOSE k \in Position(l, e) : TRUE
  <2>1. p \in Position(l, e)
    BY <1>3
  <2>2. Retain(l, e) = [l EXCEPT ![p] = e]
    BY <1>3 DEF Retain
  <2> HIDE DEF p
  <2>3. p \in 1..Len(l) /\ l[p].name = e.name
    BY <1>1, <2>1 DEF Position
  <2>4. [l EXCEPT ![p] = e] \in Seq(Entry)
    <3> DEFINE U == Entry
    <3>1. l \in Seq(U) /\ e \in U
      OBVIOUS
    <3> HIDE DEF U
    <3>2. [l EXCEPT ![p] = e] \in Seq(U)
      BY <2>3, <3>1
    <3> QED BY <3>2 DEF U
  <2> QED BY <2>2, <2>3, <2>4
<1> QED BY <1>2, <1>3

LEMMA RetainSum ==
  ASSUME NEW l \in Seq(Entry), NEW e \in Entry
  PROVE  Sum(Declared(Retain(l, e))) <= Sum(Declared(l)) + e.declared
<1>0. e.declared \in Nat
  BY DEF Entry
<1>1. Declared(l) \in Seq(Nat) /\ Len(Declared(l)) = Len(l) /\ e.declared \in Nat
      /\ Len(l) \in Nat /\ DOMAIN l = 1..Len(l)
  BY <1>0, DeclaredType
<1>2. Sum(Declared(l)) \in Nat
  BY <1>1, SumLoop, TotalsUnique
<1>3. CASE Retain(l, e) = Append(l, e)
  <2>1. Declared(Append(l, e)) = Append(Declared(l), e.declared)
    <3> DEFINE U == Entry
    <3>1. l \in Seq(U) /\ e \in U
      OBVIOUS
    <3> HIDE DEF U
    <3>2. /\ DOMAIN Append(l, e) = 1..(Len(l) + 1)
          /\ \A k \in 1..(Len(l) + 1) : Append(l, e)[k] = IF k = Len(l) + 1 THEN e ELSE l[k]
      BY <3>1
    <3>3. \A k \in 1..(Len(l) + 1) : k # Len(l) + 1 => k \in 1..Len(l)
      BY <1>1
    <3>4. Declared(Append(l, e)) = [k \in 1..(Len(l) + 1) |->
             IF k = Len(l) + 1 THEN e.declared ELSE l[k].declared]
      BY <3>2 DEF Declared
    <3>5. \A k \in 1..Len(l) : Declared(l)[k] = l[k].declared
      BY <1>1 DEF Declared
    <3>6. Append(Declared(l), e.declared) = [k \in 1..(Len(l) + 1) |->
             IF k = Len(l) + 1 THEN e.declared ELSE l[k].declared]
      BY <1>1, <3>3, <3>5
    <3> QED BY <3>4, <3>6
  <2>2. Sum(Append(Declared(l), e.declared)) = Sum(Declared(l)) + e.declared
    BY <1>1, SumAppend
  <2> QED BY <1>1, <1>2, <1>3, <2>1, <2>2
<1>4. ASSUME NEW p \in 1..Len(l), Retain(l, e) = [l EXCEPT ![p] = e]
      PROVE  Sum(Declared(Retain(l, e))) <= Sum(Declared(l)) + e.declared
  <2>1. Declared([l EXCEPT ![p] = e]) = [Declared(l) EXCEPT ![p] = e.declared]
    BY <1>1 DEF Declared
  <2>2. Sum([Declared(l) EXCEPT ![p] = e.declared]) <= Sum(Declared(l)) + e.declared
    BY <1>1, SumExcept
  <2> QED BY <1>4, <2>1, <2>2
<1> QED BY <1>3, <1>4, RetainCases

\* l is what a list of n entries comes to: an entry for each name, the last that
\* has it, in the order of the first that has it.
Latests(es, n, l) ==
    /\ l \in Seq(Entry)
    /\ \A i \in 1..n : \E j \in 1..Len(l) : l[j].name = es[i].name
    /\ \A j \in 1..Len(l) : \E i \in 1..n :
          es[i] = l[j] /\ \A m \in (i + 1)..n : es[m].name # l[j].name
    /\ \A j, k \in 1..Len(l) : j < k =>
          \E i \in 1..n : es[i].name = l[j].name /\ \A m \in 1..i : es[m].name # l[k].name

LEMMA RetainKeeps ==
  ASSUME NEW es, NEW n \in Nat \ {0}, es[n] \in Entry, NEW l, Latests(es, n - 1, l)
  PROVE  Latests(es, n, Retain(l, es[n]))
<1> DEFINE e == es[n]
           r == Retain(l, e)
<1>1. l \in Seq(Entry) /\ e \in Entry /\ Len(l) \in Nat
  BY DEF Latests
<1>2. r \in Seq(Entry)
  BY <1>1, RetainCases
<1>3. /\ \A i \in 1..(n - 1) : \E j \in 1..Len(l) : l[j].name = es[i].name
      /\ \A j \in 1..Len(l) : \E i \in 1..(n - 1) :
            es[i] = l[j] /\ \A m \in (i + 1)..(n - 1) : es[m].name # l[j].name
      /\ \A j, k \in 1..Len(l) : j < k => \E i \in 1..(n - 1) :
            es[i].name = l[j].name /\ \A m \in 1..i : es[m].name # l[k].name
  BY DEF Latests
<1>4. /\ n \in 1..n
      /\ \A i \in 1..n : i # n => i \in 1..(n - 1)
      /\ \A i \in 1..(n - 1) : i \in 1..n /\ i \in Nat
      /\ (n + 1)..n = {}
      /\ \A i \in 1..(n - 1) : \A m \in (i + 1)..n : m # n => m \in (i + 1)..(n - 1)
      /\ \A i \in 1..(n - 1) : \A m \in 1..i : m \in 1..(n - 1)
  OBVIOUS
<1>5. CASE (\A k \in 1..Len(l) : l[k].name # e.name) /\ r = Append(l, e)
  <2>1. /\ Len(r) = Len(l) + 1 /\ r[Len(l) + 1] = e
        /\ \A j \in 1..Len(l) : j \in 1..Len(r) /\ r[j] = l[j]
        /\ \A j \in 1..Len(r) : j # Len(l) + 1 => j \in 1..Len(l)
        /\ Len(l) + 1 \in 1..Len(r)
    <3> DEFINE U == Entry
    <3>1. l \in Seq(U) /\ e \in U
      BY <1>1
    <3> HIDE DEF U, e
    <3> QED BY <1>5, <3>1
  <2> HIDE DEF r
  <2>2. ASSUME NEW i \in 1..n PROVE \E j \in 1..Len(r) : r[j].name = es[i].name
    <3>1. CASE i = n
      BY <2>1, <3>1
    <3>2. CASE i # n
      <4>1. PICK j \in 1..Len(l) : l[j].name = es[i].name
        BY <1>3, <1>4, <3>2
      <4> QED BY <2>1, <4>1
    <3> QED BY <3>1, <3>2
  <2>3. ASSUME NEW j \in 1..Len(r)
        PROVE  \E i \in 1..n : es[i] = r[j] /\ \A m \in (i + 1)..n : es[m].name # r[j].name
    <3>1. CASE j = Len(l) + 1
      BY <1>4, <2>1, <3>1
    <3>2. CASE j # Len(l) + 1
      <4>1. j \in 1..Len(l) /\ r[j] = l[j] /\ l[j].name # e.name
        BY <1>5, <2>1, <3>2
      <4>2. PICK i \in 1..(n - 1) :
               es[i] = l[j] /\ \A m \in (i + 1)..(n - 1) : es[m].name # l[j].name
        BY <1>3, <4>1
      <4>3. \A m \in (i + 1)..n : es[m].name # l[j].name
        BY <1>4, <4>1, <4>2
      <4> QED BY <1>4, <4>1, <4>2, <4>3
    <3> QED BY <3>1, <3>2
  <2>4. ASSUME NEW j \in 1..Len(r), NEW k \in 1..Len(r), j < k
        PROVE  \E i \in 1..n : es[i].name = r[j].name /\ \A m \in 1..i : es[m].name # r[k].name
    <3>1. j \in 1..Len(l) /\ r[j] = l[j]
      BY <1>1, <2>1, <2>4
    <3>2. CASE k = Len(l) + 1
      <4>1. PICK i \in 1..(n - 1) : es[i] = l[j]
        BY <1>3, <3>1
      <4>2. \A m \in 1..(n - 1) : es[m].name # e.name
        BY <1>3, <1>5
      <4> QED BY <1>4, <2>1, <3>1, <3>2, <4>1, <4>2
    <3>3. CASE k # Len(l) + 1
      <4>1. k \in 1..Len(l) /\ r[k] = l[k]
        BY <2>1, <3>3
      <4>2. PICK i \in 1..(n - 1) :
               es[i].name = l[j].name /\ \A m \in 1..i : es[m].name # l[k].name
        BY <1>3, <2>4, <3>1, <4>1
      <4> QED BY <1>4, <3>1, <4>1, <4>2
    <3> QED BY <3>2, <3>3
  <2> QED BY <1>2, <2>2, <2>3, <2>4 DEF Latests, r
<1>6. ASSUME NEW p \in 1..Len(l), l[p].name = e.name, r = [l EXCEPT ![p] = e]
      PROVE  Latests(es, n, r)
  <2>1. /\ Len(r) = Len(l) /\ r[p] = e
        /\ \A j \in 1..Len(l) : j # p => r[j] = l[j]
    <3> DEFINE U == Entry
    <3>1. l \in Seq(U) /\ e \in U
      BY <1>1
    <3> HIDE DEF U, e
    <3> QED BY <1>6, <3>1
  <2>2. \A j \in 1..Len(l) : r[j].name = l[j].name
    BY <1>6, <2>1
  <2> HIDE DEF r
  <2>3. ASSUME NEW i \in 1..n PROVE \E j \in 1..Len(r) : r[j].name = es[i].name
    <3>1. CASE i = n
      BY <1>6, <2>1, <3>1
    <3>2. CASE i # n
      BY <1>3, <1>4, <2>1, <2>2, <3>2
    <3> QED BY <3>1, <3>2
  <2>4. ASSUME NEW j \in 1..Len(r)
        PROVE  \E i \in 1..n : es[i] = r[j] /\ \A m \in (i + 1)..n : es[m].name # r[j].name
    <3>1. CASE j = p
      BY <1>4, <2>1, <3>1
    <3>2. CASE j # p
      <4>1. l[j].name # e.name
        <5>1. j \in Nat /\ p \in Nat /\ j \in 1..Len(l)
          BY <2>1
        <5>2. CASE j < p
          <6>1. PICK i \in 1..(n - 1) :
                   es[i].name = l[j].name /\ \A m \in 1..i : es[m].name # l[p].name
            BY <1>3, <5>1, <5>2
          <6>2. i \in 1..i
            BY <1>4
          <6> QED BY <1>6, <6>1, <6>2
        <5>3. CASE p < j
          <6>1. PICK i \in 1..(n - 1) :
                   es[i].name = l[p].name /\ \A m \in 1..i : es[m].name # l[j].name
            BY <1>3, <5>1, <5>3
          <6>2. i \in 1..i
            BY <1>4
          <6> QED BY <1>6, <6>1, <6>2
        <5> QED BY <3>2, <5>1, <5>2, <5>3
      <4>2. PICK i \in 1..(n - 1) :
               es[i] = l[j] /\ \A m \in (i + 1)..(n - 1) : es[m].name # l[j].name
        BY <1>3, <2>1
      <4>3. \A m \in (i + 1)..n : es[m].name # l[j].name
        BY <1>4, <4>1, <4>2
      <4> QED BY <1>4, <2>1, <3>2, <4>2, <4>3
    <3> QED BY <3>1, <3>2
  <2>5. ASSUME NEW j \in 1..Len(r), NEW k \in 1..Len(r), j < k
        PROVE  \E i \in 1..n : es[i].name = r[j].name /\ \A m \in 1..i : es[m].name # r[k].name
    BY <1>3, <1>4, <2>1, <2>2, <2>5
  <2> QED BY <1>2, <2>3, <2>4, <2>5 DEF Latests, r
<1> QED BY <1>1, <1>5, <1>6, RetainCases

\* The lists Latest goes through.
Uptos(u, es) ==
    /\ u \in [0..Len(es) -> Seq(Entry)]
    /\ u[0] = <<>> /\ \A k \in 1..Len(es) : u[k] = Retain(u[k - 1], es[k])

LEMMA LatestLoop ==
  ASSUME NEW es \in Seq(Entry)
  PROVE  \E u : Uptos(u, es) /\ Latest(es) = u[Len(es)]
<1> DEFINE n == Len(es)
           D == Seq(Entry)
           step == [x \in (1..n) \X D |-> Retain(x[2], es[x[1]])]
           c == CHOOSE t : t = [k \in 0..n |-> IF k = 0 THEN <<>> ELSE Retain(t[k - 1], es[k])]
<1>1. n \in Nat /\ <<>> \in D /\ \A k \in 1..n : es[k] \in Entry
  OBVIOUS
<1>2. Latest(es) = c[n]
  BY DEF Latest
<1> HIDE DEF n
<1>3. \A k \in 1..n, l \in D : Retain(l, es[k]) \in D
  BY <1>1, RetainCases
<1> HIDE DEF D
<1>4. step \in [(1..n) \X D -> D]
  BY <1>3
<1>5. \A k \in 1..n, l \in D : step[<<k, l>>] = Retain(l, es[k])
  OBVIOUS
<1> HIDE DEF step
<1>6. PICK u : Rounds(u, D, <<>>, n, step)
  BY <1>1, <1>4, Loop
<1>7. u \in [0..n -> D] /\ u[0] = <<>>
  BY <1>6 DEF Rounds
<1>8. \A k \in 1..n : u[k] = Retain(u[k - 1], es[k])
  <2> SUFFICES ASSUME NEW k \in 1..n PROVE u[k] = Retain(u[k - 1], es[k])
    OBVIOUS
  <2>1. k - 1 \in 0..n
    BY <1>1
  <2>2. u[k - 1] \in D
    BY <1>7, <2>1
  <2>3. u[k] = step[<<k, u[k - 1]>>]
    BY <1>6 DEF Rounds
  <2> QED BY <1>5, <2>2, <2>3
<1>9. c = [k \in 0..n |-> IF k = 0 THEN <<>> ELSE Retain(c[k - 1], es[k])]
  <2>1. u = [k \in 0..n |-> u[k]]
    BY <1>7
  <2>2. \A k \in 0..n : k # 0 => k \in 1..n
    BY <1>1
  <2>3. \A k \in 0..n : u[k] = IF k = 0 THEN <<>> ELSE Retain(u[k - 1], es[k])
    BY <1>7, <1>8, <2>2
  <2>4. u = [k \in 0..n |-> IF k = 0 THEN <<>> ELSE Retain(u[k - 1], es[k])]
    BY <2>1, <2>3
  <2> QED BY <2>4
<1> HIDE DEF c
<1>10. c[n] = u[n]
  <2>1. 0 \in 0..n /\ \A k \in 1..n : k \in 0..n /\ k # 0
    BY <1>1
  <2>2. c[0] = u[0] /\ \A k \in 1..n : c[k - 1] = u[k - 1] => c[k] = u[k]
    BY <1>7, <1>8, <1>9, <2>1
  <2> QED BY <1>1, <2>2, Agree
<1>11. Uptos(u, es)
  BY <1>7, <1>8 DEF Uptos, n, D
<1> QED BY <1>2, <1>10, <1>11 DEF n

\* The latest entries of a list are what it comes to, and declare no more than
\* all of it.
LEMMA LatestIs ==
  ASSUME NEW es \in Seq(Entry)
  PROVE  /\ Latests(es, Len(es), Latest(es))
         /\ Sum(Declared(Latest(es))) <= DeclaredTotal(es)
<1>1. PICK u : Uptos(u, es) /\ Latest(es) = u[Len(es)]
  BY LatestLoop
<1>2. PICK h : Totals(h, Declared(es)) /\ Sum(Declared(es)) = h[Len(es)]
  BY DeclaredType, SumLoop
<1> DEFINE n == Len(es)
           S == {k \in 0..n : Latests(es, k, u[k]) /\ Sum(Declared(u[k])) <= h[k]}
<1>3. n \in Nat /\ n \in 0..n /\ 0 \in 0..n /\ \A k \in 1..n : es[k] \in Entry
  OBVIOUS
<1>4. /\ h \in [0..n -> Nat] /\ h[0] = 0
      /\ \A k \in 1..n : h[k] = h[k - 1] + es[k].declared
  BY <1>2, DeclaredType DEF Totals
<1>5. /\ u \in [0..n -> Seq(Entry)] /\ u[0] = <<>>
      /\ \A k \in 1..n : u[k] = Retain(u[k - 1], es[k])
  BY <1>1 DEF Uptos
<1> HIDE DEF n
<1>6. 0 \in S
  <2>1. Latests(es, 0, <<>>)
    <3>1. <<>> \in Seq(Entry) /\ Len(<<>>) = 0 /\ 1..0 = {}
      OBVIOUS
    <3> QED BY <3>1 DEF Latests
  <2>2. Declared(<<>>) = <<>>
    BY DEF Declared
  <2> QED BY <1>3, <1>4, <1>5, <2>1, <2>2, SumEmpty
<1>7. \A k \in 1..n : k - 1 \in S => k \in S
  <2> SUFFICES ASSUME NEW k \in 1..n, Latests(es, k - 1, u[k - 1]),
                      Sum(Declared(u[k - 1])) <= h[k - 1]
               PROVE  Latests(es, k, u[k]) /\ Sum(Declared(u[k])) <= h[k]
    BY <1>3
  <2>1. k - 1 \in 0..n /\ k \in Nat \ {0} /\ k \in 0..n
    BY <1>3
  <2>2. u[k - 1] \in Seq(Entry) /\ es[k] \in Entry /\ u[k] = Retain(u[k - 1], es[k])
    BY <1>3, <1>5, <2>1
  <2>3. u[k] \in Seq(Entry)
    BY <1>5, <2>1
  <2>4. Latests(es, k, u[k])
    BY <2>1, <2>2, RetainKeeps
  <2>5. Sum(Declared(u[k])) <= Sum(Declared(u[k - 1])) + es[k].declared
    BY <2>2, RetainSum
  <2>6. /\ Sum(Declared(u[k])) \in Nat /\ Sum(Declared(u[k - 1])) \in Nat
        /\ h[k - 1] \in Nat /\ h[k] \in Nat /\ es[k].declared \in Nat
    <3>1. es[k].declared \in Nat
      BY <2>2 DEF Entry
    <3>2. Declared(u[k]) \in Seq(Nat) /\ Declared(u[k - 1]) \in Seq(Nat)
      BY <2>2, <2>3, DeclaredType
    <3>3. Sum(Declared(u[k])) \in Nat /\ Sum(Declared(u[k - 1])) \in Nat
      BY <3>2, SumLoop, TotalsUnique
    <3> QED BY <1>4, <2>1, <3>1, <3>3
  <2>7. h[k] = h[k - 1] + es[k].declared
    BY <1>4
  <2>8. Sum(Declared(u[k])) <= h[k]
    BY <2>5, <2>6, <2>7
  <2> QED BY <2>4, <2>8
<1> HIDE DEF S
<1>8. n \in S
  BY <1>3, <1>6, <1>7, Climb
<1>9. Latests(es, n, u[n]) /\ Sum(Declared(u[n])) <= h[n]
  BY <1>8 DEF S
<1> QED BY <1>1, <1>2, <1>9, DeclaredType DEF n

LEMMA JsonTyped ==
  ASSUME raw.entries \in Seq(Entry)
  PROVE  JsonEntries \in Seq(Entry)
<1> DEFINE es == raw.entries
           n == Len(es)
           D == Seq(Entry)
           Kept(l, e) == IF ~e.directory /\ e.name \in JsonName THEN Append(l, e) ELSE l
           step == [x \in (1..n) \X D |-> Kept(x[2], es[x[1]])]
           c == CHOOSE t : t = [k \in 0..n |-> IF k = 0 THEN <<>> ELSE Kept(t[k - 1], es[k])]
<1>1. n \in Nat /\ n \in 0..n /\ <<>> \in D /\ \A k \in 1..n : es[k] \in Entry
  OBVIOUS
<1>2. JsonEntries = c[n]
  BY Zenon DEF JsonEntries
<1> HIDE DEF n, es
<1>3. \A k \in 1..n, l \in D : Kept(l, es[k]) \in D
  <2> SUFFICES ASSUME NEW k \in 1..n, NEW l \in D PROVE Append(l, es[k]) \in D
    OBVIOUS
  <2> DEFINE U == Entry
  <2>1. es[k] \in U /\ l \in Seq(U)
    BY <1>1
  <2> HIDE DEF U
  <2>2. Append(l, es[k]) \in Seq(U)
    BY <2>1
  <2> QED BY <2>2 DEF U
<1> HIDE DEF D, Kept
<1>4. step \in [(1..n) \X D -> D]
  BY <1>3
<1>5. \A k \in 1..n, l \in D : step[<<k, l>>] = Kept(l, es[k])
  OBVIOUS
<1> HIDE DEF step
<1>6. PICK u : Rounds(u, D, <<>>, n, step)
  BY <1>1, <1>4, Loop
<1>7. u \in [0..n -> D] /\ u[0] = <<>>
  BY <1>6 DEF Rounds
<1>8. u = [k \in 0..n |-> IF k = 0 THEN <<>> ELSE Kept(u[k - 1], es[k])]
  <2>1. u = [k \in 0..n |-> u[k]]
    BY <1>7
  <2>2. ASSUME NEW k \in 0..n PROVE u[k] = IF k = 0 THEN <<>> ELSE Kept(u[k - 1], es[k])
    <3>1. CASE k = 0
      BY <1>7, <3>1
    <3>2. CASE k # 0
      <4>1. k \in 1..n /\ k - 1 \in 0..n
        BY <1>1, <3>2
      <4>2. u[k - 1] \in D /\ u[k] = step[<<k, u[k - 1]>>]
        BY <1>6, <1>7, <4>1 DEF Rounds
      <4> QED BY <1>5, <3>2, <4>1, <4>2
    <3> QED BY <3>1, <3>2
  <2> QED BY <2>1, <2>2
<1>9. c = [k \in 0..n |-> IF k = 0 THEN <<>> ELSE Kept(c[k - 1], es[k])]
  BY <1>8
<1> HIDE DEF c
<1>10. c[n] = u[n]
  <2>1. c[0] = u[0] /\ \A k \in 1..n : c[k - 1] = u[k - 1] => c[k] = u[k]
    <3>1. 0 \in 0..n /\ \A k \in 1..n : k \in 0..n /\ k # 0
      BY <1>1
    <3> QED BY <1>8, <1>9, <3>1
  <2> QED BY <1>1, <2>1, Agree
<1> QED BY <1>1, <1>2, <1>7, <1>10 DEF D
----------------------------------------------------------------------------
(* Reading *)

\* Every entry read so far is one that is to be read, in its order, and has come
\* to what it declares at most.
EntriesTaken ==
    /\ Safe(JsonEntries) /\ latest = Latest(JsonEntries)
    /\ entriesRead \in Seq(Entry \X Nat) /\ Len(entriesRead) <= Len(latest)
    /\ \A k \in 1..Len(entriesRead) :
          /\ entriesRead[k] = <<latest[k], Output(latest[k])>>
          /\ Output(latest[k]) <= latest[k].declared

ArchiveIInv ==
    /\ stage \in {"unused", "stat", "read", "sniff", "entries", "done", "failed"}
    /\ stage \in {"stat", "read", "sniff"} => archive \in Input
    /\ stage \in {"sniff", "entries", "done"} => raw \in Input
    /\ inflated \in Nat /\ inflated <= MaxMember + 1
    /\ latest # <<>> => stage \in {"entries", "done", "failed"}
    /\ stage \in {"unused", "stat", "read", "sniff"} => entriesRead = <<>>
    /\ stage = "entries" => latest # <<>>
    /\ stage \in {"entries", "done"} /\ latest # <<>> => EntriesTaken
    /\ stage = "done" /\ latest # <<>> => Len(entriesRead) = Len(latest)
    /\ stage = "done" /\ latest = <<>> =>
          entriesRead = <<<<None, raw.size>>>> /\ raw.size <= MaxMember

LEMMA Shaped ==
  ASSUME NEW i \in Input
  PROVE  i.size \in Nat /\ i.entries \in Seq(Entry)
<1>1. i \in [size : Nat, shaped : BOOLEAN, document : BOOLEAN,
             central : BOOLEAN, entries : Seq(Entry)]
  BY ArchiveAssumption
<1> DEFINE U == Seq(Entry)
<1>2. i \in [size : Nat, shaped : BOOLEAN, document : BOOLEAN,
             central : BOOLEAN, entries : U]
  BY <1>1
<1> HIDE DEF U
<1>3. i.size \in Nat /\ i.entries \in U
  BY <1>2
<1> QED BY <1>3 DEF U

LEMMA OutputNat ==
  ASSUME NEW e \in Entry
  PROVE  /\ Output(e) \in Nat
         /\ ~e.stored => Output(e) <= e.declared + 1
<1>1. e.comp \in Nat /\ e.expands \in Nat /\ e.declared \in Nat /\ e.stored \in BOOLEAN
  BY DEF Entry
<1> QED BY <1>1 DEF Output, Take

\* What an accepted archive comes to is bounded like the archive.
LEMMA LatestSafe ==
  ASSUME raw \in Input, Safe(JsonEntries), latest = Latest(JsonEntries)
  PROVE  /\ latest \in Seq(Entry)
         /\ Latests(JsonEntries, Len(JsonEntries), latest)
         /\ \A k \in 1..Len(latest) : latest[k] \in Entry /\ latest[k].declared <= MaxMember
         /\ Sum(Declared(latest)) <= MaxTotal
<1>1. JsonEntries \in Seq(Entry)
  BY JsonTyped, Shaped
<1> DEFINE es == JsonEntries
<1> HIDE DEF es
<1>2. es \in Seq(Entry)
  BY <1>1 DEF es
<1>3. Latests(es, Len(es), latest) /\ Sum(Declared(latest)) <= DeclaredTotal(es)
  BY <1>2, LatestIs DEF es
<1>4. latest \in Seq(Entry)
  BY <1>3 DEF Latests
<1>5. DeclaredTotal(es) <= MaxTotal /\ \A i \in DOMAIN es : es[i].declared <= MaxMember
  BY DEF Safe, es
<1>6. /\ DeclaredTotal(es) \in Nat /\ Sum(Declared(latest)) \in Nat
      /\ MaxTotal \in Nat
  <2>1. Declared(es) \in Seq(Nat) /\ DeclaredTotal(es) = Sum(Declared(es))
        /\ Declared(latest) \in Seq(Nat)
    BY <1>2, <1>4, DeclaredType
  <2> QED BY <2>1, SumLoop, TotalsUnique, LimitsAssumption
<1>7. ASSUME NEW k \in 1..Len(latest)
      PROVE  latest[k] \in Entry /\ latest[k].declared <= MaxMember
  <2>1. PICK i \in 1..Len(es) : es[i] = latest[k]
    BY <1>3 DEF Latests
  <2>2. i \in DOMAIN es
    BY <1>2
  <2>3. latest[k] \in Entry
    BY <1>4
  <2> QED BY <1>5, <2>1, <2>2, <2>3
<1> QED BY <1>3, <1>4, <1>5, <1>6, <1>7 DEF es

LEMMA SameEntries ==
  ASSUME raw' = raw
  PROVE  JsonEntries' = JsonEntries
BY DEF JsonEntries

LEMMA ArchiveIndInv ==
  /\ InputInit => ArchiveIInv
  /\ ArchiveIInv /\ [InputNext]_inputVars => ArchiveIInv'
<1>0. MaxMember \in Nat /\ MaxTotal \in Nat
  BY LimitsAssumption
<1>1. ASSUME InputInit PROVE ArchiveIInv
  <2>1. /\ (archive \in Input /\ stage = "stat") \/ stage = "unused"
        /\ latest = <<>> /\ entriesRead = <<>> /\ inflated = 0
    BY <1>1 DEF InputInit, ArchiveInit
  <2> QED BY <1>0, <2>1 DEF ArchiveIInv
<1>2. ASSUME ArchiveIInv, UNCHANGED archiveVars PROVE ArchiveIInv'
  <2>1. EntriesTaken => EntriesTaken'
    BY <1>2, SameEntries DEF EntriesTaken, archiveVars
  <2> QED BY <1>2, <2>1 DEF ArchiveIInv, archiveVars
<1>3. ASSUME ArchiveIInv, NEW p \in {"read", "failed"}, Goto(p),
             stage = "stat" \/ p = "failed"
      PROVE  ArchiveIInv'
  BY <1>3 DEF Goto, ArchiveIInv
<1>4. ASSUME ArchiveIInv, ReplaceFile PROVE ArchiveIInv'
  <2>1. Later \subseteq Input
    BY ArchiveAssumption
  <2> QED BY <1>4, <2>1 DEF ReplaceFile, ArchiveIInv
<1>5. ASSUME ArchiveIInv, Stat PROVE ArchiveIInv'
  BY <1>3, <1>5 DEF Stat
<1>6. ASSUME ArchiveIInv, Read PROVE ArchiveIInv'
  BY <1>6 DEF Read, ArchiveIInv
<1>7. ASSUME ArchiveIInv, ReadDocument PROVE ArchiveIInv'
  <2>1. CASE raw.size > MaxMember
    BY <1>3, <1>7, <2>1 DEF ReadDocument
  <2>2. CASE ~(raw.size > MaxMember)
    <3>1. /\ entriesRead' = <<<<None, raw.size>>>> /\ stage' = "done" /\ stage = "sniff"
          /\ UNCHANGED <<archive, raw, latest, inflated>>
      BY <1>7, <2>2 DEF ReadDocument
    <3>2. raw \in Input /\ raw.size \in Nat /\ latest = <<>>
      BY <1>7, <3>1, Shaped DEF ArchiveIInv
    <3> QED BY <1>0, <1>7, <2>2, <3>1, <3>2 DEF ArchiveIInv
  <2> QED BY <2>1, <2>2
<1>8. ASSUME ArchiveIInv, ReadCentral PROVE ArchiveIInv'
  <2>1. CASE ~raw.central \/ ~Safe(JsonEntries) \/ JsonEntries = <<>>
    BY <1>3, <1>8, <2>1 DEF ReadCentral
  <2>2. CASE ~(~raw.central \/ ~Safe(JsonEntries) \/ JsonEntries = <<>>)
    <3>1. /\ latest' = Latest(JsonEntries) /\ stage' = "entries" /\ stage = "sniff"
          /\ UNCHANGED <<archive, raw, entriesRead, inflated>>
          /\ Safe(JsonEntries) /\ JsonEntries # <<>>
      BY <1>8, <2>2 DEF ReadCentral
    <3>2. raw \in Input /\ entriesRead = <<>>
      BY <1>8, <3>1 DEF ArchiveIInv
    <3>3. JsonEntries \in Seq(Entry)
      BY <3>2, JsonTyped, Shaped
    <3>4. latest' \in Seq(Entry) /\ latest' # <<>>
      <4> DEFINE es == JsonEntries
      <4>1. es \in Seq(Entry) /\ es # <<>>
        BY <3>1, <3>3
      <4>2. Latests(es, Len(es), latest')
        BY <3>1, <3>3, LatestIs
      <4> HIDE DEF es
      <4>3. 1 \in 1..Len(es)
        BY <4>1
      <4>4. latest' \in Seq(Entry) /\ \E j \in 1..Len(latest') : TRUE
        BY <4>2, <4>3 DEF Latests
      <4>5. Len(<<>>) = 0 /\ 1..0 = {}
        OBVIOUS
      <4> QED BY <4>4, <4>5
    <3>5. EntriesTaken'
      <4>1. JsonEntries' = JsonEntries
        BY <3>1, SameEntries
      <4>2. Safe(JsonEntries)' /\ latest' = Latest(JsonEntries)'
        BY <3>1, <4>1 DEF Safe, DeclaredTotal
      <4>3. entriesRead' = <<>> /\ Len(<<>>) = 0 /\ 1..0 = {} /\ Len(latest') \in Nat
            /\ <<>> \in Seq(Entry \X Nat)
        BY <3>1, <3>2, <3>4
      <4> QED BY <4>2, <4>3 DEF EntriesTaken
    <3> QED BY <1>8, <3>1, <3>2, <3>4, <3>5 DEF ArchiveIInv
  <2> QED BY <2>1, <2>2
<1>9. ASSUME ArchiveIInv, ReadEntry PROVE ArchiveIInv'
  <2> DEFINE k == Len(entriesRead) + 1
             e == latest[k]
  <2>1. /\ stage = "entries" /\ Len(entriesRead) < Len(latest)
        /\ latest # <<>> /\ EntriesTaken /\ raw \in Input
    BY <1>9 DEF ReadEntry, ArchiveIInv
  <2>2. /\ latest \in Seq(Entry) /\ entriesRead \in Seq(Entry \X Nat)
        /\ k \in 1..Len(latest) /\ Len(entriesRead) \in Nat /\ Len(latest) \in Nat
        /\ e \in Entry /\ e.declared <= MaxMember
    <3>1. latest \in Seq(Entry) /\ entriesRead \in Seq(Entry \X Nat)
      BY <2>1, LatestSafe DEF EntriesTaken
    <3>2. Len(entriesRead) \in Nat /\ Len(latest) \in Nat
      BY <3>1
    <3>3. k \in 1..Len(latest)
      BY <2>1, <3>2
    <3> QED BY <2>1, <3>1, <3>2, <3>3, LatestSafe DEF EntriesTaken
  <2> HIDE DEF k, e
  <2>3. e.declared \in Nat /\ Output(e) \in Nat /\ (~e.stored => Output(e) <= e.declared + 1)
    BY <2>2, OutputNat DEF Entry
  <2>4. CASE e.broken
    BY <1>3, <1>9, <2>4 DEF ReadEntry, e, k
  <2>5. CASE ~e.broken
    <3>1. /\ inflated' = IF e.stored \/ Output(e) <= inflated THEN inflated ELSE Output(e)
          /\ IF Output(e) > e.declared THEN stage' = "failed" /\ UNCHANGED entriesRead
             ELSE entriesRead' = Append(entriesRead, <<e, Output(e)>>) /\ UNCHANGED stage
          /\ UNCHANGED <<archive, raw, latest>>
      BY <1>9, <2>5 DEF ReadEntry, e, k
    <3>2. inflated' \in Nat /\ inflated' <= MaxMember + 1
      <4>1. inflated \in Nat /\ inflated <= MaxMember + 1
        BY <1>9 DEF ArchiveIInv
      <4>2. e.stored \/ Output(e) <= MaxMember + 1
        BY <1>0, <2>2, <2>3
      <4> QED BY <2>3, <3>1, <4>1, <4>2
    <3>3. CASE Output(e) > e.declared
      BY <1>9, <3>1, <3>2, <3>3 DEF ArchiveIInv
    <3>4. CASE ~(Output(e) > e.declared)
      <4>1. entriesRead' = Append(entriesRead, <<e, Output(e)>>) /\ UNCHANGED stage
        BY <3>1, <3>4
      <4>2. Output(e) <= e.declared
        BY <2>3, <3>4
      <4>3. /\ entriesRead' \in Seq(Entry \X Nat) /\ Len(entriesRead') = k
            /\ entriesRead'[k] = <<e, Output(e)>>
            /\ \A j \in 1..Len(entriesRead) : entriesRead'[j] = entriesRead[j]
            /\ \A j \in 1..k : j # k => j \in 1..Len(entriesRead)
        <5> DEFINE U == Entry \X Nat
                   x == <<e, Output(e)>>
        <5>1. x \in U /\ entriesRead \in Seq(U)
          BY <2>2, <2>3
        <5> HIDE DEF U, x
        <5>2. /\ Append(entriesRead, x) \in Seq(U)
              /\ Len(Append(entriesRead, x)) = Len(entriesRead) + 1
              /\ Append(entriesRead, x)[Len(entriesRead) + 1] = x
              /\ \A j \in 1..Len(entriesRead) : Append(entriesRead, x)[j] = entriesRead[j]
          BY <5>1
        <5>3. \A j \in 1..k : j # k => j \in 1..Len(entriesRead)
          BY <2>2 DEF k
        <5> QED BY <4>1, <5>2, <5>3 DEF U, x, k
      <4>4. EntriesTaken'
        <5>1. JsonEntries' = JsonEntries
          BY <3>1, SameEntries
        <5>2. Safe(JsonEntries)' /\ latest' = Latest(JsonEntries)' /\ latest' = latest
          BY <2>1, <3>1, <5>1 DEF Safe, DeclaredTotal, EntriesTaken
        <5>3. Len(entriesRead') <= Len(latest')
          BY <2>2, <4>3, <5>2
        <5>4. ASSUME NEW j \in 1..Len(entriesRead')
              PROVE  /\ entriesRead'[j] = <<latest'[j], Output(latest'[j])>>
                     /\ Output(latest'[j]) <= latest'[j].declared
          <6>1. CASE j = k
            BY <4>2, <4>3, <5>2, <6>1 DEF e
          <6>2. CASE j # k
            BY <2>1, <4>3, <5>2, <6>2 DEF EntriesTaken
          <6> QED BY <6>1, <6>2
        <5> QED BY <4>3, <5>2, <5>3, <5>4 DEF EntriesTaken
      <4> QED BY <1>9, <2>1, <3>1, <3>2, <4>1, <4>4 DEF ArchiveIInv
    <3> QED BY <3>3, <3>4
  <2> QED BY <2>4, <2>5
<1>10. ASSUME ArchiveIInv, EndEntries PROVE ArchiveIInv'
  <2>1. EntriesTaken => EntriesTaken'
    BY <1>10, SameEntries DEF EndEntries, Goto, EntriesTaken
  <2> QED BY <1>10, <2>1 DEF EndEntries, Goto, ArchiveIInv
<1>11. ASSUME ArchiveIInv, ArchiveNext PROVE ArchiveIInv'
  BY <1>4, <1>5, <1>6, <1>7, <1>8, <1>9, <1>10, <1>11 DEF ArchiveNext
<1> QED BY <1>1, <1>2, <1>11 DEF InputNext, inputVars

\* A name that is in a list has a first place in it.
LEMMA FirstPlace ==
  ASSUME NEW es \in Seq(Entry), NEW p \in 1..Len(es)
  PROVE  LET i == FirstOf(es, es[p].name)
         IN  i \in 1..Len(es) /\ es[i].name = es[p].name
             /\ \A j \in 1..(i - 1) : es[j].name # es[p].name
<1> DEFINE T == {i \in 1..Len(es) : es[i].name = es[p].name}
<1>1. T \in SUBSET Nat /\ p \in T
  OBVIOUS
<1>2. PICK i \in T : \A j \in T : i <= j
  <2> HIDE DEF T
  <2> QED BY <1>1, LeastNumber
<1>3. i \in 1..Len(es) /\ es[i].name = es[p].name /\ DOMAIN es = 1..Len(es) /\ Len(es) \in Nat
  BY <1>2
<1>4. ASSUME NEW j \in 1..(i - 1) PROVE es[j].name # es[p].name
  <2>1. j \in 1..Len(es) /\ ~(i <= j)
    BY <1>3
  <2> QED BY <1>2, <2>1
<1>5. \E x \in DOMAIN es : es[x].name = es[p].name /\ \A j \in 1..(x - 1) : es[j].name # es[p].name
  BY <1>3, <1>4
<1> QED BY <1>3, <1>5 DEF FirstOf

LEMMA LastPlace ==
  ASSUME NEW es \in Seq(Entry), NEW p \in 1..Len(es),
         \A m \in (p + 1)..Len(es) : es[m].name # es[p].name
  PROVE  LastOf(es, es[p].name) = p
<1> DEFINE IsLast(i) == es[i].name = es[p].name
                        /\ \A j \in (i + 1)..Len(es) : es[j].name # es[p].name
<1>1. DOMAIN es = 1..Len(es) /\ Len(es) \in Nat
  OBVIOUS
<1>2. p \in DOMAIN es /\ IsLast(p)
  BY <1>1
<1>3. ASSUME NEW i \in DOMAIN es, IsLast(i) PROVE i = p
  <2>1. i \in 1..Len(es) /\ i \in Nat /\ p \in Nat
    BY <1>1
  <2>2. CASE i < p
    <3>1. p \in (i + 1)..Len(es)
      BY <2>1, <2>2
    <3> QED BY <1>3, <3>1
  <2>3. CASE p < i
    <3>1. i \in (p + 1)..Len(es)
      BY <2>1, <2>3
    <3> QED BY <1>3, <3>1
  <2> QED BY <2>1, <2>2, <2>3
<1>4. LastOf(es, es[p].name) \in DOMAIN es /\ IsLast(LastOf(es, es[p].name))
  BY <1>2 DEF LastOf
<1> QED BY <1>3, <1>4

\* What was read of an archive that is accepted.
LEMMA AllTaken ==
  ASSUME ArchiveIInv, stage = "done", latest # <<>>
  PROVE  /\ DOMAIN entriesRead = 1..Len(latest) /\ Len(latest) \in Nat
         /\ \A k \in 1..Len(latest) :
               LET e == latest[k]
               IN  /\ e \in Entry /\ e.declared <= MaxMember
                   /\ entriesRead[k] = <<e, IF e.stored THEN e.comp ELSE e.expands>>
                   /\ entriesRead[k][2] \in Nat /\ entriesRead[k][2] <= e.declared
         /\ latest \in Seq(Entry) /\ Sum(Declared(latest)) <= MaxTotal
         /\ JsonEntries \in Seq(Entry) /\ Latests(JsonEntries, Len(JsonEntries), latest)
<1>1. raw \in Input /\ EntriesTaken /\ Len(entriesRead) = Len(latest)
  BY DEF ArchiveIInv
<1>2. /\ latest \in Seq(Entry)
      /\ Latests(JsonEntries, Len(JsonEntries), latest)
      /\ \A k \in 1..Len(latest) : latest[k] \in Entry /\ latest[k].declared <= MaxMember
      /\ Sum(Declared(latest)) <= MaxTotal
  BY <1>1, LatestSafe DEF EntriesTaken
<1>3. JsonEntries \in Seq(Entry)
  BY <1>1, JsonTyped, Shaped
<1>4. DOMAIN entriesRead = 1..Len(latest) /\ Len(latest) \in Nat
  <2> DEFINE U == Entry \X Nat
  <2>1. entriesRead \in Seq(U) /\ Len(entriesRead) = Len(latest)
    BY <1>1 DEF EntriesTaken
  <2> HIDE DEF U
  <2> QED BY <2>1
<1>5. ASSUME NEW k \in 1..Len(latest)
      PROVE  LET e == latest[k]
             IN  /\ entriesRead[k] = <<e, IF e.stored THEN e.comp ELSE e.expands>>
                 /\ entriesRead[k][2] \in Nat /\ entriesRead[k][2] <= e.declared
  <2> DEFINE e == latest[k]
  <2>1. e \in Entry /\ entriesRead[k] = <<e, Output(e)>> /\ Output(e) <= e.declared
    BY <1>1, <1>2 DEF EntriesTaken
  <2> HIDE DEF e
  <2>2. e.comp \in Nat /\ e.expands \in Nat /\ e.declared \in Nat
    BY <2>1 DEF Entry
  <2>3. Output(e) = IF e.stored THEN e.comp ELSE e.expands
    BY <2>1, <2>2 DEF Output, Take
  <2>4. Output(e) \in Nat
    BY <2>1, OutputNat
  <2> QED BY <2>1, <2>3, <2>4 DEF e
<1> QED BY <1>2, <1>3, <1>4, <1>5

\* Whatever the entries of an archive declare and expand to, and whatever files
\* take its place meanwhile: no member is read that is larger than a member may
\* be, all together are no larger than an input may be, and the decoder never
\* yields more than a unit over a member (ReadBounded; safe_zip_members,
\* decompress_bounded).
THEOREM ReadsBounded == InputSpec => []ReadBounded
<1>1. ASSUME ArchiveIInv PROVE ReadBounded
  <2>0. MaxMember \in Nat /\ MaxTotal \in Nat /\ MaxMember <= MaxTotal
    BY LimitsAssumption
  <2>1. inflated <= MaxMember + 1
    BY <1>1 DEF ArchiveIInv
  <2> DEFINE sizes == [k \in DOMAIN entriesRead |-> entriesRead[k][2]]
  <2>2. ASSUME stage = "done", latest # <<>>
        PROVE  (\A k \in DOMAIN entriesRead : entriesRead[k][2] <= MaxMember)
               /\ Sum(sizes) <= MaxTotal
    <3>1. /\ DOMAIN entriesRead = 1..Len(latest) /\ Len(latest) \in Nat
          /\ \A k \in 1..Len(latest) :
                /\ latest[k] \in Entry /\ latest[k].declared <= MaxMember
                /\ entriesRead[k][2] \in Nat /\ entriesRead[k][2] <= latest[k].declared
          /\ latest \in Seq(Entry) /\ Sum(Declared(latest)) <= MaxTotal
      BY <1>1, <2>2, AllTaken
    <3>2. \A k \in 1..Len(latest) : latest[k].declared \in Nat
      <4>1. \A e \in Entry : e.declared \in Nat
        BY DEF Entry
      <4> QED BY <3>1, <4>1
    <3>3. \A k \in DOMAIN entriesRead : entriesRead[k][2] <= MaxMember
      BY <2>0, <3>1, <3>2
    <3>4. sizes \in Seq(Nat) /\ Len(sizes) = Len(latest)
          /\ \A k \in 1..Len(latest) : sizes[k] = entriesRead[k][2]
      BY <3>1
    <3>5. /\ Declared(latest) \in Seq(Nat) /\ Len(Declared(latest)) = Len(latest)
          /\ \A k \in 1..Len(latest) : Declared(latest)[k] = latest[k].declared
      BY <3>1, DeclaredType
    <3> HIDE DEF sizes
    <3>6. Sum(sizes) <= Sum(Declared(latest))
      BY <3>1, <3>4, <3>5, SumMonotone
    <3>7. Sum(sizes) \in Nat /\ Sum(Declared(latest)) \in Nat
      BY <3>4, <3>5, SumLoop, TotalsUnique
    <3> QED BY <2>0, <3>1, <3>3, <3>6, <3>7
  <2>3. ASSUME stage = "done", latest = <<>>
        PROVE  (\A k \in DOMAIN entriesRead : entriesRead[k][2] <= MaxMember)
               /\ Sum(sizes) <= MaxTotal
    <3>1. entriesRead = <<<<None, raw.size>>>> /\ raw.size <= MaxMember /\ raw.size \in Nat
      BY <1>1, <2>3, Shaped DEF ArchiveIInv
    <3>2. DOMAIN entriesRead = {1} /\ entriesRead[1][2] = raw.size
      BY <3>1
    <3>3. sizes = Append(<<>>, raw.size)
      BY <3>2
    <3>4. Sum(sizes) = 0 + raw.size
      <4>1. <<>> \in Seq(Nat)
        OBVIOUS
      <4> QED BY <3>1, <3>3, <4>1, SumAppend, SumEmpty
    <3> QED BY <2>0, <3>1, <3>2, <3>4
  <2> QED BY <2>1, <2>2, <2>3 DEF ReadBounded
<1> QED BY <1>1, ArchiveIndInv, PTL DEF InputSpec

\* The members read from an archive that is accepted are, for every name once
\* and in the order in which the names first appear, the whole content of the
\* last entry that has the name (LatestWhole; read_collection_input,
\* read_zip_entry).
THEOREM ReadsLatest == InputSpec => []LatestWhole
<1>1. ASSUME ArchiveIInv, stage = "done", latest # <<>>
      PROVE  LET NameOf(k) == entriesRead[k][1].name
             IN  /\ {NameOf(k) : k \in DOMAIN entriesRead}
                       = {JsonEntries[i].name : i \in DOMAIN JsonEntries}
                 /\ \A j, k \in DOMAIN entriesRead : j < k =>
                       FirstOf(JsonEntries, NameOf(j)) < FirstOf(JsonEntries, NameOf(k))
                 /\ \A k \in DOMAIN entriesRead :
                       LET e == JsonEntries[LastOf(JsonEntries, NameOf(k))]
                       IN  entriesRead[k] = <<e, IF e.stored THEN e.comp ELSE e.expands>>
  <2> DEFINE es == JsonEntries
             n == Len(es)
  <2>1. /\ DOMAIN entriesRead = 1..Len(latest) /\ Len(latest) \in Nat
        /\ \A k \in 1..Len(latest) :
              LET e == latest[k]
              IN  entriesRead[k] = <<e, IF e.stored THEN e.comp ELSE e.expands>>
        /\ es \in Seq(Entry) /\ Latests(es, n, latest)
    BY <1>1, AllTaken
  <2> HIDE DEF es
  <2>2. DOMAIN es = 1..n /\ n \in Nat
    BY <2>1
  <2>3. \A k \in 1..Len(latest) : entriesRead[k][1] = latest[k]
    BY <2>1
  <2>4. {entriesRead[k][1].name : k \in DOMAIN entriesRead} = {es[i].name : i \in DOMAIN es}
    <3>1. \A i \in 1..n : \E j \in 1..Len(latest) : latest[j].name = es[i].name
      BY <2>1 DEF Latests
    <3>2. \A j \in 1..Len(latest) : \E i \in 1..n : es[i] = latest[j]
      BY <2>1 DEF Latests
    <3>3. ASSUME NEW k \in DOMAIN entriesRead
          PROVE  \E i \in DOMAIN es : entriesRead[k][1].name = es[i].name
      BY <2>1, <2>2, <2>3, <3>2
    <3>4. ASSUME NEW i \in DOMAIN es
          PROVE  \E k \in DOMAIN entriesRead : entriesRead[k][1].name = es[i].name
      <4>1. PICK j \in 1..Len(latest) : latest[j].name = es[i].name
        BY <2>2, <3>1
      <4> QED BY <2>1, <2>3, <4>1
    <3> QED BY <3>3, <3>4
  <2>5. ASSUME NEW j \in DOMAIN entriesRead, NEW k \in DOMAIN entriesRead, j < k
        PROVE  FirstOf(es, entriesRead[j][1].name) < FirstOf(es, entriesRead[k][1].name)
    <3>1. j \in 1..Len(latest) /\ k \in 1..Len(latest)
      BY <2>1
    <3>2. PICK i \in 1..n :
             es[i].name = latest[j].name /\ \A m \in 1..i : es[m].name # latest[k].name
      BY <2>1, <2>5, <3>1 DEF Latests
    <3>3. PICK p \in 1..n : es[p] = latest[k]
      BY <2>1, <3>1 DEF Latests
    <3> DEFINE a == FirstOf(es, es[i].name)
               b == FirstOf(es, es[p].name)
    <3>4. a \in 1..n /\ \A m \in 1..(a - 1) : es[m].name # es[i].name
      BY <2>1, FirstPlace
    <3>5. b \in 1..n /\ es[b].name = es[p].name
      BY <2>1, FirstPlace
    <3> HIDE DEF a, b, n
    <3>6. a <= i
      <4>1. i \notin 1..(a - 1)
        BY <3>4
      <4> QED BY <2>2, <3>4, <4>1
    <3>7. i < b
      <4>1. b \notin 1..i
        BY <3>2, <3>3, <3>5
      <4> QED BY <2>2, <3>5, <4>1
    <3>8. a < b
      BY <2>2, <3>4, <3>5, <3>6, <3>7
    <3> QED BY <2>3, <3>1, <3>2, <3>3, <3>8 DEF a, b
  <2>6. ASSUME NEW k \in DOMAIN entriesRead
        PROVE  LET e == es[LastOf(es, entriesRead[k][1].name)]
               IN  entriesRead[k] = <<e, IF e.stored THEN e.comp ELSE e.expands>>
    <3>1. k \in 1..Len(latest) /\ entriesRead[k][1] = latest[k]
      BY <2>1, <2>3
    <3>2. PICK i \in 1..n :
             es[i] = latest[k] /\ \A m \in (i + 1)..n : es[m].name # latest[k].name
      BY <2>1, <3>1 DEF Latests
    <3>3. LastOf(es, es[i].name) = i
      BY <2>1, <3>2, LastPlace
    <3>4. es[LastOf(es, entriesRead[k][1].name)] = latest[k]
      BY <3>1, <3>2, <3>3
    <3> QED BY <2>1, <3>1, <3>4
  <2> QED BY <2>4, <2>5, <2>6 DEF es
<1>2. ArchiveIInv => LatestWhole
  BY <1>1 DEF LatestWhole
<1> QED BY <1>2, ArchiveIndInv, PTL DEF InputSpec
=============================================================================

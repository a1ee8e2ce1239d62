---------------------------- MODULE ArchiveInput ----------------------------
(***************************************************************************)
(* Reading an input that is a file (read_collection_input and the ZIP      *)
(* functions of crates/shanon-core/src/pipeline.rs). The file is measured, *)
(* then read whole, and may be replaced in between; everything after works *)
(* on the bytes that were read, the hash of the map as well.               *)
(*                                                                         *)
(* An entry declares a size, which safe_zip_members bounds, and expands to *)
(* another, which only read_zip_entry sees. Sizes are in units.            *)
(***************************************************************************)
EXTENDS Limits, Sequences, FiniteSets, SequencesExt

CONSTANTS Name,        \* entry names
          JsonName,    \* those that end in .json in lower case
          UnsafeName,  \* absolute ones, ones with .. or a drive
          Input,       \* the files there may be at the path
          Later        \* those another process may put there

\* broken: no local header, a method that is not supported or a stream that
\* does not inflate. comp: the bytes of the member in the archive.
Entry == [name : Name, directory : BOOLEAN, stored : BOOLEAN, broken : BOOLEAN,
          declared : Nat, comp : Nat, expands : Nat]
ASSUME ArchiveAssumption ==
    /\ JsonName \subseteq Name /\ UnsafeName \subseteq Name
    /\ Later \subseteq Input
    \* shaped: it begins like an archive. document: it parses as one document.
    \* central: it has a central directory, with these entries.
    /\ Input \subseteq [size : Nat, shaped : BOOLEAN, document : BOOLEAN,
                        central : BOOLEAN, entries : Seq(Entry)]

VARIABLES archive,      \* what the path names
          stage, raw,
          latest,    \* the entries to read
          entriesRead,   \* what was read: <<entry, size>>
          inflated   \* the largest output of the decoder
archiveVars == <<archive, stage, raw, latest, entriesRead, inflated>>

ArchiveInit ==
    /\ \/ archive \in Input /\ stage = "stat"
       \/ archive = None /\ stage = "unused"    \* the path names a directory
    /\ raw = None
    /\ latest = <<>> /\ entriesRead = <<>> /\ inflated = 0

Goto(p) == stage' = p /\ UNCHANGED <<archive, raw, latest, entriesRead, inflated>>

\* Another process renames a file over the path.
ReplaceFile ==
    /\ stage \in {"stat", "read", "sniff"}
    /\ archive' \in Later
    /\ UNCHANGED <<stage, raw, latest, entriesRead, inflated>>

Stat == stage = "stat" /\ Goto(IF archive.size > MaxTotal THEN "failed" ELSE "read")

Read ==
    /\ stage = "read"
    /\ raw' = archive
    /\ stage' = "sniff"
    /\ UNCHANGED <<archive, latest, entriesRead, inflated>>

\* A bare document is one member; the hash is taken over the same bytes.
ReadDocument ==
    /\ stage = "sniff" /\ ~raw.shaped /\ raw.document
    /\ IF raw.size > MaxMember THEN Goto("failed")
       ELSE /\ entriesRead' = <<<<None, raw.size>>>>
            /\ stage' = "done"
            /\ UNCHANGED <<archive, raw, latest, inflated>>
----------------------------------------------------------------------------
\* The regular ones that end in .json, in their order.
JsonEntries ==
    LET kept[n \in 0..Len(raw.entries)] ==
            IF n = 0 THEN <<>>
            ELSE LET e == raw.entries[n]
                 IN  IF ~e.directory /\ e.name \in JsonName THEN Append(kept[n - 1], e)
                     ELSE kept[n - 1]
    IN  kept[Len(raw.entries)]

\* total += size
Sum(sizes) ==
    LET total[n \in 0..Len(sizes)] == IF n = 0 THEN 0 ELSE total[n - 1] + sizes[n]
    IN  total[Len(sizes)]

DeclaredTotal(es) == Sum([i \in DOMAIN es |-> es[i].declared])

\* Mutant: only single members are bounded.
SafeMembers(es) ==
    /\ Len(es) <= MaxMembers
    /\ \A i \in DOMAIN es : es[i].name \notin UnsafeName /\ es[i].declared <= MaxMember

\* safe_zip_members, duplicates included.
Safe(es) ==
    /\ Len(es) <= MaxMembers
    /\ \A i \in DOMAIN es : es[i].name \notin UnsafeName /\ es[i].declared <= MaxMember
    /\ DeclaredTotal(es) <= MaxTotal

Position(l, e) == {k \in DOMAIN l : l[k].name = e.name}

\* The last duplicate wins at the position of the first.
Retain(l, e) ==
    IF Position(l, e) = {} THEN Append(l, e)
    ELSE [l EXCEPT ![CHOOSE k \in Position(l, e) : TRUE] = e]

Latest(es) ==
    LET upto[n \in 0..Len(es)] == IF n = 0 THEN <<>> ELSE Retain(upto[n - 1], es[n])
    IN  upto[Len(es)]

\* parse_zip_central, safe_zip_members, and the latest of each name.
ReadCentral ==
    /\ stage = "sniff" /\ (raw.shaped \/ ~raw.document)
    /\ IF ~raw.central \/ ~Safe(JsonEntries) \/ JsonEntries = <<>> THEN Goto("failed")
       ELSE /\ latest' = Latest(JsonEntries)
            /\ stage' = "entries"
            /\ UNCHANGED <<archive, raw, entriesRead, inflated>>
----------------------------------------------------------------------------
\* Mutant: the decoder is stopped at the limit, which hides what follows.
TakeLimit(e) == IF e.expands < e.declared THEN e.expands ELSE e.declared

\* decompress_bounded takes one unit more than was declared.
Take(e) == IF e.expands < e.declared + 1 THEN e.expands ELSE e.declared + 1

Output(e) == IF e.stored THEN e.comp ELSE Take(e)

\* read_zip_entry of the next entry.
ReadEntry ==
    /\ stage = "entries" /\ Len(entriesRead) < Len(latest)
    /\ LET e == latest[Len(entriesRead) + 1]
       IN  IF e.broken THEN Goto("failed")
           ELSE /\ inflated' = IF e.stored \/ Output(e) <= inflated THEN inflated ELSE Output(e)
                /\ IF Output(e) > e.declared
                   THEN stage' = "failed" /\ UNCHANGED entriesRead
                   ELSE entriesRead' = Append(entriesRead, <<e, Output(e)>>) /\ UNCHANGED stage
                /\ UNCHANGED <<archive, raw, latest>>

EndEntries == stage = "entries" /\ Len(entriesRead) = Len(latest) /\ Goto("done")

ArchiveNext == ReplaceFile \/ Stat \/ Read \/ ReadDocument \/ ReadCentral \/ ReadEntry \/ EndEntries

ArchiveSpec == ArchiveInit /\ [][ArchiveNext]_archiveVars
----------------------------------------------------------------------------
\* Whatever the entries expand to, no member that is read is larger than a
\* member may be, all of them are within the total, and the decoder never
\* yields more than one unit over the limit of a member (MAX_MEMBER_UNCOMPRESSED,
\* MAX_TOTAL_UNCOMPRESSED, decompress_bounded).
ReadBounded ==
    /\ inflated <= MaxMember + 1
    /\ stage = "done" =>
          /\ \A k \in DOMAIN entriesRead : entriesRead[k][2] <= MaxMember
          /\ Sum([k \in DOMAIN entriesRead |-> entriesRead[k][2]]) <= MaxTotal

\* Where a name first appears in a list of entries, and where it last does.
FirstOf(es, n) == CHOOSE i \in DOMAIN es : es[i].name = n /\ \A j \in 1..(i - 1) : es[j].name # n
LastOf(es, n) == CHOOSE i \in DOMAIN es : es[i].name = n /\ \A j \in (i + 1)..Len(es) : es[j].name # n

\* The members of an archive that is accepted are, one for each name and in the
\* order in which the names first appear, the whole content of the last entry of
\* the name (read_collection_input, read_zip_entry).
LatestWhole ==
    stage = "done" /\ latest # <<>> =>
        LET NameOf(k) == entriesRead[k][1].name
        IN  /\ {NameOf(k) : k \in DOMAIN entriesRead}
                  = {JsonEntries[i].name : i \in DOMAIN JsonEntries}
            /\ \A j, k \in DOMAIN entriesRead : j < k =>
                  FirstOf(JsonEntries, NameOf(j)) < FirstOf(JsonEntries, NameOf(k))
            /\ \A k \in DOMAIN entriesRead :
                  LET e == JsonEntries[LastOf(JsonEntries, NameOf(k))]
                  IN  entriesRead[k] = <<e, IF e.stored THEN e.comp ELSE e.expands>>
=============================================================================

------------------------------- MODULE Publish -------------------------------
(***************************************************************************)
(* Publication of a run's output (crates/shanon-core/src/pipeline.rs and   *)
(* platform.rs): several processes aim at the same paths, every system     *)
(* call of one of them is a step, any of them may fail, and a process may  *)
(* die between two. Discovery, transform and verification are one step     *)
(* here, Work: they touch no file.                                         *)
(*                                                                         *)
(* A file is the run that wrote it and whether it was written whole. A     *)
(* staging directory is one file: partial while members are missing.       *)
(***************************************************************************)
CONSTANTS Run,          \* executions of shanon anonymize
          Dir,          \* output directories
          Out,          \* [Run -> Dir], --out
          Destination,  \* paths of published collections and mapping files
          Collection,   \* [Run -> Destination], collection_anon(.zip) in Out
          Mapping,      \* [Run -> Destination \cup {None}], None: no map asked for
          Place,        \* [Destination -> Dir \cup {None}], None: outside every Dir
          None

VARIABLES pc,           \* the next system call of every run
          files,        \* path -> the file there
          dirs,         \* output directories that exist
          existed,      \* runs that found their output directory
          trouble       \* history: what went wrong for a run

vars == <<pc, files, dirs, existed, trouble>>

Stage(r) == <<"stage", r>>      \* .collection_anon.<hex>.tmp
MapTmp(r) == <<"maptmp", r>>    \* .collection.map.json.<hex>.tmp
Temporary == {Stage(r) : r \in Run} \cup {MapTmp(r) : r \in Run}
Path == Destination \cup Temporary

File == [run : Run, whole : BOOLEAN]

Active == {"checkCollection", "checkMapping", "work", "lookOut", "createOut", "stage",
           "writeMap", "renameMap", "dropMapTmp", "publish", "rollback", "cleanup",
           "removeOut"}
Ended == {"ok", "failed", "dead"}

\* io: a call failed; remove: a clean-up call failed; leak: verification found one.
Trouble == {"io", "remove", "leak", "crash"}

ASSUME RunAssumption == Run # {}
ASSUME OutAssumption == Out \in [Run -> Dir]
ASSUME CollectionAssumption == Collection \in [Run -> Destination]
ASSUME MappingAssumption == Mapping \in [Run -> Destination \cup {None}]
ASSUME PlaceAssumption ==
    /\ Place \in [Destination -> Dir \cup {None}]
    /\ \A r \in Run : Place[Collection[r]] = Out[r]
\* No path is used as a collection by one run and as a mapping file by another,
\* and temporary names are random.
ASSUME PathAssumption ==
    /\ \A r, s \in Run : Collection[r] # Mapping[s]
    /\ Destination \cap Temporary = {}
ASSUME NoneAssumption ==
    /\ None \notin Destination \cup Dir \cup File
----------------------------------------------------------------------------
TypeOK ==
    /\ pc \in [Run -> Active \cup Ended]
    /\ files \in [Path -> File \cup {None}]
    /\ dirs \subseteq Dir
    /\ existed \subseteq Run
    /\ trouble \in [Run -> SUBSET Trouble]

Init ==
    /\ pc = [r \in Run |-> "checkCollection"]
    /\ files = [p \in Path |-> None]
    /\ dirs \in SUBSET Dir
    /\ existed = {}
    /\ trouble = [r \in Run |-> {}]

Free(p) == files[p] = None
Whole(r) == [run |-> r, whole |-> TRUE]
Partial(r) == [run |-> r, whole |-> FALSE]

At(r, step) == pc[r] = step
Go(r, step) == pc' = [pc EXCEPT ![r] = step]
Blame(r, what) == trouble' = [trouble EXCEPT ![r] = @ \cup {what}]

HasMapping(r) == Mapping[r] # None

\* Where a path lies: the temporary of a mapping file lies beside it.
In(p, d) ==
    \/ p \in Destination /\ Place[p] = d
    \/ \E r \in Run : p = Stage(r) /\ Out[r] = d
    \/ \E r \in Run : HasMapping(r) /\ p = MapTmp(r) /\ Place[Mapping[r]] = d

Empty(d) == \A p \in Path : In(p, d) => Free(p)
----------------------------------------------------------------------------
(* anonymize_collection, up to the first write *)

\* Mutant: an existing output directory is refused.
CheckCollectionByDirectory(r) ==
    /\ At(r, "checkCollection")
    /\ Go(r, IF Out[r] \in dirs THEN "failed"
             ELSE IF HasMapping(r) THEN "checkMapping" ELSE "work")
    /\ UNCHANGED <<files, dirs, existed, trouble>>

\* Mutant: the run waits for the collection path to become free.
CheckCollectionWaits(r) ==
    /\ At(r, "checkCollection")
    /\ Free(Collection[r])
    /\ Go(r, IF HasMapping(r) THEN "checkMapping" ELSE "work")
    /\ UNCHANGED <<files, dirs, existed, trouble>>

CheckCollection(r) ==
    /\ At(r, "checkCollection")
    /\ Go(r, IF ~Free(Collection[r]) THEN "failed"
             ELSE IF HasMapping(r) THEN "checkMapping" ELSE "work")
    /\ UNCHANGED <<files, dirs, existed, trouble>>

CheckMapping(r) ==
    /\ At(r, "checkMapping")
    /\ Go(r, IF Free(Mapping[r]) THEN "work" ELSE "failed")
    /\ UNCHANGED <<files, dirs, existed, trouble>>

Work(r) ==
    /\ At(r, "work")
    /\ \/ Go(r, "lookOut") /\ UNCHANGED trouble
       \/ Go(r, "failed") /\ Blame(r, "leak")
    /\ UNCHANGED <<files, dirs, existed>>

\* Mutant: the directory is recorded, not the run that found it.
LookOutByDirectory(r) ==
    /\ At(r, "lookOut")
    /\ Go(r, "createOut")
    /\ existed' = IF Out[r] \in dirs THEN existed \cup {Out[r]} ELSE existed
    /\ UNCHANGED <<files, dirs, trouble>>

LookOut(r) ==
    /\ At(r, "lookOut")
    /\ Go(r, "createOut")
    /\ existed' = IF Out[r] \in dirs THEN existed \cup {r} ELSE existed
    /\ UNCHANGED <<files, dirs, trouble>>

\* create_dir_all: a failure returns at once, there is nothing to clean up.
CreateOut(r) ==
    /\ At(r, "createOut")
    /\ \/ Go(r, "stage") /\ dirs' = dirs \cup {Out[r]} /\ UNCHANGED trouble
       \/ Go(r, "failed") /\ Blame(r, "io") /\ UNCHANGED dirs
    /\ UNCHANGED <<files, existed>>
----------------------------------------------------------------------------
(* stage_directory or write_private_file *)

StageWhole(r) ==
    /\ At(r, "stage")
    /\ Out[r] \in dirs
    /\ files' = [files EXCEPT ![Stage(r)] = Whole(r)]
    /\ Go(r, IF HasMapping(r) THEN "writeMap" ELSE "publish")
    /\ UNCHANGED <<dirs, existed, trouble>>

\* The directory is gone, or the disk is: part of the stage may be there.
StageFails(r) ==
    /\ At(r, "stage")
    /\ Go(r, "cleanup")
    /\ \/ Out[r] \notin dirs /\ UNCHANGED <<files, trouble>>
       \/ /\ Out[r] \in dirs
          /\ \E f \in {None, Partial(r)} : files' = [files EXCEPT ![Stage(r)] = f]
          /\ Blame(r, "io")
    /\ UNCHANGED <<dirs, existed>>
----------------------------------------------------------------------------
(* publish_with_optional_mapping *)

WriteMap(r) ==
    /\ At(r, "writeMap")
    /\ Place[Mapping[r]] \in dirs \cup {None}
    /\ files' = [files EXCEPT ![MapTmp(r)] = Whole(r)]
    /\ Go(r, "renameMap")
    /\ UNCHANGED <<dirs, existed, trouble>>

\* The ? returns: whatever was written of the temporary stays.
WriteMapFails(r) ==
    /\ At(r, "writeMap")
    /\ \E f \in {None, Partial(r)} : files' = [files EXCEPT ![MapTmp(r)] = f]
    /\ Blame(r, "io")
    /\ Go(r, "cleanup")
    /\ UNCHANGED <<dirs, existed>>

\* Mutant: a rename that replaces what it finds.
RenameOver(from, to) ==
    files' = [files EXCEPT ![to] = files[from], ![from] = None]

\* rename_no_replace
Rename(from, to) ==
    /\ Free(to)
    /\ files' = [files EXCEPT ![to] = files[from], ![from] = None]

\* It fails when the destination exists, or for a reason of the system's.
RenameFails(r, to) ==
    /\ IF Free(to) THEN Blame(r, "io") ELSE UNCHANGED trouble
    /\ UNCHANGED files

\* Mutant: the mapping path is rolled back also when this run did not take it.
RenameMapRollsBack(r) ==
    /\ At(r, "renameMap")
    /\ \/ Rename(MapTmp(r), Mapping[r]) /\ Go(r, "publish") /\ UNCHANGED trouble
       \/ RenameFails(r, Mapping[r]) /\ Go(r, "rollback")
    /\ UNCHANGED <<dirs, existed>>

RenameMap(r) ==
    /\ At(r, "renameMap")
    /\ \/ Rename(MapTmp(r), Mapping[r]) /\ Go(r, "publish") /\ UNCHANGED trouble
       \/ RenameFails(r, Mapping[r]) /\ Go(r, "dropMapTmp")
    /\ UNCHANGED <<dirs, existed>>

\* let _ = remove_file(...): a failure is ignored.
Remove(r, p) ==
    \/ files' = [files EXCEPT ![p] = None] /\ UNCHANGED trouble
    \/ ~Free(p) /\ UNCHANGED files /\ Blame(r, "remove")

DropMapTmp(r) ==
    /\ At(r, "dropMapTmp")
    /\ Remove(r, MapTmp(r))
    /\ Go(r, "cleanup")
    /\ UNCHANGED <<dirs, existed>>

\* Mutant: the mapping file is forgotten when the collection cannot land.
AfterRefusalForgetful(r) == "cleanup"

AfterRefusal(r) == IF HasMapping(r) THEN "rollback" ELSE "cleanup"

PublishCollection(r) ==
    /\ At(r, "publish")
    /\ \/ Rename(Stage(r), Collection[r]) /\ Go(r, "ok") /\ UNCHANGED trouble
       \/ RenameFails(r, Collection[r]) /\ Go(r, AfterRefusal(r))
    /\ UNCHANGED <<dirs, existed>>

Rollback(r) ==
    /\ At(r, "rollback")
    /\ Remove(r, Mapping[r])
    /\ Go(r, "cleanup")
    /\ UNCHANGED <<dirs, existed>>
----------------------------------------------------------------------------
(* The error path of anonymize_collection *)

Cleanup(r) ==
    /\ At(r, "cleanup")
    /\ Remove(r, Stage(r))
    /\ Go(r, IF r \in existed THEN "failed" ELSE "removeOut")
    /\ UNCHANGED <<dirs, existed>>

\* remove_dir succeeds on an empty directory only; its error is ignored too.
RemoveOut(r) ==
    /\ At(r, "removeOut")
    /\ \/ /\ dirs' = IF Empty(Out[r]) THEN dirs \ {Out[r]} ELSE dirs
          /\ UNCHANGED trouble
       \/ Out[r] \in dirs /\ Empty(Out[r]) /\ UNCHANGED dirs /\ Blame(r, "remove")
    /\ Go(r, "failed")
    /\ UNCHANGED <<files, existed>>

Step(r) ==
    \/ CheckCollection(r) \/ CheckMapping(r) \/ Work(r) \/ LookOut(r) \/ CreateOut(r)
    \/ StageWhole(r) \/ StageFails(r)
    \/ WriteMap(r) \/ WriteMapFails(r) \/ RenameMap(r) \/ DropMapTmp(r)
    \/ PublishCollection(r) \/ Rollback(r) \/ Cleanup(r) \/ RemoveOut(r)

\* The process is killed between two calls.
Crash(r) ==
    /\ pc[r] \in Active
    /\ Go(r, "dead")
    /\ Blame(r, "crash")
    /\ UNCHANGED <<files, dirs, existed>>

Next == \E r \in Run : Step(r) \/ Crash(r)

Spec == Init /\ [][Next]_vars

\* A process that is not killed goes on with its next call.
FairSpec == Spec /\ \A r \in Run : WF_vars(Step(r))
----------------------------------------------------------------------------
(* Properties *)

Published(r) == files[Collection[r]] = Whole(r)

MapLanded(r) == HasMapping(r) /\ files[Mapping[r]] # None /\ files[Mapping[r]].run = r

\* A run that reports success has published, a collection that can be seen is
\* whole, and the mapping file that reverses it is there: at every later moment
\* and whoever dies, no other run's rollback or rename takes them away.
Paired ==
    \A r \in Run :
        /\ pc[r] = "ok" => Published(r)
        /\ files[Collection[r]] # None => files[Collection[r]].whole
        /\ Published(r) /\ HasMapping(r) => files[Mapping[r]] = Whole(r)

\* A run that reports failure has left neither a collection, nor the mapping
\* file it had already published, nor a staging area, provided the calls that
\* remove them worked. Of the temporary of the mapping file, which holds real
\* names, it has left at most what a failed write had written: nobody removes
\* that part (tests/publish.rs: a failed run leaves nothing behind).
FailureLeavesNoOutput ==
    \A r \in Run :
        pc[r] = "failed" /\ "remove" \notin trouble[r] =>
            /\ files[Stage(r)] = None
            /\ files[Collection[r]] # None => files[Collection[r]].run # r
            /\ ~MapLanded(r)
            /\ files[MapTmp(r)] # None =>
                  files[MapTmp(r)] = Partial(r) /\ "io" \in trouble[r]

\* Runs that only get in each other's way do not all fail: when no call failed,
\* nobody died and nothing leaked, one of them has published.
SomeoneWins ==
    (\A r \in Run : pc[r] \in Ended /\ trouble[r] = {}) => \E r \in Run : pc[r] = "ok"

\* Every run that is not killed returns, with its pair in place or with an error.
Returns == \A r \in Run : <>(pc[r] \in Ended)

\* The files a run publishes: two runs that share one are in conflict.
Aims(r) == {Collection[r], Mapping[r]} \ {None}

Atomic == INSTANCE AtomicPublish WITH
            Conflict <- [r \in Run |-> {s \in Run \ {r} : Aims(r) \cap Aims(s) # {}}],
            published <- {r \in Run : Published(r)},
            refused <- {r \in Run : pc[r] = "failed"}

\* Publication is atomic: what others see of a run is the single instant its
\* collection is renamed, or its refusal, although the code makes a dozen calls.
ImplementsAtomic == Atomic!Spec
=============================================================================

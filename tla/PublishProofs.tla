---------------------------- MODULE PublishProofs ----------------------------
(* Theorems about publication, for any number of runs, any directories and *)
(* any sharing of paths between runs.                                      *)
EXTENDS Publish, TLAPS

\* The paths of two runs never get mixed up.
LEMMA PathsApart ==
    /\ \A r \in Run : /\ Stage(r) \in Path /\ MapTmp(r) \in Path
                      /\ Collection[r] \in Path /\ Collection[r] \in Destination
                      /\ HasMapping(r) => Mapping[r] \in Path /\ Mapping[r] \in Destination
    /\ \A r, s \in Run : /\ Stage(r) = Stage(s) => r = s
                         /\ MapTmp(r) = MapTmp(s) => r = s
                         /\ Stage(r) # MapTmp(s)
                         /\ Collection[r] # Mapping[s]
    /\ \A r \in Run : Stage(r) \notin Destination /\ MapTmp(r) \notin Destination
BY CollectionAssumption, MappingAssumption, PathAssumption
   DEF Stage, MapTmp, Path, Temporary, HasMapping

LEMMA Contents ==
    \A r, s \in Run : /\ Whole(r) \in File /\ Partial(r) \in File
                      /\ Whole(r) # None /\ Partial(r) # None /\ Whole(r) # Partial(s)
                      /\ Whole(r) = Whole(s) => r = s
                      /\ Whole(r).run = r /\ Whole(r).whole /\ Partial(r).run = r
<1> TAKE r \in Run, s \in Run
<1>1. Whole(r) \in File /\ Partial(r) \in File
  BY DEF Whole, Partial, File
<1>2. /\ Whole(r).run = r /\ Whole(s).run = s /\ Whole(r).whole
      /\ Partial(r).run = r /\ Partial(s).whole = FALSE
  BY DEF Whole, Partial
<1>3. Whole(r) # None /\ Partial(r) # None
  BY <1>1, NoneAssumption
<1> QED BY <1>1, <1>2, <1>3

LEMMA InitType == Init => TypeOK
BY DEF Init, TypeOK, Active

LEMMA NextType == TypeOK /\ [Next]_vars => TypeOK'
<1> SUFFICES ASSUME TypeOK, [Next]_vars PROVE TypeOK'
  OBVIOUS
<1> USE PathsApart, Contents DEF TypeOK, Go, Blame, At, Active, Ended, Trouble
<1>1. ASSUME NEW r \in Run, Step(r) PROVE TypeOK'
  <2>1. CASE CheckCollection(r)
    BY <2>1 DEF CheckCollection
  <2>2. CASE CheckMapping(r)
    BY <2>2 DEF CheckMapping
  <2>3. CASE Work(r)
    <3>1. CASE Go(r, "lookOut") /\ UNCHANGED trouble
      BY <2>3, <3>1 DEF Work
    <3>2. CASE Go(r, "failed") /\ Blame(r, "leak")
      BY <2>3, <3>2 DEF Work
    <3> QED BY <2>3, <3>1, <3>2 DEF Work
  <2>4. CASE LookOut(r)
    BY <2>4 DEF LookOut
  <2>5. CASE CreateOut(r)
    BY <2>5, OutAssumption DEF CreateOut
  <2>6. CASE StageWhole(r)
    BY <2>6 DEF StageWhole
  <2>7. CASE StageFails(r)
    BY <2>7 DEF StageFails
  <2>8. CASE WriteMap(r)
    BY <2>8 DEF WriteMap
  <2>9. CASE WriteMapFails(r)
    BY <2>9 DEF WriteMapFails
  <2>10. CASE RenameMap(r)
    BY <2>10 DEF RenameMap, Rename, RenameFails
  <2>11. CASE DropMapTmp(r)
    BY <2>11 DEF DropMapTmp, Remove
  <2>12. CASE PublishCollection(r)
    BY <2>12 DEF PublishCollection, Rename, RenameFails, AfterRefusal
  <2>13. CASE Rollback(r)
    BY <2>13 DEF Rollback, Remove
  <2>14. CASE Cleanup(r)
    <3>1. pc' \in [Run -> Active \cup Ended]
      BY <2>14 DEF Cleanup
    <3>2. files' \in [Path -> File \cup {None}] /\ trouble' \in [Run -> SUBSET Trouble]
      BY <2>14 DEF Cleanup, Remove
    <3> QED BY <2>14, <3>1, <3>2 DEF Cleanup
  <2>15. CASE RemoveOut(r)
    <3>1. dirs' \subseteq Dir
      BY <2>15 DEF RemoveOut
    <3> QED BY <2>15, <3>1 DEF RemoveOut
  <2> QED BY <1>1, <2>1, <2>2, <2>3, <2>4, <2>5, <2>6, <2>7, <2>8, <2>9, <2>10, <2>11,
            <2>12, <2>13, <2>14, <2>15 DEF Step
<1>2. ASSUME NEW r \in Run, Crash(r) PROVE TypeOK'
  BY <1>2 DEF Crash
<1>3. ASSUME UNCHANGED vars PROVE TypeOK'
  BY <1>3 DEF vars
<1> QED BY <1>1, <1>2, <1>3 DEF Next

\* Every path, directory and program counter keeps its type.
THEOREM TypeCorrect == Spec => []TypeOK
BY InitType, NextType, PTL DEF Spec
----------------------------------------------------------------------------
(* The inductive invariant *)

\* Temporary names belong to one run.
TemporariesOwned ==
    \A r \in Run : /\ files[Stage(r)] \in {None, Whole(r), Partial(r)}
                   /\ files[MapTmp(r)] \in {None, Whole(r), Partial(r)}

\* What is about to be renamed has been written whole.
ReadyToRename ==
    \A r \in Run :
        /\ pc[r] \in {"writeMap", "renameMap", "publish"} => files[Stage(r)] = Whole(r)
        /\ pc[r] = "renameMap" => files[MapTmp(r)] = Whole(r)
        /\ pc[r] \in {"checkMapping", "writeMap", "renameMap", "dropMapTmp", "rollback"}
              => HasMapping(r)

\* From its rename to its rollback the mapping path is the run's own: this is
\* why removing it by name cannot hit another run's file.
MappingHeld ==
    \A r \in Run : pc[r] \in {"publish", "rollback", "ok"} /\ HasMapping(r)
                       => files[Mapping[r]] = Whole(r)

\* Only a run that succeeded has its collection in place.
OnlyWinners ==
    \A r \in Run :
        /\ pc[r] = "ok" => Published(r)
        /\ files[Collection[r]] # None =>
              \E w \in Run : pc[w] = "ok" /\ files[Collection[r]] = Whole(w)

\* A mapping file is in place only while its run is publishing, has published,
\* has died, or could not remove it.
MappingAccounted ==
    \A r \in Run : MapLanded(r) => \/ pc[r] \in {"publish", "rollback", "ok", "dead"}
                                    \/ "remove" \in trouble[r]

StageAccounted ==
    \A r \in Run :
        pc[r] \in {"checkCollection", "checkMapping", "work", "lookOut", "createOut",
                   "stage", "removeOut", "failed"} /\ "remove" \notin trouble[r]
            => files[Stage(r)] = None

\* What is left of the temporary of a mapping file is what a failed write left.
MapTmpAccounted ==
    \A r \in Run :
        /\ pc[r] \notin {"renameMap", "dropMapTmp", "dead"} /\ "remove" \notin trouble[r]
              => files[MapTmp(r)] # Whole(r)
        /\ files[MapTmp(r)] = Partial(r) => "io" \in trouble[r]

IInv ==
    /\ TypeOK
    /\ TemporariesOwned
    /\ ReadyToRename
    /\ MappingHeld
    /\ OnlyWinners
    /\ MappingAccounted
    /\ StageAccounted
    /\ MapTmpAccounted

LEMMA InitIInv == Init => IInv
<1> SUFFICES ASSUME Init PROVE IInv
  OBVIOUS
<1> USE PathsApart
<1>1. TypeOK
  BY InitType
<1>2. TemporariesOwned /\ OnlyWinners /\ MappingAccounted /\ StageAccounted
  BY DEF Init, TemporariesOwned, OnlyWinners, MappingAccounted, MapLanded, StageAccounted
<1>4. MapTmpAccounted
  BY Contents DEF Init, MapTmpAccounted
<1>3. ReadyToRename /\ MappingHeld
  BY DEF Init, ReadyToRename, MappingHeld
<1> QED BY <1>1, <1>2, <1>3, <1>4 DEF IInv

LEMMA StepIInv ==
    ASSUME IInv, TypeOK', NEW r \in Run, Step(r)
    PROVE  IInv'
<1> USE PathsApart, Contents
    DEF IInv, TypeOK, TemporariesOwned, ReadyToRename, MappingHeld, OnlyWinners,
        MappingAccounted, StageAccounted, MapTmpAccounted, Published, MapLanded, At, Go, Blame, Free
<1>1. CASE CheckCollection(r)
  BY <1>1 DEF CheckCollection
<1>2. CASE CheckMapping(r)
  BY <1>2 DEF CheckMapping
<1>3. CASE Work(r)
  BY <1>3 DEF Work
<1>4. CASE LookOut(r)
  BY <1>4 DEF LookOut
<1>5. CASE CreateOut(r)
  BY <1>5 DEF CreateOut
<1>6. CASE StageWhole(r)
  BY <1>6 DEF StageWhole
<1>7. CASE StageFails(r)
  BY <1>7 DEF StageFails
<1>8. CASE WriteMap(r)
  BY <1>8 DEF WriteMap
<1>9. CASE WriteMapFails(r)
  BY <1>9 DEF WriteMapFails
<1>10. CASE RenameMap(r)
  BY <1>10 DEF RenameMap, Rename, RenameFails
<1>11. CASE DropMapTmp(r)
  BY <1>11 DEF DropMapTmp, Remove
<1>12. CASE PublishCollection(r)
  BY <1>12 DEF PublishCollection, Rename, RenameFails, AfterRefusal
<1>13. CASE Rollback(r)
  BY <1>13 DEF Rollback, Remove
<1>14. CASE Cleanup(r)
  BY <1>14 DEF Cleanup, Remove
<1>15. CASE RemoveOut(r)
  BY <1>15 DEF RemoveOut
<1> QED BY <1>1, <1>2, <1>3, <1>4, <1>5, <1>6, <1>7, <1>8, <1>9, <1>10, <1>11, <1>12, <1>13, <1>14, <1>15 DEF Step

LEMMA NextIInv == IInv /\ [Next]_vars => IInv'
<1> SUFFICES ASSUME IInv, [Next]_vars PROVE IInv'
  OBVIOUS
<1>1. TypeOK'
  BY NextType DEF IInv
<1>2. ASSUME NEW r \in Run, Crash(r) PROVE IInv'
  BY <1>1, <1>2, PathsApart, Contents
     DEF Crash, IInv, TypeOK, TemporariesOwned, ReadyToRename, MappingHeld, OnlyWinners,
         MappingAccounted, StageAccounted, MapTmpAccounted, Published, MapLanded, Active, Go, Blame
<1>3. ASSUME UNCHANGED vars PROVE IInv'
  BY <1>1, <1>3
     DEF vars, IInv, TypeOK, TemporariesOwned, ReadyToRename, MappingHeld, OnlyWinners,
         MappingAccounted, StageAccounted, MapTmpAccounted, Published, MapLanded
<1> QED BY <1>1, <1>2, <1>3, StepIInv DEF Next

LEMMA Invariant == Spec => []IInv
BY InitIInv, NextIInv, PTL DEF Spec

\* A collection is where a run put it exactly while that run counts as
\* successful.
LEMMA PublishedIsOk ==
    ASSUME IInv, NEW r \in Run
    PROVE  Published(r) <=> pc[r] = "ok"
BY Contents DEF IInv, OnlyWinners, Published

\* No other run's rename or rollback, and no crash, parts a collection from its
\* mapping file, however many runs share paths.
THEOREM AlwaysPaired == Spec => []Paired
<1>1. IInv => Paired
  <2> SUFFICES ASSUME IInv, NEW r \in Run
               PROVE  /\ pc[r] = "ok" => Published(r)
                      /\ files[Collection[r]] # None => files[Collection[r]].whole
                      /\ Published(r) /\ HasMapping(r) => files[Mapping[r]] = Whole(r)
    BY DEF Paired
  <2>1. files[Collection[r]] # None => files[Collection[r]].whole
    BY Contents DEF IInv, OnlyWinners
  <2>2. Published(r) /\ HasMapping(r) => files[Mapping[r]] = Whole(r)
    BY PublishedIsOk DEF IInv, MappingHeld
  <2> QED BY <2>1, <2>2, PublishedIsOk
<1> QED BY <1>1, Invariant, PTL

\* A failed run has left no output if its removals worked.
THEOREM FailureIsClean == Spec => []FailureLeavesNoOutput
<1>1. IInv => FailureLeavesNoOutput
  <2> SUFFICES ASSUME IInv, NEW r \in Run, pc[r] = "failed", "remove" \notin trouble[r]
               PROVE  /\ files[Stage(r)] = None
                      /\ files[Collection[r]] # None => files[Collection[r]].run # r
                      /\ ~MapLanded(r)
                      /\ files[MapTmp(r)] # None =>
                            files[MapTmp(r)] = Partial(r) /\ "io" \in trouble[r]
    BY DEF FailureLeavesNoOutput
  <2>1. files[Stage(r)] = None
    BY DEF IInv, StageAccounted
  <2>2. files[Collection[r]] # None => files[Collection[r]].run # r
    BY Contents DEF IInv, OnlyWinners
  <2>3. ~MapLanded(r)
    BY DEF IInv, MappingAccounted
  <2>4. files[MapTmp(r)] # None =>
            files[MapTmp(r)] = Partial(r) /\ "io" \in trouble[r]
    BY DEF IInv, TemporariesOwned, MapTmpAccounted
  <2> QED BY <2>1, <2>2, <2>3, <2>4
<1> QED BY <1>1, Invariant, PTL

\* Publication is atomic: every run publishes its pair in one step that no
\* conflicting run has taken, or is refused without having published.
THEOREM PublicationAtomic == Spec => ImplementsAtomic
<1> USE DEF Atomic!Init, Atomic!Next, Atomic!vars, Atomic!Publish, Atomic!Refuse
<1>1. Init => Atomic!Init
  BY PathsApart, Contents DEF Init, Published
<1>2. IInv /\ IInv' /\ [Next]_vars => [Atomic!Next]_Atomic!vars
  <2> SUFFICES ASSUME IInv, IInv', [Next]_vars PROVE [Atomic!Next]_Atomic!vars
    OBVIOUS
  <2> DEFINE ok == {r \in Run : pc[r] = "ok"}
             failed == {r \in Run : pc[r] = "failed"}
  <2>1. {r \in Run : Published(r)} = ok /\ {r \in Run : Published(r)}' = ok'
    <3>1. \A r \in Run : Published(r)' <=> pc'[r] = "ok"
      BY Contents DEF IInv, OnlyWinners, Published
    <3> QED BY <3>1, PublishedIsOk
  <2>2. ASSUME NEW r \in Run, PublishCollection(r), pc'[r] = "ok"
        PROVE  \A s \in ok \ {r} : Aims(r) \cap Aims(s) = {}
    <3> SUFFICES ASSUME NEW s \in ok \ {r} PROVE Aims(r) \cap Aims(s) = {}
      OBVIOUS
    <3>1. pc[r] = "publish" /\ Free(Collection[r])
      BY <2>2 DEF PublishCollection, Rename, At, Go, AfterRefusal, IInv, TypeOK
    <3>2. Collection[r] # Collection[s]
      BY <3>1, Contents DEF Free, IInv, OnlyWinners, Published
    <3>3. HasMapping(r) /\ HasMapping(s) => Mapping[r] # Mapping[s]
      BY <3>1, Contents DEF IInv, MappingHeld
    <3> QED BY <3>2, <3>3, PathsApart DEF Aims, HasMapping
  <2>3. ASSUME NEW r \in Run, \E step \in Active \cup Ended : Go(r, step), pc[r] \in Active
        PROVE  \/ ok' = ok /\ failed' = failed
               \/ pc'[r] = "ok" /\ ok' = ok \cup {r} /\ failed' = failed /\ r \notin ok \cup failed
               \/ ok' = ok /\ failed' = failed \cup {r} /\ r \notin ok \cup failed
    BY <2>3 DEF Go, Active, Ended, IInv, TypeOK
  <2>4. ASSUME NEW r \in Run, Step(r) \/ Crash(r)
        PROVE  /\ pc[r] \in Active
               /\ \E step \in Active \cup Ended : Go(r, step)
               /\ pc'[r] = "ok" => PublishCollection(r)
    BY <2>4 DEF Step, Crash, At, Go, Active, Ended, IInv, TypeOK, AfterRefusal,
       CheckCollection, CheckMapping, Work, LookOut, CreateOut, StageWhole, StageFails,
       WriteMap, WriteMapFails, RenameMap, DropMapTmp, PublishCollection, Rollback, Cleanup,
       RemoveOut
  <2>5. ASSUME NEW r \in Run, Step(r) \/ Crash(r) PROVE [Atomic!Next]_Atomic!vars
    BY <2>1, <2>2, <2>3, <2>4, <2>5
  <2>6. ASSUME UNCHANGED vars PROVE [Atomic!Next]_Atomic!vars
    BY <2>1, <2>6 DEF vars
  <2> QED BY <2>5, <2>6 DEF Next
<1> QED BY <1>1, <1>2, Invariant, PTL DEF Spec, ImplementsAtomic, Atomic!Spec
----------------------------------------------------------------------------
(* Somebody wins *)

\* What lies at a mapping path was put there by a run that aims at it.
MappingOwned ==
    \A r \in Run : HasMapping(r) /\ ~Free(Mapping[r]) =>
        \E w \in Run : HasMapping(w) /\ Mapping[w] = Mapping[r] /\ files[Mapping[r]] = Whole(w)

Failing == {"dropMapTmp", "rollback", "cleanup", "removeOut", "failed"}
Calm == \A r \in Run : trouble[r] = {}
Loser == \E r \in Run : pc[r] \in Failing

\* A run that took its mapping path has only a winner to fear.
Winner == \E w \in Run : pc[w] = "ok" \/ (pc[w] = "publish" /\ HasMapping(w))

\* Without trouble a run fails only over another's file or directory, and who
\* holds a file is winning, or lost to one that does.
LostToWinner == Calm /\ Loser => Winner

\* Only a run that failed takes an output directory away.
DirLostToLoser ==
    Calm => \A r \in Run : pc[r] = "stage" /\ Out[r] \notin dirs => Loser

DeadInTrouble == \A r \in Run : pc[r] = "dead" => trouble[r] # {}

WInv == IInv /\ MappingOwned /\ LostToWinner /\ DirLostToLoser /\ DeadInTrouble

LEMMA InitWInv == ASSUME Init PROVE WInv
<1>1. IInv
  BY InitIInv
<1>2. MappingOwned
  BY PathsApart DEF Init, MappingOwned, Free
<1>3. LostToWinner /\ DirLostToLoser /\ DeadInTrouble
  BY DEF Init, LostToWinner, DirLostToLoser, DeadInTrouble, Loser, Failing
<1> QED BY <1>1, <1>2, <1>3 DEF WInv

LEMMA HolderWins ==
    ASSUME WInv, Calm, NEW r \in Run, HasMapping(r), ~Free(Mapping[r])
    PROVE  Winner
<1>1. PICK w \in Run : HasMapping(w) /\ Mapping[w] = Mapping[r] /\ files[Mapping[r]] = Whole(w)
  BY DEF WInv, MappingOwned
<1>2. MapLanded(w)
  BY <1>1, Contents DEF MapLanded
<1>3. pc[w] \in {"publish", "rollback", "ok", "dead"}
  BY <1>2 DEF WInv, IInv, MappingAccounted, Calm
<1>4. pc[w] # "dead"
  BY DEF WInv, DeadInTrouble, Calm
<1>5. pc[w] = "rollback" => Winner
  BY DEF WInv, LostToWinner, Loser, Failing
<1> QED BY <1>1, <1>3, <1>4, <1>5 DEF Winner

LEMMA OccupierWins ==
    ASSUME IInv, NEW r \in Run, ~Free(Collection[r])
    PROVE  \E w \in Run : pc[w] = "ok"
BY DEF IInv, OnlyWinners, Free

\* Trouble is not forgotten.
LEMMA CalmBefore ==
    ASSUME IInv, NEW r \in Run, Step(r), Calm'
    PROVE  Calm /\ UNCHANGED trouble
<1>1. trouble' = trouble \/ \E what : Blame(r, what)
  BY DEF Step, CheckCollection, CheckMapping, Work, LookOut, CreateOut, StageWhole, StageFails,
     WriteMap, WriteMapFails, RenameMap, Rename, RenameFails, DropMapTmp, Remove,
     PublishCollection, Rollback, Cleanup, RemoveOut
<1>2. ~\E what : Blame(r, what)
  BY DEF Blame, Calm, IInv, TypeOK
<1> QED BY <1>1, <1>2 DEF Calm

\* Where a run goes: it ends for good, and from losing it does not come back.
LEMMA WhereTo ==
    ASSUME IInv, NEW r \in Run, Step(r)
    PROVE  /\ pc[r] \in Active /\ pc'[r] # "dead"
           /\ \A s \in Run \ {r} : pc'[s] = pc[s]
           /\ pc[r] \in Failing => pc'[r] \in Failing
BY DEF Step, IInv, TypeOK, At, Go, Active, Failing, CheckCollection, CheckMapping, Work,
   LookOut, CreateOut, StageWhole, StageFails, WriteMap, WriteMapFails, RenameMap,
   DropMapTmp, PublishCollection, Rollback, Cleanup, RemoveOut, AfterRefusal

\* A run loses to one that is winning.
LEMMA LosesToWinner ==
    ASSUME WInv, NEW r \in Run, Step(r), Calm, UNCHANGED trouble,
           pc[r] \notin Failing, pc'[r] \in Failing
    PROVE  Winner
<1>1. pc'[r] = "ok" \/ pc'[r] \in Failing => \A what : ~Blame(r, what)
  BY DEF Blame, Calm, WInv, IInv, TypeOK
<1> USE <1>1 DEF WInv, IInv, TypeOK, At, Go, Failing
<1>2. CASE CheckCollection(r)
  <2>1. ~Free(Collection[r])
    BY <1>2 DEF CheckCollection
  <2> QED BY <2>1, OccupierWins DEF Winner
<1>3. CASE CheckMapping(r)
  <2>1. HasMapping(r) /\ ~Free(Mapping[r])
    BY <1>3 DEF CheckMapping, ReadyToRename
  <2> QED BY <2>1, HolderWins
<1>4. CASE StageFails(r)
  <2>1. Loser
    BY <1>4 DEF StageFails, DirLostToLoser
  <2> QED BY <2>1 DEF LostToWinner
<1>5. CASE RenameMap(r)
  <2>1. HasMapping(r) /\ ~Free(Mapping[r])
    BY <1>5 DEF RenameMap, RenameFails, ReadyToRename
  <2> QED BY <2>1, HolderWins
<1>6. CASE PublishCollection(r)
  <2>1. ~Free(Collection[r])
    BY <1>6 DEF PublishCollection, RenameFails
  <2> QED BY <2>1, OccupierWins DEF Winner
<1>7. CASE Work(r) \/ CreateOut(r) \/ WriteMapFails(r)
  BY <1>7 DEF Work, CreateOut, WriteMapFails
<1>8. CASE LookOut(r) \/ StageWhole(r) \/ WriteMap(r)
  BY <1>8 DEF LookOut, StageWhole, WriteMap
<1>9. CASE DropMapTmp(r) \/ Rollback(r) \/ Cleanup(r) \/ RemoveOut(r)
  BY <1>9 DEF DropMapTmp, Rollback, Cleanup, RemoveOut
<1> QED BY <1>2, <1>3, <1>4, <1>5, <1>6, <1>7, <1>8, <1>9 DEF Step

LEMMA WinnerStays ==
    ASSUME WInv, NEW r \in Run, Step(r), Calm, UNCHANGED trouble, Winner
    PROVE  Winner'
<1>1. PICK w \in Run : pc[w] = "ok" \/ (pc[w] = "publish" /\ HasMapping(w))
  BY DEF Winner
<1>2. CASE w # r
  <2>1. pc'[w] = pc[w]
    BY <1>2, WhereTo DEF WInv
  <2> QED BY <1>1, <2>1 DEF Winner, HasMapping
<1>3. CASE w = r
  <2>1. pc[r] = "publish"
    BY <1>1, <1>3, WhereTo DEF WInv, Active
  <2>2. PublishCollection(r)
    BY <2>1 DEF Step, At, CheckCollection, CheckMapping, Work, LookOut, CreateOut, StageWhole,
       StageFails, WriteMap, WriteMapFails, RenameMap, DropMapTmp, Rollback, Cleanup, RemoveOut
  <2>3. CASE Go(r, "ok")
    BY <2>3 DEF Go, Winner, WInv, IInv, TypeOK
  <2>4. CASE RenameFails(r, Collection[r])
    <3>1. ~Free(Collection[r])
      BY <2>4 DEF RenameFails, Blame, Calm, WInv, IInv, TypeOK
    <3>2. PICK v \in Run : pc[v] = "ok"
      BY <3>1, OccupierWins DEF WInv
    <3>3. pc'[v] = pc[v]
      BY <2>1, <3>2, WhereTo DEF WInv
    <3> QED BY <3>2, <3>3 DEF Winner
  <2> QED BY <2>2, <2>3, <2>4 DEF PublishCollection
<1> QED BY <1>2, <1>3

LEMMA MappingOwnedStays ==
    ASSUME WInv, NEW r \in Run, Step(r)
    PROVE  MappingOwned'
<1> USE PathsApart DEF WInv, IInv, TypeOK, MappingOwned, Free, HasMapping, Go, At
<1>1. CASE UNCHANGED files
  BY <1>1
<1>2. ASSUME NEW p \in Path, NEW f, files' = [files EXCEPT ![p] = f],
             f = None \/ \A s \in Run : HasMapping(s) => Mapping[s] # p
      PROVE  MappingOwned'
  BY <1>2
<1>3. CASE StageWhole(r) \/ StageFails(r) \/ WriteMap(r) \/ WriteMapFails(r)
  <2>1. \/ UNCHANGED files
        \/ \E f : files' = [files EXCEPT ![Stage(r)] = f]
        \/ \E f : files' = [files EXCEPT ![MapTmp(r)] = f]
    BY <1>3 DEF StageWhole, StageFails, WriteMap, WriteMapFails
  <2> QED BY <1>1, <1>2, <2>1
<1>4. CASE DropMapTmp(r) \/ Rollback(r) \/ Cleanup(r)
  <2>1. \/ UNCHANGED files
        \/ \E p \in Path : files' = [files EXCEPT ![p] = None]
    BY <1>4 DEF DropMapTmp, Rollback, Cleanup, Remove, ReadyToRename
  <2> QED BY <1>1, <1>2, <2>1
<1>5. CASE RenameMap(r)
  <2>1. CASE Rename(MapTmp(r), Mapping[r])
    <3>1. HasMapping(r) /\ files[MapTmp(r)] = Whole(r)
      BY <1>5 DEF RenameMap, ReadyToRename
    <3>2. files'[Mapping[r]] = Whole(r)
      BY <2>1, <3>1 DEF Rename
    <3>3. \A s \in Run : HasMapping(s) /\ Mapping[s] # Mapping[r] =>
             files'[Mapping[s]] = files[Mapping[s]]
      BY <2>1, <3>1 DEF Rename
    <3> QED BY <3>1, <3>2, <3>3
  <2> QED BY <1>1, <1>5, <2>1 DEF RenameMap, RenameFails
<1>6. CASE PublishCollection(r)
  <2>1. CASE Rename(Stage(r), Collection[r])
    <3>1. \A s \in Run : HasMapping(s) => files'[Mapping[s]] = files[Mapping[s]]
      BY <2>1 DEF Rename
    <3> QED BY <3>1
  <2> QED BY <1>1, <1>6, <2>1 DEF PublishCollection, RenameFails
<1> QED BY <1>1, <1>3, <1>4, <1>5, <1>6 DEF Step, CheckCollection, CheckMapping, Work, LookOut,
           CreateOut, RemoveOut

LEMMA NextWInv == WInv /\ [Next]_vars => WInv'
<1> SUFFICES ASSUME WInv, [Next]_vars PROVE WInv'
  OBVIOUS
<1>1. IInv'
  BY NextIInv DEF WInv
<1>2. CASE UNCHANGED vars
  BY <1>1, <1>2 DEF vars, WInv, MappingOwned, Free, LostToWinner, DirLostToLoser, DeadInTrouble,
     Calm, Loser, Winner
<1>3. ASSUME NEW r \in Run, Crash(r) PROVE WInv'
  <2>1. ~Calm' /\ UNCHANGED <<files, dirs>>
    BY <1>3 DEF Crash, Blame, Calm, WInv, IInv, TypeOK
  <2>2. DeadInTrouble'
    BY <1>3 DEF Crash, Blame, Go, DeadInTrouble, WInv, IInv, TypeOK
  <2> QED BY <1>1, <2>1, <2>2 DEF WInv, MappingOwned, Free, LostToWinner, DirLostToLoser
<1>4. ASSUME NEW r \in Run, Step(r) PROVE WInv'
  <2>1. /\ pc[r] \in Active /\ pc'[r] # "dead"
        /\ \A s \in Run \ {r} : pc'[s] = pc[s]
        /\ pc[r] \in Failing => pc'[r] \in Failing
    BY <1>4, WhereTo DEF WInv
  <2>2. DeadInTrouble'
    <3>1. \A s \in Run : trouble[s] \subseteq trouble'[s]
      BY <1>4 DEF Step, CheckCollection, CheckMapping, Work, LookOut, CreateOut, StageWhole,
         StageFails, WriteMap, WriteMapFails, RenameMap, Rename, RenameFails, DropMapTmp, Remove,
         PublishCollection, Rollback, Cleanup, RemoveOut, Blame, WInv, IInv, TypeOK
    <3> QED BY <2>1, <3>1 DEF WInv, DeadInTrouble
  <2>3. Loser => Loser'
    BY <2>1 DEF Loser
  <2>4. ASSUME Calm', Loser' PROVE Winner'
    <3>1. Calm /\ UNCHANGED trouble
      BY <1>4, <2>4, CalmBefore DEF WInv
    <3>2. CASE Loser
      BY <1>4, <3>1, <3>2, WinnerStays DEF WInv, LostToWinner
    <3>3. CASE ~Loser
      <4>1. pc[r] \notin Failing /\ pc'[r] \in Failing
        BY <2>1, <2>4, <3>3 DEF Loser
      <4> QED BY <1>4, <3>1, <4>1, LosesToWinner, WinnerStays
    <3> QED BY <3>2, <3>3
  <2>5. ASSUME Calm', NEW s \in Run, pc'[s] = "stage", Out[s] \notin dirs' PROVE Loser'
    <3>1. Calm
      BY <1>4, <2>5, CalmBefore DEF WInv
    <3> SUFFICES ASSUME ~Loser PROVE FALSE
      BY <2>3
    <3>2. ~RemoveOut(r)
      BY DEF RemoveOut, At, Loser, Failing
    <3>3. dirs \subseteq dirs'
      BY <1>4, <3>2 DEF Step, CheckCollection, CheckMapping, Work, LookOut, CreateOut, StageWhole,
         StageFails, WriteMap, WriteMapFails, RenameMap, DropMapTmp, PublishCollection, Rollback,
         Cleanup
    <3>4. pc[s] = "stage" => FALSE
      BY <2>5, <3>1, <3>3 DEF WInv, DirLostToLoser
    <3>5. s = r /\ pc'[r] = "stage"
      BY <2>1, <2>5, <3>4
    <3>6. CreateOut(r)
      BY <1>4, <3>2, <3>5 DEF Step, CheckCollection, CheckMapping, Work, LookOut, StageWhole,
         StageFails, WriteMap, WriteMapFails, RenameMap, DropMapTmp, PublishCollection, Rollback,
         Cleanup, AfterRefusal, Go, WInv, IInv, TypeOK
    <3>7. Out[r] \in dirs'
      BY <3>5, <3>6 DEF CreateOut, Go, WInv, IInv, TypeOK
    <3> QED BY <2>5, <3>5, <3>7
  <2> QED BY <1>1, <1>4, <2>2, <2>4, <2>5, MappingOwnedStays
          DEF WInv, LostToWinner, DirLostToLoser
<1> QED BY <1>2, <1>3, <1>4 DEF Next

\* However many runs aim at however few paths: when nothing but the other runs
\* got in anybody's way, one of them has published.
THEOREM OneWins == Spec => []SomeoneWins
<1>1. WInv => SomeoneWins
  <2> SUFFICES ASSUME WInv, \A r \in Run : pc[r] \in Ended /\ trouble[r] = {}
               PROVE  \E r \in Run : pc[r] = "ok"
    BY DEF SomeoneWins
  <2>1. Calm
    BY DEF Calm
  <2>2. \A r \in Run : pc[r] \in {"ok", "failed"}
    BY DEF WInv, DeadInTrouble, Ended
  <2>3. PICK r \in Run : TRUE
    BY RunAssumption
  <2>4. Loser => Winner
    BY <2>1 DEF WInv, LostToWinner
  <2> QED BY <2>2, <2>3, <2>4 DEF Loser, Failing, Winner
<1> QED BY <1>1, InitWInv, NextWInv, PTL DEF Spec
=============================================================================

-------------------------- MODULE CollectionInput --------------------------
(***************************************************************************)
(* read_collection_input (crates/shanon-core/src/pipeline.rs): a path that *)
(* names a directory is read by DirectoryInput.tla, any other by           *)
(* ArchiveInput.tla.                                                       *)
(***************************************************************************)
EXTENDS DirectoryInput, ArchiveInput

inputVars == <<dirVars, archiveVars>>

\* metadata.is_dir(), asked once.
InputInit == DirInit /\ ArchiveInit /\ (phase = "unused" <=> stage # "unused")

InputNext ==
    \/ DirNext /\ UNCHANGED archiveVars
    \/ ArchiveNext /\ UNCHANGED dirVars

InputSpec == InputInit /\ [][InputNext]_inputVars
=============================================================================

----------------------------- MODULE Collection -----------------------------
(***************************************************************************)
(* The drivers of the engine (crates/shanon-core/src/pipeline.rs): the     *)
(* same members are given to inspect_collection, to anonymize_collection   *)
(* and to anonymize_collection with verbose_failures, each over an engine  *)
(* of its own. A caller of the library may as well call the engine itself, *)
(* in any order. Publication, which follows, is Publish.tla.               *)
(***************************************************************************)
EXTENDS Engine

CONSTANTS Unparsed,    \* members parse_collection_member returns None for
          Finding,     \* what verify_document reports
          Findings,    \* [Document -> Seq(Finding)], what it finds
          MetaType,    \* [Document -> types], casefold(meta.type)
          CoreType,    \* CORE_COLLECTION_TYPES
          Members      \* the inputs: sequences of Document \cup Unparsed

ASSUME CollectionAssumption ==
    /\ Members \subseteq Seq(Document \cup Unparsed)
    /\ Document \cap Unparsed = {}
    /\ Findings \in [Document -> Seq(Finding)]

Run == {"inspect", "terse", "verbose"}

VARIABLES members,     \* raw_members
          run,         \* the run under way, or "library"
          stage,       \* how far it is
          next,        \* the member it is at
          accepted, skipped,
          seen,        \* Preflight: meta types in the order they were observed
          findings,    \* all_findings, or findings of an inspection
          blobs,       \* the members ready to be published
          outcome      \* what each run returned

driver == <<members, run, stage, next, accepted, skipped, seen, findings, blobs>>
collectionVars == <<engineVars, driver, outcome>>

CollectionInit ==
    /\ EngineInit
    /\ \/ ~frozen /\ run = "inspect" /\ members \in Members
       \/ run = "library" /\ members = <<>>
    /\ stage = (IF run = "library" THEN "done" ELSE "discover") /\ next = 1
    /\ accepted = <<>> /\ skipped = <<>> /\ seen = <<>>
    /\ findings = <<>> /\ blobs = <<>>
    /\ outcome = [r \in Run |-> None]
----------------------------------------------------------------------------
(* Errors *)

\* ShanonError::class of From<EngineError>.
Class(e) == CASE e \in {"refused", "collision"} -> "pseudonym-collision"
              [] e \in {"conflict", "unsafe"} -> "unsafe-mapping"
              [] e \in {"frozen", "runtime"} -> "runtime"
              [] e = "value" -> "value"

\* What a run reports is something.
ASSUME MessageAssumption ==
    /\ None # [line |-> "value"]
    /\ \A e \in Errors, at \in Place \cup {None} :
          None # [line |-> "mapping", class |-> Class(e), at |-> at]

\* stderr has one line for the classes of the mapping, stderr_verbose adds
\* the class and the locator.
Stderr(e, verbose) ==
    IF Class(e) = "value" THEN [line |-> "value"]
    ELSE IF verbose THEN [line |-> "mapping", class |-> Class(e), at |-> result.at]
    ELSE [line |-> "mapping"]

NoDocuments == [line |-> "value"]

\* Preflight::missing_core and duplicates.
Missing == CoreType \ {seen[i] : i \in DOMAIN seen}
Duplicates == {seen[i] : i \in {j \in DOMAIN seen : \E k \in 1..(j - 1) : seen[k] = seen[j]}}

Report(fs, abort) ==
    [accepted |-> Len(accepted), skipped |-> skipped, findings |-> fs, abort |-> abort,
     missing |-> Missing, duplicates |-> Duplicates]

Abort(fs, message) == [published |-> <<>>, findings |-> fs, abort |-> message]

Finish(value) ==
    /\ stage' = "done"
    /\ outcome' = [outcome EXCEPT ![run] = value]
    /\ UNCHANGED <<members, run, next, accepted, skipped, seen, findings, blobs>>

\* An inspection reports an engine error, a real run returns it: what it had
\* collected until then is gone.
FinishWith(e) ==
    Finish(IF run = "inspect" THEN Report(findings, Stderr(e, TRUE))
           ELSE Abort(<<>>, Stderr(e, run = "verbose")))
----------------------------------------------------------------------------
(* Discovery *)

Member == members[next]

SkipMember ==
    /\ stage = "discover" /\ next <= Len(members) /\ Member \in Unparsed
    /\ skipped' = Append(skipped, Member)
    /\ next' = next + 1
    /\ UNCHANGED <<engineVars, members, run, stage, accepted, seen, findings, blobs, outcome>>

\* Preflight::observe comes before the engine sees the document.
DiscoverMember ==
    /\ stage = "discover" /\ next <= Len(members) /\ Member \notin Unparsed
    /\ DiscoverDocument(Member)
    /\ stage' = "discovering"
    /\ seen' = Append(seen, MetaType[Member])
    /\ UNCHANGED <<members, run, next, accepted, skipped, findings, blobs, outcome>>

Accept ==
    /\ stage = "discovering" /\ call = Idle
    /\ UNCHANGED engineVars
    /\ IF result.error # None THEN FinishWith(result.error)
       ELSE /\ accepted' = Append(accepted, Member)
            /\ next' = next + 1
            /\ stage' = "discover"
            /\ UNCHANGED <<members, run, skipped, seen, findings, blobs, outcome>>

\* An input without documents is an error of every run.
EndDiscovery ==
    /\ stage = "discover" /\ next > Len(members)
    /\ IF accepted = <<>>
       THEN Finish(Abort(<<>>, NoDocuments)) /\ UNCHANGED engineVars
       ELSE /\ FinalizeDiscovery
            /\ stage' = "finalizing"
            /\ UNCHANGED <<members, run, next, accepted, skipped, seen, findings, blobs, outcome>>

Finalized ==
    /\ stage = "finalizing" /\ call = Idle
    /\ UNCHANGED engineVars
    /\ IF result.error # None THEN FinishWith(result.error)
       ELSE /\ stage' = "transform" /\ next' = 1
            /\ UNCHANGED <<members, run, accepted, skipped, seen, findings, blobs, outcome>>
----------------------------------------------------------------------------
(* Transform and verify *)

TransformMember ==
    /\ stage = "transform" /\ next <= Len(accepted)
    /\ TransformDocument(accepted[next])
    /\ stage' = "verify"
    /\ UNCHANGED <<members, run, next, accepted, skipped, seen, findings, blobs, outcome>>

Found == Findings[accepted[next]]

\* Mutant: a verbose run publishes what passed beside what did not.
VerifyAndPush ==
    /\ stage = "verify" /\ call = Idle
    /\ UNCHANGED engineVars
    /\ IF result.error # None THEN FinishWith(result.error)
       ELSE IF run = "terse" /\ Found # <<>> THEN Finish(Abort(<<Found[1]>>, None))
       ELSE /\ findings' = IF run = "verbose" THEN findings ELSE findings \o Found
            /\ blobs' = IF Found = <<>> THEN Append(blobs, accepted[next]) ELSE blobs
            /\ stage' = "transform" /\ next' = next + 1
            /\ UNCHANGED <<members, run, accepted, skipped, seen, outcome>>

\* Mutant: an inspection goes on after an abort.
VerifyOnwards ==
    /\ stage = "verify" /\ call = Idle
    /\ UNCHANGED engineVars
    /\ IF result.error # None /\ run # "inspect" THEN FinishWith(result.error)
       ELSE IF run = "terse" /\ Found # <<>> THEN Finish(Abort(<<Found[1]>>, None))
       ELSE /\ findings' = findings \o Found
            /\ blobs' = IF Found = <<>> THEN Append(blobs, accepted[next]) ELSE blobs
            /\ stage' = "transform" /\ next' = next + 1
            /\ UNCHANGED <<members, run, accepted, skipped, seen, outcome>>

\* A real run stops at the first finding unless it is verbose, and pushes no
\* blob for a member with findings; an inspection collects.
VerifyMember ==
    /\ stage = "verify" /\ call = Idle
    /\ UNCHANGED engineVars
    /\ IF result.error # None THEN FinishWith(result.error)
       ELSE IF run = "terse" /\ Found # <<>> THEN Finish(Abort(<<Found[1]>>, None))
       ELSE /\ findings' = findings \o Found
            /\ blobs' = IF Found = <<>> THEN Append(blobs, accepted[next]) ELSE blobs
            /\ stage' = "transform" /\ next' = next + 1
            /\ UNCHANGED <<members, run, accepted, skipped, seen, outcome>>

EndTransform ==
    /\ stage = "transform" /\ next > Len(accepted)
    /\ UNCHANGED engineVars
    /\ Finish(IF run = "inspect" THEN Report(findings, None)
              ELSE IF findings # <<>> THEN Abort(findings, None)
              ELSE [Abort(<<>>, None) EXCEPT !.published = blobs])

\* The operator runs the next command: a new process, a new engine.
NextRun ==
    /\ stage = "done" /\ run \in {"inspect", "terse"}
    /\ run' = IF run = "inspect" THEN "terse" ELSE "verbose"
    /\ mapped' = old /\ kept' = oldKept /\ frozen' = FALSE
    /\ parked' = None /\ templates' = {} /\ targets' = {} /\ snapshot' = None
    /\ locator' = None /\ call' = Idle /\ result' = Ok /\ discovered' = {}
    /\ stage' = "discover" /\ next' = 1
    /\ accepted' = <<>> /\ skipped' = <<>> /\ seen' = <<>>
    /\ findings' = <<>> /\ blobs' = <<>>
    /\ UNCHANGED <<old, oldKept, members, outcome>>

\* Any public call of the engine, whatever came before it.
CallLibrary ==
    /\ run = "library" /\ EngineNext
    /\ UNCHANGED <<driver, outcome>>

CollectionNext ==
    \/ SkipMember \/ DiscoverMember \/ Accept \/ EndDiscovery \/ Finalized
    \/ TransformMember \/ VerifyMember \/ EndTransform \/ NextRun
    \/ EngineStep /\ UNCHANGED <<driver, outcome>>
    \/ CallLibrary

CollectionSpec == CollectionInit /\ [][CollectionNext]_collectionVars
----------------------------------------------------------------------------
\* How many of the first n members parse.
ParsedUpTo(n) == Cardinality({k \in 1..n : members[k] \notin Unparsed})
Ended(r) == outcome[r] # None
WouldPublish == outcome["inspect"].findings = <<>> /\ outcome["inspect"].abort = None

\* Every member that parsed, in the order they were read, and nothing was found
\* in any of them.
Whole(published) ==
    /\ Len(published) = ParsedUpTo(Len(members))
    /\ \A k \in DOMAIN members : members[k] \notin Unparsed =>
          published[ParsedUpTo(k)] = members[k]
    /\ \A i \in DOMAIN published : Findings[published[i]] = <<>>

\* A run that publishes publishes every member that parsed, in the order they
\* were read, and the verifier found nothing in any of them.
PublishedWhole ==
    \A r \in {"terse", "verbose"} :
        Ended(r) /\ outcome[r].published # <<>> => Whole(outcome[r].published)

\* What inspect_collection says is what anonymize_collection does with the same
\* registry, whatever depends on the order of discovery: it publishes exactly
\* when the inspection says so, and otherwise gives the first finding of the
\* inspection, or its abort when there is none, and nothing else. A verbose run
\* gives all of the findings, but an abort that follows is all it gives.
DryRunAgrees ==
    \A r \in {"terse", "verbose"} : Ended(r) =>
        LET dry == outcome["inspect"]
            real == outcome[r]
        IN  /\ WouldPublish <=> real.published # <<>>
            /\ r = "terse" /\ dry.findings # <<>> =>
                  real.findings = <<dry.findings[1]>> /\ real.abort = None
            /\ r = "terse" /\ dry.findings = <<>> =>
                  /\ real.findings = <<>>
                  /\ IF dry.abort = None THEN real.abort = None
                     ELSE real.abort = [line |-> dry.abort.line]
            /\ r = "verbose" /\ dry.abort # None => real.abort = dry.abort /\ real.findings = <<>>
            /\ r = "verbose" /\ dry.abort = None => real.abort = None /\ real.findings = dry.findings
=============================================================================

# TLA+ verification of shanon

shanon anonymizes SharpHound collections: it replaces every real SID, GUID, name
and path of an Active Directory collection by a pseudonym, keeps the table of
replacements in a mapping file, verifies its own output against that table, and
publishes collection and mapping together or not at all. This directory models
that program in TLA+, checks the models with TLC and proves the main results
with TLAPS. All paths below are relative to `src/crates/`.

## 1. Inventory

| component | code | state | operations | what makes it hard |
|---|---|---|---|---|
| Pseudonym registry | `shanon-core/src/registry.rs` | forward table, three indexes, legacy aliases, preloaded sources, frozen flag and fingerprint | build/load, `map`, `bind`, `map_many`, `freeze`, queries | four tables patched by hand in five places; spellings arrive in any order; digests may collide; a map from an earlier run constrains this one |
| Structured transforms | `components.rs` | none (writes the registry through `RegistryOps`) | `transform_sid`, `_domain`, `_guid`, UPN, email, DN, path, URL, SPN, template, OID | a SID binds its parents; the intent (keep or replace the last arc) depends on evidence; parts taken for syntax are copied |
| Engine | `engine.rs` | registry, policy, template and domain-RID evidence, verification snapshot, abort locator | `discover_document`, `finalize_discovery`, `transform_document`, `visit_node` | two passes that must agree; evidence found late; registry errors and the locator of the leaf parked in fields; public calls in any order |
| Verifier | `verify.rs` | none (reads the frozen registry) | `verify_document` | derives every expected value independently of the engine, from the source and from the output path |
| Collection reading | `pipeline.rs`, `platform.rs` | none | `read_collection_input`, `dir_input_hash`, ZIP parser, anchored reads | a directory is enumerated and read twice while others may edit it; declared and inflated sizes are bounded apart |
| Publication | `pipeline.rs`, `platform.rs` | the file system | `anonymize_collection`, `publish_with_optional_mapping`, `rename_no_replace` | several processes, failing calls, killed processes |
| Inspection | `pipeline.rs` | the `Preflight` of a run | `inspect_collection` | must predict what `anonymize_collection` will do, with loops of its own |
| Scrub and restore | `scrub.rs`, `restore.rs` | none | `bulk_scrub`, `bulk_restore` | literals that contain one another, or a pseudonym that contains its source |
| Policy, catalog, fields | `policy.rs`, `catalog.rs`, `fields.rs` | constant tables, an audit | `resolve`, `declares`, numeric sentinels | routing, shape checks and fallbacks must accept no value a transform cannot parse |
| Text utilities | `casefold.rs`, `ignorecase.rs`, `patterns.rs`, `textutil.rs` | none | case folding, patterns | character data |
| Canonical JSON, digests | `lib.rs` | none | `canonical_json`, `seed_int` | serialization |
| Progress | `progress.rs`, `shanon-cli/src/progress.rs` | reporter state behind a mutex | event sink | display only |
| Command line | `shanon-cli/src/main.rs` | none | `inspect`, `anonymize`, `restore`, `scrub` | order of the gates |

How they interact: the command line loads a registry (new, or from
`--reuse-map`) and calls `anonymize_collection`. That reads the members, has the
engine discover every document, closes discovery, transforms each document
(the engine calls the structured transforms, which call `map` and `bind`),
freezes the registry, has the verifier derive every value again from the same
registry, and publishes. Everything inside one process is sequential; processes
meet only in the file system.

What makes each component correct:

- **registry**: the indexes never drift from the forward table; no two
  identities share a pseudonym and none has two; what a loaded map named stays
  named; a name of a version 1 map is not reused; nothing moves after `freeze`;
  the owner of an identity does not depend on the order spellings were seen in.
- **publication**: a visible collection has its mapping beside it; a failed run
  publishes nothing; a run never destroys another's files; every run returns.
- **transforms**: a child's pseudonym lies under its parent's; the result does not depend on the order of members.
- **engine**: an error the registry trait cannot return surfaces in the call
  that met it, with the locator of its own leaf; after discovery is closed
  nothing is allocated; a discovered document transforms but for two kinds of leaf.
- **policy, transforms, gate**: no part of a value that names something is
  copied; a legal collection is not refused for one odd attribute; a reference
  is rewritten as its object is.
- **verifier**: any fault in an output or in the records of it gives a finding,
  and an output without fault gives none.
- **drivers**: a run publishes every member or none; an inspection says what a
  run would do.
- **reading**: a member is one version of one file; what is hashed is what was
  anonymized; limits are exact.
- **scrub, restore**: a scrubbed text restores to what was typed and a second
  scrub changes nothing, under stated conditions; the scan ends.

## 2. Modules

| module | models |
|---|---|
| `PseudonymStore` | abstract: a partial injective assignment that grows, may be corrected for SIDs of this run, and is sealed |
| `Registry`, `MCRegistry`, `RegistryProofs` | `registry.rs`, two small worlds for it, its theorems, among them that it implements the store |
| `AtomicPublish` | abstract: a run publishes a pair or is refused |
| `Publish`, `MCPublish`, `PublishProofs` | publication per system call, two small worlds, its theorems |
| `SidBinding`, `MCSidBinding`, `SidProofs` | `transform_sid` and the RID evidence of the engine, over `Registry`; small collections; its theorems |
| `Engine` | the life of an engine: every public call, the walk, parked errors, locators |
| `Collection`, `MCCollection`, `CollectionProofs` | the drivers `inspect_collection` and `anonymize_collection` over `Engine`; documents of every fate; theorems of drivers and engine |
| `Transforms` | the structured transforms as operators on strings of symbols |
| `Policy` | `FieldPolicy::resolve`, shape checks, routing, numeric sentinels, over `Transforms` |
| `LeafGate`, `MCLeafGate`, `LeafProofs` | one leaf through policy, engine and the shape check of the gate; every kind of rule; its theorems, among them lemmas about every transform |
| `Verifier`, `MCVerifier`, `VerifierProofs` | the leak gate over an output in which one thing may be spoiled; small documents; its theorems |
| `Limits` | the bounds on an input |
| `DirectoryInput` | reading and hashing a directory another process edits |
| `ArchiveInput` | reading a ZIP archive or a bare document |
| `CollectionInput`, `MCInput` | `read_collection_input`: either of the two; small directories and archives |
| `InputProofs` | theorems about reading a directory, and an archive |
| `Scrub`, `MCScrub` | `bulk_scrub` and `bulk_restore`; maps and texts |
| `Loops` | lemmas about loops, folds and concatenations that the proof modules share |

Three compositions: `SidBinding` extends `Registry`, so that each of its
registry calls is the action `Map`, `Bind` or `Freeze` of that module;
`Collection` extends `Engine`, so that a driver takes a step of the engine or
one of its own; `LeafGate` extends `Policy` and `Transforms`. Two abstract
specifications are implemented: `PseudonymStore` by `Registry` and
`AtomicPublish` by `Publish`. `Collection` ends where `Publish` begins: the
step `Work` of `Publish`, which gives blobs or a finding, stands for the whole
of `Collection` and `CollectionInput`.

### Registry

| model | code |
|---|---|
| `categories` | `categories`: real spelling to pseudonym |
| `owners`, `normalizedOwners`, `normalizedSources` | the fields of the same names |
| `legacyReverseAliases`, `preloadedSources` | the fields of the same names |
| `frozen`, `frozenSnapshot` | `frozen`, `frozen_fingerprint` (the fingerprinted tables instead of their digest) |
| `outcome`, `asked` | how the last call returned; which spellings were answered (history) |
| `Map`, `Bind`, `MapMany`, `Freeze` | the methods; one disjunct per way of returning |

The code keys every table by category first. A value of the model is a
(category, string) pair, so one set of tables stands for all eight categories;
`Norm`, the normal form of `normalize_mapping_identity`, never relates two of
them. `Candidate` is the seeded generator, and may map two values to
one candidate: that is a collision of truncated digests. `Rank` is the order of
`source_spelling_key`. `Init` allows every map that `build` accepts, so
`--reuse-map` with any valid map is an initial state.

An error return changes nothing in the tables (`Refuse`). `map` and
`map_many` look for the owner in different places, the index and a rebuild from
the forward table; the model keeps the difference, and `IndexesAgree` says it
does not matter.

### SID binding

| model | code |
|---|---|
| `collection`, `undiscovered`, `unvisited` | the accepted members; what the current pass has still to walk |
| `targets` | `catalog_domain_rid_targets` |
| `unsettled` | the sorted keys `finalize_discovery` iterates over |
| `job` | the locals of the `transform_sid` call under way; one registry call is one step |
| `output` | what the transform pass wrote for each occurrence |
| `BeginDocument` | `process_document` up to the walk, with `remember_domain_rid_target` |
| `DiscoverLeaf` | `visit` in the discovery pass: `remember_referenced_domain_rid`, the deferral, the replay of evidence |
| `Preserves` | `apply_discovered_domain_rid_evidence` |
| `CallWorked`, `CallFailed` | a registry call of `transform_sid`; a parked error drained by `check_registry` |
| `EndDiscovery`, `SettleTarget`, `CloseDiscovery` | `finalize_discovery` |
| `TransformLeaf`, `EndTransform` | `visit` in the transform pass |

A SID is the sequence of its arcs after `S-1-5-21`, the three arcs of the domain
counted as one. What policy and catalog, which are tables, say of an occurrence
are its attributes: whether the catalog permits the RID at its path
(`declared`), whether evidence from elsewhere may be used there (`applies`), and
whether the value is more than the SID (`embedded`: a SID behind a domain, a
name, a DN). Evidence is not used at an object's own `ObjectIdentifier`, whose
rule has no namespace, nor for SIDs in names and DNs, which `transform_sid` is
given with `preserve` false (`Preserves`, `engine.rs:568`). Documents and
the occurrences in one are visited in any order, because members are named by
the collector and keys come in the order of the JSON text. After an error the
code still makes the remaining calls of one `transform_sid` before it drains the
error and returns; nobody reads the registry afterwards, so the model stops at
the error. `Init` allows every map an earlier run over the SIDs in `Covered`
can have written (`EarlierMap`).

### Publication

| model | code |
|---|---|
| `files` | the staging area, the temporary of the mapping file, the published collection and mapping of every run |
| `dirs`, `existed` | output directories that exist; runs for which `out_dir_existed` was true |
| `pc` | the next system call of `anonymize_collection` |
| `trouble` | history: a failed call, a failed removal, a finding, a kill |
| `CheckCollection`, `CheckMapping` | the two `exists()` checks |
| `Work` | reading, discovery, transform, verification (these touch no output file) |
| `LookOut`, `CreateOut` | `out_dir.exists()`, `create_dir_all` |
| `StageWhole`, `StageFails` | `write_private_file` of the ZIP, `stage_directory` |
| `WriteMap`, `WriteMapFails`, `RenameMap`, `DropMapTmp`, `PublishCollection`, `Rollback` | `publish_with_optional_mapping` |
| `Cleanup`, `RemoveOut` | the error path |
| `Crash` | a killed process |

A run's destination `Collection[r]` and mapping path `Mapping[r]` are
constants, so any sharing of paths between runs, across directories too, is an
instance. Parents that `create_dir_all` creates above the output directory are
not modelled, nor is the loss of unsynced data on power failure (the code never
calls fsync, so nothing is promised there). `rename_no_replace` is modelled as
the atomic call it is on Linux (`renameat2`), macOS (`renamex_np`) and Windows
(`MoveFileEx` without replace).

### Engine

| model | code |
|---|---|
| `mapped`, `kept`, `frozen` | the registry, reduced to which values it maps, which SIDs below a domain keep their RID, and whether it is frozen |
| `old`, `oldKept` | the reused map, in the same terms |
| `parked` | `trait_error` of the registry, the error `RegistryOps` could not return |
| `templates`, `targets`, `snapshot` | `template_originals`, `catalog_domain_rid_targets`, `verification_context` |
| `locator` | `abort_locator` |
| `call`, `result` | the locals of the public call under way; what the last one returned |
| `discovered` | history: the documents discovery accepted |
| `DiscoverDocument`, `FinalizeDiscovery`, `TransformDocument`, `VisitNode`, `RefuseDiscovery` | the public calls, with `ensure_discovery_open` |
| `ProjectKey`, `KeyCollision` | `project_output_key` and the check for two keys with one pseudonym |
| `SkipLeaf`, `RefuseNumber`, `MapOpaque`, `VisitTemplate`, `DeferSid`, `BridgePart`, `CheckRegistry`, `EndWalk` | `visit`, one registry call per step |
| `Remembered`, `Keeps` | `remember_referenced_domain_rid`, `apply_discovered_domain_rid_evidence` |
| `MapTemplates`, `SettleTarget`, `Freeze`, `RefuseFreeze` | `finalize_discovery` |

A document is the sequence of its leaves in the order of the walk, a leaf the
kind of thing `visit` does with it, the values that go to the registry
(`parts`), the SID the whole string spells (`spells`), the SID whose evidence
may be used there (`sid`; none in a name or at an own identifier) and whether the
catalog keeps its RID at the path (`evidence`). A SID below a domain is bound
with the intent the leaf has for it, corrected while the registry is open, and
refused when it is frozen or preloaded with the other intent (`BindError`). `BridgePart` is a registry call that cannot
fail: the error is parked, the source value goes into the output under
construction, and `check_registry` after the leaf is what stands between it and
the caller. The finalize calls assume `preserve_core_global_defaults` on, as in
every configuration the command line builds.

### Collection

| model | code |
|---|---|
| `members`, `accepted`, `skipped`, `seen`, `findings`, `blobs` | the locals of the two drivers |
| `run` | which of inspect, anonymize, anonymize with `verbose_failures` is under way over the same members, or "library" |
| `outcome` | what each returned |
| `SkipMember`, `DiscoverMember`, `Accept`, `EndDiscovery`, `Finalized` | the discovery loops of both drivers |
| `TransformMember`, `VerifyMember`, `EndTransform` | the transform loops |
| `NextRun` | the next command: a new engine |
| `CallLibrary` | a caller of the crate uses the engine directly, in any order |

What the verifier finds in a member is a constant (`Findings`): `Verifier` says
how it comes about. Both drivers are one set of actions with branches on `run`,
because the code of both was found to differ only there; the two loops were
compared line by line. On the command line an inspection takes no map, so
`DryRunAgrees` relates runs over the same registry, which is what a library
caller can do.

### Policy, transforms and leaf gate

A string is a sequence of symbols: separators (`@ . : / , = + - $` and the backslash), the
identifiers (a SID of a domain, a well-known SID, a GUID, an OID), attribute
types, words of the organization (`w`, `v`) and words anyone has (`local`,
`name`, a number). A pseudonym is the symbol of its category, so what a
transform copied is still there to be seen. A rule is its operation, namespace
and kind of path; what the catalog permits there is a set of values, and whether
it knows the RIDs of a domain's SIDs there is `rids`. The tables themselves are
constants, and what the theorems assume of them is in named ASSUMEs:
`TablesAssumption` is what `default_rules_with` declares (an identity has one of
four namespaces, a reference one of four, an identifier one of three, the path
of a secret maps a name at most, the functional level is opaque),
`ConstantsAssumption` that what catalog and schema keep is a word of the product
or a well-known identifier, `InputAssumption` that what is read is no SPN of a
host that already has its pseudonym. Nothing is assumed of the paths at which
the catalog keeps a value: they differ, and `EdgesSurvive` is about that.

| model | code |
|---|---|
| `Domain`, `Sid`, `Guid`, `Oid`, `NameToken`, `SamAccountName`, `Email`, `UpnName`, `DnsHostName`, `AdLocalGroupName`, `Dn`, `Spn` | `transform_*` of `components.rs` |
| `Routed`, `SourceShapeSupports`, `Fallback`, `Resolve` | `routed_identifier_namespace`, `source_shape_supports`, `resolve` |
| `Redacted`, `Parses`, `Sentinel` | which numbers are redacted (the functional level always), `redact_undeclared_number` and `redact_functional_level_number`, `numeric_sentinel` |
| `MapIdentity`, `MapReference`, `MapCustomIdentifier`, `Applied` | the methods of the engine |
| `OutputShapeValid` | the function of the gate |
| `Number`, `DecideString`, `Apply`, `Gate` | a leaf on its way |

### Verifier

`VerifierInit` is a source document with a faultless output and records
(`Transformed`, `Recorded`, what `visit` writes) or with one `fault`: a value,
a type, a key or a record changed, dropped, doubled or added, a forged record
that agrees with a forged output, a registry that is not frozen, not valid or
lacks a mapping, evidence that names a stranger. The actions are the phases of
`verify_document` in its order: `CheckTrust`, `CheckSource`, `CheckTargets`,
`ProjectSource`, `Compare` (over `Union`, every path of either side), `Strings`,
`CheckLeaves`, `CheckExtra`. A finding is its policy code and path.

### Reading

| model | code |
|---|---|
| `dir`, `file`, `edits` | the file system, edited by another process between any two system calls |
| `List`, `Inspect`, `Inspected` | `safe_directory_members` |
| `OpenMember`, `ReadChunk`, `CloseMember` | `read_directory_member_anchored`, `read_bounded` |
| `EndReading` | the second listing for `dir_input_hash` |
| `archive`, `raw`, `latest`, `entriesRead`, `inflated` | the path, the bytes read from it, the entries kept and read, the largest output of the decoder |
| `Stat`, `Read`, `ReadDocument`, `ReadCentral`, `ReadEntry`, `EndEntries` | the branch of `read_collection_input` for files |

Sizes are in units of which a member holds at most two. An edit of a file
changes its modification time, which the check after a read relies on; two
writes within the granularity of the clock that leave the size alone are not
seen by the code either. The descriptors are the ones of the Unix backend; the
Windows backend makes the same checks on handles.

### Scrub

`Replace` and `Decline` are one iteration of the loop of `run_pass`, `EndPass`
the end of a pass, `Again` an operator who scrubs the result. `SpansOf` is
`pseudonym_spans`, `Bounded` is `is_bounded`, `Restore` is `bulk_restore`. The
four exact categories are one category here, and so are the folded ones. The
counts of the report and its canary `unresolved` are left out: pattern and
`forward` fold alike here.

## 3. Runs

| run | bounds | checks |
|---|---|---|
| `registry_accounts` | 5 spellings of 4 identities, 3 pseudonyms | `ReverseUnambiguous`, `SpellingOrderFree`, `AnswersStand` |
| `registry_sids` | 3 SIDs (2 spellings of one), 4 pseudonyms, 1 historical name | `TypeOK`, `IndexesAgree`, `HistoricalNamesReserved`, `FrozenTransforms`, `PreloadedStable`, `FrozenImmutable`, `ImplementsStore` |
| `publish_race` | 2 runs, 1 directory, 2 mapping paths, with fairness | `TypeOK`, `FailureLeavesNoOutput`, `Returns` |
| `publish_cross` | 3 runs, 2 directories, 1 shared mapping path | `Paired`, `SomeoneWins`, `ImplementsAtomic` |
| `sid_orders` | 6 SIDs of one domain, every collection of up to 3 documents with 8 occurrences, no reused map | `OutputOrderFree`, `EvidenceSettled` |
| `sid_reuse` | 8 occurrences, every reused map over 4 of the SIDs, no prefixed spelling | `SidTypeOK`, `RefusalOrderFree` |
| `sid_prefixed` | 2 occurrences, one prefixed, every reused map | `RefusalOrderFree`, violated |
| `collection_runs` | 9 documents of up to 3 leaves; inputs of up to 2 of them or an unparsable member, of 3 out of 4 of them; 3 maps an earlier run may have left; every sequence of library calls | `EngineTypeOK`, `ToldWhere`, `FallbackReported`, `ClosedForGood`, `DiscoveredTransforms`, `PublishedWhole`, `DryRunAgrees` |
| `input_reads` | a directory of 3 paths and 3 inodes with 2 edits, 394 archives and bare documents of up to 4 entries; limits of 2 units a member, 3 in total, 3 members | `MembersCoherent`, `HashOfMembers`, `InputWhole`, `ReadBounded`, `LatestWhole` |
| `scrub_texts` | 6 maps, every text of up to 4 characters of 7, two rounds, with fairness | `RoundTrip`, `Idempotent`, `ScanEnds` |
| `leaf_gate` | 27 kinds of rule and an undeclared path, 345 strings at each, every number | `NothingLeaks`, `LeafPasses`, `EdgesSurvive` |
| `verifier_gate` | documents of 1 or 2 slots over 39 scalars, every single fault | `FaultFound`, `HonestPasses` |

Why the bounds are enough. In the accounts world there are two spellings of one
identity (so ownership can be taken over), two values whose candidates collide
up to case, a value whose candidate is itself, and a candidate that looks like
another real value; a batch may hold any subset. In the SID world a SID can be
bound with its last arc kept or replaced under two parents, to a historical
name, or to itself, so every return of `bind` occurs. Nothing is symmetric:
`Rank` and `Norm` distinguish the values. The tables are finite, so no counter
needs a bound.

In the SID worlds one group has a bare, a prefixed and a declared occurrence and,
in the other world, one as an object's own identifier; an account is an object
of a document, is only referenced in another and stands in a name; and a SID
lies below an account with and without evidence. The collection is any set of
the documents. That is every combination of evidence before, after and
without a first binding. One domain is enough: no call relates SIDs of two
domains but through a collision of candidates, which the accounts world has.

In the publication worlds two runs are enough for every race on one path; the
third run and the second directory add a mapping path shared across
directories and a run without a mapping. Each run is finite, so the state space
is without further bounds.

In the collection world every kind of leaf occurs, a leaf has one refused part
between others, a SID stands where its evidence is used, where it is not, above
another and as a text that is mapped as such, and a document fails in discovery,
at its templates, in finalize, at the freeze, in the transform pass, in
verification, or not at all;
two members put any failure before, after and beside any other, and three give a
finding followed by an abort. The directory world has two members, a rename over
one between any two calls, and an edit before and after another; two edits are
what it takes to change a file and change it back. Archives have a declared size
below, at and over every limit with contents below, at and over it, and names
twice and three times. The bound on the number of members is reached by
archives only. In the scrub world a literal contains another, shares its
beginning with one, overlaps one, stands inside its own pseudonym, begins with a
character of no word, or hides a shorter one; the pseudonym of a SID is that of
its domain and an arc, and some pseudonyms begin or end with a character of no word. Four
characters are enough for two literals side by side and one on each side of a
separator. Two slots are enough for the verifier, which treats paths one by one
but for the record and key sets; faults are single because the gate has to find
the first.

`CHECK_DEADLOCK FALSE` is given in the runs whose system ends: a run that has
returned, a document that is verified, an input that is read.

Fairness. `FairSpec` of `Publish` assumes weak fairness of each run's next call:
the code is straight-line, so a process the operating system keeps scheduling
reaches its next call. A kill is never fair or forced. `ScrubSpec` assumes weak
fairness of its next step: `run_pass` is a loop of one thread that waits for
nothing. Nothing else needs fairness.

What the runs show.

- The three indexes never drift, so `validate_trust_root` fails only for a SID
  bound to itself by a correction, which the correction path of `bind` does not
  check and `freeze` refuses (`FrozenTransforms`).
- A registry loaded from a map never moves what the map named, in any order of
  calls; other accounts never change an answer once given; SIDs of this run may
  be corrected, and the correction is visible in the abstract store as its own
  action.
- `Publish` implements `AtomicPublish`: others see a run's pair appear at one
  instant. The reason is that the mapping is renamed first and cannot be
  replaced while it is there, so the rollback, which removes by path, can only
  remove the run's own file.
- What a run writes for a SID is a function of the collection and the salt
  (`OutputOrderFree`), although discovery binds with the evidence it happens to
  have: the correction in `finalize_discovery` repairs every early binding. Where
  no value is spelled with a domain prefix and no candidates collide, a run is
  refused, in every order, exactly if one of three things is in the collection
  (`Conflicted`, `RefusalOrderFree`): a RID there is evidence for that the
  mapping file moved; an occurrence that cannot use the evidence the RID was
  kept by; a SID below one that keeps its RID, whose pseudonym stays under the
  old one of its parent.
- `sid_prefixed`: the deferral in `visit` looks the value up as it is spelled,
  so a `<DOMAIN>-<SID>` value is not deferred. With a reused map that kept the
  RID the run is refused when that occurrence is met before the declared one,
  and completes otherwise, against the test that evidence "must not depend on
  which member (...) the walk reaches first".
- No call of the engine returns Ok after a value was written through
  (`FallbackReported`), an error of a walk never names another leaf
  (`ToldWhere`), and the transform of a discovered document fails exactly at two
  kinds of leaf (`DiscoveredTransforms`): one that has to replace a RID that is
  kept, by evidence it cannot use or by a reused map (`Contradicted`), and one
  discovery left alone because it spells a mapped SID although its rule maps it
  as something else (`Overlooked`). A RID that is to be kept is never found
  replaced.
- An inspection and a run over the same registry agree (`DryRunAgrees`).
- A member is never torn, whatever is edited when: the two `fstat`s and the
  length of what was read are all needed (`MembersCoherent`). The hash in the
  mapping file is of the published members if nothing was edited in between
  (`HashOfMembers`), and of something else otherwise.
- No word of the organization survives a transform at any kind of path
  (`NothingLeaks`), and the verifier finds any single fault (`FaultFound`).
- A scrub is undone by a restore (`RoundTrip`) but in texts in which it composed
  a pseudonym nobody typed (`Composed`), and a second scrub changes nothing
  (`Idempotent`) but in texts in which names run together (`RunTogether`). Both
  conditions are needed: without them TLC finds texts of four characters.

Where code and documents disagree. The first is the violated run; the others
are stated exactly in properties that hold, so that a change of the code either
way is noticed.

- `RefusalOrderFree` in `sid_prefixed`, above.
- A leaf can stop a whole run (`Stops` in `LeafGate`, and `LeafPasses` says that
  exactly these do), although the comment at `policy.rs:841` has the policy "never hand a
  structured transform a value it cannot parse, which used to abort the run": an
  SPN whose port
  is empty or doubled; an at sign in a name whose path has no domain part
  (a sAMAccountName, a displayname); an identifier where a domain or template
  is referred to by name; beyond i64 a functional level, or in a run that
  redacts those an undeclared integer (`policy.rs:346`, `engine.rs:1070`).
- A SID spelled with its domain is one to the engine's pattern and not to the
  policy's: pseudonymized at `ObjectIdentifier`, redacted where a rule asks for
  a SID, so its edge is lost; `shanon-core/tests/inspect.rs:72` has such a
  principal. A well-known SID such as `S-1-5-32-544` is kept at the four paths of
  `catalog.rs:299` and mapped at the other paths that refer to an object
  (`policy.rs:1447`), and the GUID of a default policy is kept at the object and
  the link to it only (`catalog.rs:731`): an edge between a path of either sort
  is lost too. `EdgesSurvive` says that these are the only ones.
- The gate asks `declares` about the path in the output, the engine about the
  path in the source. With redaction of undeclared numbers on, a declared number
  under a key in another case is copied by one and refused by the other. With
  redaction off it is a functional level under such a key: the engine, which
  folds the case (`engine.rs:1070`), writes a sentinel, and the gate, which does
  not (`verify.rs:1246`), refuses it. These two are `Disputed` in `Verifier`,
  and `HonestPasses` says that nothing else is.
- A run refuses well-formed collections, some without any reused map
  (`registry.rs:998`): a map written under other evidence fixes a well-known RID
  that is now, or no longer, at a declared path; a SID that keeps its RID also
  stands in a name or a DN (`components.rs:204`, `:417`), or is the own
  identifier of an object without a catalog entry (`engine.rs:588`); a SID lies
  below such an account (`components.rs:161`). `Conflicted` in `SidBinding` is the
  exact condition.
- The deferral of `engine.rs:1124` does not ask what the rule of the path does. A
  description or template name that is, as a whole, a SID met before is left
  out of discovery and the frozen registry then refuses it; met first, it is
  mapped. So whether such a collection is published depends on the order, against
  the comment of `domain_rid_evidence.rs:147` (`Overlooked`, which
  `DiscoveredTransforms` names).
- `scrub.rs:98` says that everything inside a pseudonym is inert and that this
  makes a scrub idempotent, and `tests/scrub.rs:25` tests one text. Where
  `server` and `(old)` are both names, the second of them is no word of its own
  in `server(old)`; if the pseudonym of the first ends with a bracket, as those
  of opaque values do, it is one in the scrubbed text, and the second scrub
  replaces it (`RunTogether`). The comment at `scrub.rs:41` says that a shorter
  alternative at the same position is still reachable. The scan resumes one
  character later, so it is not, and what it names stays (the map `Hidden`).
- `scrub.rs:98` also has a scrub safe on texts that mix real names with
  pseudonyms. The pseudonym of a child SID is that of its parent and an arc, so
  a parent that is typed in front of a generated arc is scrubbed to the
  pseudonym of the child, and restored to the child (`Composed`).
- A run that fails while the temporary of its mapping file is written leaves
  that file behind (`pipeline.rs:1606`), against `shanon-core/tests/publish.rs:1`;
  `FailureLeavesNoOutput` allows a temporary in exactly that case.
- With `verbose_failures` the findings of earlier members are dropped when the
  transform of a later one fails (`pipeline.rs:1446`); `DryRunAgrees` says so.

Two more were met while modelling and no property is about them: an inspection
that ends in discovery lists the types of the members it did not reach as
missing (`pipeline.rs:1116` and the comment at 1007), and an error while
`finalize_discovery` settles SIDs carries the locator of the last leaf discovery
walked (`engine.rs:1374`; `ToldWhere` is about errors of a walk).

Behaviour the models show and no document promises otherwise: a process killed
between the two renames leaves a mapping file without a collection, and later
runs with that path are refused by `CheckMapping`; when two failing runs share a
directory neither may remove it, because the second one found it existing.

## 4. Proofs

The theorems hold for every value of the constants that satisfies the named
ASSUMEs of the module that declares them; TLC evaluates these in every run.

- `Registry`: types; `Rank` is injective (the last component of
  `source_spelling_key` is the spelling itself); spellings of one SID have the
  same arcs.
- `Publish`: there is a run; no path is one run's collection and another's
  mapping; temporary names are distinct (random 8 byte tokens).
- `SidBinding`: types; a SID without its last arcs is a SID; the engine passes
  SIDs in upper case, so a SID has one spelling; `sid_subauthority` never
  returns the arc it replaces; a domain is mapped to a domain, and whatever
  `transform_sid` puts together under a pseudonym is one.
- `Engine`, `Collection`: types; the parts of a leaf are those its kind has, and
  the SID whose evidence counts is one of them (`LeavesAssumption`); a domain is
  no SID below one; the order of keys is one; `None` is nothing
  else, in particular no message of a run (`MessageAssumption`); what the
  verifier finds in a document is a sequence of findings.
- `DirectoryInput`, `ArchiveInput`, `Limits`: types; the order of paths is one;
  a directory has finitely many JSON files; a member may be no larger than all
  together (512 MiB and 2 GiB, `pipeline.rs:33`).
- `LeafGate`: what is said of the tables above, with the lines they come from.
- `Verifier`: a slot is well formed and holds its own text; the stranger of a
  fault is no text, name or target of the document.

Every inductive invariant below was evaluated by TLC too, over the reachable
states of the run of its component, before it was proved.

**Registry** (`RegistryProofs`). The inductive invariant is

    IInv == TypeOK /\ IndexesAgree /\ ReverseUnambiguous
            /\ HistoricalNamesReserved /\ LoneSpelling
            /\ PreloadedKnown /\ FrozenSealed

`IndexesAgree` alone is not inductive: that a patched index equals a rebuilt one
needs that an identity has one spelling in the table (`LoneSpelling`) and that a
pseudonym has one owner (`ReverseUnambiguous`), for otherwise removing one owner
would uncover another. The proof reduces the four tables to the relation
"s owns p" (`AgreeIsOwns`), shows that both `map` and `map_many` are the same
abstract change, entering a set of spellings (`Enters`, `EntersPreserves`), and
that the correction is another (`RebindPreserves`). From `IInv` follow
`TypeCorrect`, `IndexesNeverDrift`, `ReversalUnambiguous`, `HistoryReserved`,
`FrozenMapTransforms`, and the action properties `ReuseStable`,
`AnswersNeverChange` and `FreezeSeals`. They hold of the registry under any
caller; that `SidBinding` is one is `RunsTheRegistry`, below.

**Publication** (`PublishProofs`). The inductive invariant says who may have
written each file at each program counter: temporaries hold only their owner's
file, a stage about to be renamed is whole, a run past its first rename still
holds its mapping path (`MappingHeld`), only runs that returned ok have a
collection, and a temporary of the mapping file that is whole is one its run is about to
rename or to remove, one that is partial is the trace of a failed write
(`MapTmpAccounted`). From it follow `TypeCorrect`, `AlwaysPaired`, `FailureIsClean` and
the refinement `PublicationAtomic`: `PublishCollection` maps to `Publish`, the
steps to "failed" map to `Refuse`, every other step stutters.

`OneWins` needs more than the files and their owners: that whoever lost did so to
somebody. `WInv` adds that the file at a mapping path is some run's that aims at
it (`MappingOwned`), that without trouble a run fails only while another has
published or holds a mapping path it is about to publish beside
(`LostToWinner`), and that an output directory is taken away only by a run that
failed (`DirLostToLoser`). None of the three is inductive alone: a run may lose
to a loser, and what saves the claim is that the holder of a mapping path
fails only over a collection that is there.

**Refinement of the store** (also in `RegistryProofs`). Every initial table is an
initial store, and then one lemma for each way the tables move: `Entering`, which
`map`, `map_many` and a first `bind` do, is `Assign` (`EnteringAssigns`); the
correction of a SID is `Correct`; a freeze is `Seal`; every other return
stutters. What the mapping reads is the source index, so each step uses that the
index agrees with the table before and after it, which is `IInv`.

**SIDs of a run** (`SidProofs`). The claim is `OutputIsOrderFree`: although
discovery binds with the evidence it happens to have, what a completed run
writes is a function of collection and salt. The inductive invariant is

    SidIInv == IInv /\ SidTypeOK /\ ShapeOK /\ KeptOK
               /\ JobOK /\ TargetsOK /\ SettledOK /\ WrittenOK

`ShapeOK` says that the table holds for a SID one of the same length that ends
in its own last arc or in the other one; `KeptOK` that nothing but evidence or
the mapping file keeps an arc; `TargetsOK` that the evidence is what discovery
went past, so all there is once it has ended; `SettledOK` that what
`finalize_discovery` went past keeps its arc; `JobOK` and `WrittenOK`
that in the transform pass a call under way, and what is written, is as expected
arc by arc, and that no SID above it keeps its last arc (`Through`). `KeptOK`
and `SettledOK` together are `EvidenceIsSettled`. Neither is enough for the
output: a SID below an account takes its parent's pseudonym as it was when it was
bound, and only the refusal of `consistent_sid_hierarchy` in the transform pass
makes parent and child agree (`CallHits`, `OneArcMore`). The same refusal gives
`CompletesUnconflicted`: a collection with a conflict of any of the three kinds
is never published. For an occurrence that was written kept no arc above its
last, and its last exactly if it may (`Through`), and what the table holds by
then is what the evidence or the mapping file settled.

`RunsTheRegistry` shows that every step of a run is a step of `Registry` or
leaves it alone, which needs that the arguments `transform_sid` puts together are
ones the registry takes (`CallIsNext`). So every theorem about the registry holds
of a run; `RunReuseStable` says so of the one about reused maps. That the map a
run starts with has the shape of a run's own is an induction over the length of
SIDs, by a shortest counterexample (`Shortest`, `EarlierShape`).

**Engine and drivers** (`CollectionProofs`). The engine's public
calls return in the middle of the drivers' steps and of any library caller's,
so its lemmas are about single steps (`StepKeeps`, `CallsKeep`) and the drivers
are put around them. `EngineIInv` says what a call under way may be (`CallOK`);
that an error is parked exactly while the leaf it arose at is being bridged and
names that leaf (`ParkedOK`); that templates are mapped before the freeze; and
what discovery leaves behind for every leaf it went past (`DiscoveryOK`): its
parts are mapped, or will be by the templates, or it spells a SID that is, and
its evidence is remembered. `SettledOK` adds that what `finalize_discovery` has
settled keeps its RID. `CollectionIInv` adds where a
driver is: the accepted documents are the members read so far without those that
did not parse (`AcceptsPrefix`), and the blobs are those accepted and found
clean. From them follow `ToldWhereItArose`, `FallbacksReported`, `StaysClosed`,
`DiscoveredGoThrough` and `PublishesWhole`. `FallbacksReported` is the claim
about the error channel: the fallback `RegistryOps` writes when a call fails
never leaves the engine in an `Ok`. `DiscoveredGoThrough` needs the whole of
`DiscoveryOK`, which is why discovery is followed leaf by leaf and part by part,
and that the leaves a transform walk went past are neither `Contradicted` nor
`Overlooked` (`WalkFits`), which makes the two kinds exact.

`DryRunHolds` relates an inspection to runs that end long after it, each with an
engine of its own, so no state holds what is to be compared. The argument is that
the runs of an input have no choice but where to stop. `Now` is what the rest of
a run depends on: the tables, the call, where the driver is and what it found.
`After` is a function, and every step of every run takes `Now` to `After(Now)`
(`EngineFollows` for the steps of the engine, `RunGoesOn`); every run begins at
the same `Start`, since each command makes a new engine over the same registry and
members. `Reaches` is the smallest relation closed under `After`, and a run stops
at one state at most (`StopsOnce`), since `After` leaves such a state where it
is. Only a terse run stops elsewhere, at the first finding; findings are added at
their end (`FindingsAfter`), so its one is the first of whatever run goes on from
there (`FirstStays`, `FoundFirst`). `Retold` says of the run under way that it is
at a state `Start` reaches, and of each that ended that it returned what a run
returns that stops at such a state; `RetoldAgrees` concludes. `Retold` is kept
together with `CollectionIInv`, whose types make `After` what it is.

**Directory** (`InputProofs`). `MembersCoherent` follows from a clock
(`ClockOK`, every edit leaves a newer time) and from `ReadingOK`: while the time
of the open file is what the first `fstat` saw, what was read of it is a prefix
of what it holds. For a directory that is quiet `QuietOK` says that listing and
members are what is there, `Progress` how far each of the two reads is, and
`HashFollows` that what was hashed is the members so far in their order.
Together they are `DirIInv`; `ReadsWhole` and `HashesWhatIsRead` follow. The
listing is declared as the sorted sequence of paths; that there is one and only one
is proved (`CanBeSorted`).

**Archive** (also in `InputProofs`). `Sum`, `DeclaredTotal` and `Latest` are loops, and
the prover has no induction over them with an operator as parameter: `Loop` gives
every loop its sequence of states, `Climb` and `Agree` are induction over it as
a set (these three are in `Loops`). With them `LatestIs` says what the loop over the central directory ends
with, `RetainKeeps` how one round keeps it, `SumMonotone` that a total within the
limit bounds its parts. `ArchiveIInv` says that what was read so far is the
entries to be read, in order, each as long as it declares at most; from it
follow `ReadsBounded` and `ReadsLatest`.

**Gate** (`VerifierProofs`). `GateIInv` says that the findings are there exactly if
one of the phases gone through makes one, each phase being a function of what
the gate was given; so at the end they are empty exactly if the output is
`Clean`. `HonestPass` is then about one state, the faultless output, and
`FindsFault` one case for each kind of fault (`TopologyCase`, `TextCase`,
`RetypeCase`, `LacksCase`, `RecordCase`): what it spoils is what some phase
compares, for a document of any number of slots.

**Leaf gate** (`LeafProofs`). The stages a leaf goes through are simple
(`GateIInv`, which is `GateInvariant`); what has to be proved is about the
functions they apply, for strings of any length and every table of rules. The
operators behind them split a string at a symbol, map every part and join them
again, and `Loops` gives a fold the sequence of its states, so that `SplitType`,
`SplitJoin`, `SplitConcat` and the rest are inductions over the length.

- `NothingLeaksHolds`: one lemma for each transform says that every symbol of
  what it returns is a separator, a pseudonym or a word anyone has
  (`AppliedClean` puts them together). Only two transforms copy a part of what
  they are given, the one of an account's suffix and the one of an SPN's
  service, and in both the part must be shown to be no name.
- `EdgesSurviveHolds`: `ConstantIdentifier` and `IdentifierWritten` say what is
  written of an identifier at any path that holds one, from whether the catalog
  keeps it there and whether its shape is one the rule asks for; `WrittenAlike`
  compares two paths, and gives both directions of the equivalence.
- `LeafPassesHolds` says that policy, transform and gate parse alike, and has a
  lemma per operation (`IdentityPasses`, `DnPasses`, `SpnPasses`, `GroupPasses`,
  `CustomPasses`, `ReferencePasses`, together `StringPasses`). The hard one is the
  DN. The transform splits where no backslash precedes the separator
  (`split_unescaped`); the shape of the gate splits at every separator. So a
  segment of the transform may be several pieces of the gate, and each of them
  has to be filled: `SegmentPiece` relates the two, `ComponentFilled` says what
  the transform makes of one component, and `NothingEscaped` that no backslash
  is left for the gate to stumble over.

What stays with TLC, and why:

- The first half of `RefusalOrderFree`, that a refused run had a conflict: the
  registry also refuses a collision of the generator, so this half holds of
  worlds without one, and it is violated for prefixed spellings
  (`sid_prefixed`). The second half is `CompletesUnconflicted`.
- `RoundTrip` and `Idempotent` of the scrub relate two scans of a text, the second
  over what the first has left, whose positions have nothing in common; the
  conditions they state, `Composed` and `RunTogether`, were found with TLC.
- `Returns` and `ScanEnds` are liveness under fairness, which this prover does
  not treat.

## 5. Not modelled

- **Catalog tables** (`catalog.rs`, the tables of `fields.rs` and `policy.rs`):
  constant data. The models take one rule of every kind, and what the catalog
  permits as an attribute of it.
- **Text utilities** (`casefold.rs`, `ignorecase.rs`, `patterns.rs`,
  `textutil.rs`): character tables and regular expressions. The models take
  normal forms, foldings and orders as functions.
- **Canonical JSON and digests** (`lib.rs`): serialization and SHA-256.
  `Candidate` stands for the digest of a value.
- **Progress events**: display only; no state of a run depends on them.
- **Command line** (`main.rs`): argument parsing, reports and exit codes. Its
  gates before `anonymize_collection` repeat the checks `Publish` begins with.
- Of the **registry**: the JSON form of a map, the rewriting of version 1 SIDs
  while it is loaded, and the read-only queries. That a map saved from a frozen
  registry can be loaded again follows from `FrozenTransforms`,
  `ReverseUnambiguous` and `HistoricalNamesReserved`, which are the conditions
  `build` checks.
- Of the **transforms**: `transform_path` and `transform_url`, which only tests
  call.
- Of the **policy**: the classification of catalog objects and the counters of
  the audit.
- Of the **verifier**: the fingerprint of a finding, key collisions within an
  output (the engine has refused them, `KeyCollision`), and the comparison of
  the registry before and after.
- Of **publication**: parents `create_dir_all` makes above the output directory,
  and data lost with the power (the code never calls fsync).

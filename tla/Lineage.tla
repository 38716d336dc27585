------------------------------ MODULE Lineage -------------------------------
(***************************************************************************)
(* The resume lineage of a project directory: config.json's version        *)
(* pointers (project_config), the builders of base, structure and refine   *)
(* (baseline), the tailored file an edit session commits, and the final    *)
(* fit (perfect).                                                          *)
(*                                                                         *)
(* A builder is a sequence of durable writes, each atomic, and the process *)
(* may stop between any two; "op" is what the one in flight has still to   *)
(* write.  A call that is refused before its first write is not a step.    *)
(* EditSession models the session itself; here a session is the resume and *)
(* job it is bound to, and its commit the one file it writes.              *)
(***************************************************************************)
EXTENDS Naturals, SequencesExt

CONSTANTS
    Imports,         \* names of the imported resumes, as sequences of dash-separated parts
    Legacy,          \* <name>-standard files of older projects -> the import they descend from
    Jobs,            \* names of the jobs
    SelectTailored,  \* whether the user may also make a tailored file the active resume
    MaxSelections,   \* bound on the selections of a resume
    MaxSessions,     \* bound on the sessions opened, fits included
    MaxRecords       \* bound on the evidence records the user adds

NoPath == <<>>
NoJob == "none"

\* Version suffixes, in the order _version_path_for looks for them.
KnownSuffixes == <<"original", "base", "structure", "refine", "standard">>

ASSUME LineageAssumption ==
    /\ \A p \in Imports :
            /\ p \in Seq(STRING) /\ p # NoPath /\ Head(p) \notin ToSet(KnownSuffixes)
            \* an import is named <name> or <name>-original (resume-kit/resumes/<name>-original.json)
            /\ ToSet(Tail(p)) \subseteq {"original"}
    /\ DOMAIN Legacy \cap Imports = {}
    \* a file of an older project is named <name>-standard after its import
    /\ \A p \in DOMAIN Legacy :
            /\ p \in Seq(STRING) /\ Len(p) >= 2 /\ Head(p) \notin ToSet(KnownSuffixes)
            /\ ToSet(Tail(p)) = {"standard"}
            /\ Legacy[p] \in Imports
    /\ Jobs \subseteq STRING \ ({NoJob} \cup ToSet(KnownSuffixes))
    /\ SelectTailored \in BOOLEAN
    /\ {MaxSelections, MaxSessions, MaxRecords} \subseteq Nat

VARIABLES
    config,      \* config.json
    files,       \* the resume files: path -> what a document holds
    evidence,    \* the evidence files: name -> imports whose content was extracted into it
    session,     \* working/edit-session.json
    op,          \* what the operation in flight has still to write
    rebuilt,     \* history: how many tiers were rebuilt, in order, since the last selection
    done,        \* how many selections, sessions and records there were
    wrote        \* history: the resume file the last step wrote, if it wrote one

vars == <<config, files, evidence, session, op, rebuilt, done, wrote>>

Idle == [at |-> "idle"]
NoSession == [resume |-> NoPath, job |-> NoJob, fits |-> FALSE]

\* A resume file: the import it descends from, whether it is in the canonical
\* form, whether it still has its experience bullets, the jobs whose accepted
\* edits it carries.
Imported(p) == [of |-> p, canonical |-> FALSE, bullets |-> TRUE, edits |-> {}]

-----------------------------------------------------------------------------
(* Names and pointers.                                                     *)

\* _version_path_for: the first known suffix found is replaced, or one is added.
VersionPath(p, suffix) ==
    LET found == {i \in DOMAIN KnownSuffixes : KnownSuffixes[i] \in ToSet(Tail(p))}
    IN  IF found = {} THEN Append(p, suffix)
        ELSE ReplaceAll(p, KnownSuffixes[Min(found)], suffix)

\* Mutant: only a name with the original suffix gets another one.
BasePath_InPlace(p) == ReplaceAll(p, "original", "base")

\* _base_path_for
BasePath(p) ==
    IF "original" \in ToSet(Tail(p)) THEN ReplaceAll(p, "original", "base") ELSE Append(p, "base")

\* _final_path_for; the job's name stands for "<job>-final".
FinalPath(source, job) == VersionPath(source, job)

\* _working_path_string
WorkingPath(p) ==
    <<"working">> \o (IF Last(p) = "original" THEN Front(p) ELSE p)

\* The first pointer of a list that is set.
FirstSet(pointers) ==
    LET set == {i \in DOMAIN pointers : pointers[i] # NoPath}
    IN  IF set = {} THEN NoPath ELSE pointers[Min(set)]

\* Mutant: the legacy pointer is preferred to refine.
Resolved_LegacyFirst(c) == FirstSet(<<c.standard, c.refine, c.structure, c.base, c.active>>)

\* resolve_active_resume
Resolved(c) == FirstSet(<<c.refine, c.standard, c.structure, c.base, c.active>>)

\* What each builder builds from (build_base, build_structure, build_refine).
BaseSource(c) == c.active
StructureSource(c) == IF c.base # NoPath THEN c.base ELSE c.active
RefineSource(c) == IF c.structure # NoPath THEN c.structure ELSE StructureSource(c)

\* The evidence file the readers open, and the one a seed goes to.
NoEvidence == "none"
ReadEvidence(c) == IF c.activeEvidence # NoEvidence THEN c.activeEvidence ELSE c.evidenceFile
EvidenceFiles == {"candidate-evidence", "user-confirmed-evidence"}

SeedFile(c) == IF ReadEvidence(c) # NoEvidence THEN ReadEvidence(c) ELSE "candidate-evidence"

\* ResumeDocument.model_validate of a file: it ignores the keys of the canonical
\* form, whose bullets are under keys of its own.
Validated(doc) ==
    IF doc.canonical THEN [doc EXCEPT !.canonical = FALSE, !.bullets = FALSE] ELSE doc

\* project_builddoc_from_canonical
Projected(doc) == [doc EXCEPT !.canonical = FALSE]

\* How build_refine reads its source.
RefineInput(c, path) ==
    IF path = c.structure THEN Projected(files[path]) ELSE Validated(files[path])

\* atomic_write_json
Written(path, doc) == [p \in DOMAIN files \cup {path} |-> IF p = path THEN doc ELSE files[p]]

Ready(source) == op = Idle /\ source # NoPath /\ source \in DOMAIN files

-----------------------------------------------------------------------------
(* Actions.                                                                *)

Init ==
    /\ \E standard \in DOMAIN Legacy \cup {NoPath} :
          config = [active |-> NoPath, job |-> NoJob,
                    base |-> NoPath, baseFrom |-> NoPath,
                    structure |-> NoPath, structureFrom |-> NoPath,
                    refine |-> NoPath, refineFrom |-> NoPath, standard |-> standard,
                    final |-> NoPath, finalFrom |-> NoPath, finalJob |-> NoJob,
                    evidenceFile |-> NoEvidence, activeEvidence |-> NoEvidence]
    /\ files = [p \in Imports \cup DOMAIN Legacy |->
                    Imported(IF p \in Imports THEN p ELSE Legacy[p])]
    /\ evidence = [f \in EvidenceFiles |-> {}]
    /\ session = NoSession
    /\ op = Idle
    /\ rebuilt = 0
    /\ done = [selections |-> 0, sessions |-> 0, records |-> 0]
    /\ wrote = NoPath

\* set_active: the user selects a resume; the version pointers stay.
SelectResume(p) ==
    /\ op = Idle
    /\ done.selections < MaxSelections
    /\ p \in DOMAIN files
    /\ p \in Imports \/ (SelectTailored /\ Head(p) = "working")
    /\ config' = [config EXCEPT !.active = p]
    /\ rebuilt' = 0
    /\ done' = [done EXCEPT !.selections = @ + 1]
    /\ wrote' = NoPath
    /\ UNCHANGED <<files, evidence, session, op>>

\* set_active: the user selects a job.
SelectJob(j) ==
    /\ op = Idle
    /\ config' = [config EXCEPT !.job = j]
    /\ wrote' = NoPath
    /\ UNCHANGED <<files, evidence, session, op, rebuilt, done>>

\* add_evidence: the confirmed record's file becomes the default, and the active
\* one when the caller asks for it.
AddEvidence(activate) ==
    /\ op = Idle
    /\ done.records < MaxRecords
    /\ config' = [config EXCEPT !.evidenceFile = "user-confirmed-evidence",
                                !.activeEvidence = IF activate THEN "user-confirmed-evidence"
                                                   ELSE @]
    /\ done' = [done EXCEPT !.records = @ + 1]
    /\ wrote' = NoPath
    /\ UNCHANGED <<files, evidence, session, op, rebuilt>>

\* The pointer a builder sets once its artifact is written.
Pointer(tier, path, from) == [at |-> "pointer", tier |-> tier, path |-> path, from |-> from]

\* Mutant: the pointer is set before the artifact is written.
BuildBase_PointerFirst ==
    /\ Ready(BaseSource(config))
    /\ config' = [config EXCEPT !.base = BasePath(BaseSource(config)),
                                !.baseFrom = BaseSource(config)]
    /\ op' = Pointer("base", BasePath(BaseSource(config)), BaseSource(config))
    /\ wrote' = NoPath
    /\ UNCHANGED <<files, evidence, session, rebuilt, done>>

\* build_base, up to the artifact.
BuildBase ==
    LET source == BaseSource(config)
        path   == BasePath(source)
    IN  /\ Ready(source)
        /\ files' = Written(path, Validated(files[source]))
        /\ wrote' = path
        /\ op' = Pointer("base", path, source)
        /\ UNCHANGED <<config, evidence, session, rebuilt, done>>

\* Mutant: the seed goes to the default file, whatever the pointers say.
BuildStructure_DefaultSeed ==
    LET source == StructureSource(config)
    IN  /\ Ready(source)
        /\ evidence' = [evidence EXCEPT !["candidate-evidence"] = @ \cup {files[source].of}]
        /\ op' = [at |-> "seed", source |-> source]
        /\ wrote' = NoPath
        /\ UNCHANGED <<config, files, session, rebuilt, done>>

\* build_structure: everything the source says is first merged into the evidence
\* (merge_evidence_file), whatever the gates decide afterwards.
BuildStructure ==
    LET source == StructureSource(config)
    IN  /\ Ready(source)
        /\ evidence' = [evidence EXCEPT ![SeedFile(config)] = @ \cup {files[source].of}]
        /\ op' = [at |-> "seed", source |-> source]
        /\ wrote' = NoPath
        /\ UNCHANGED <<config, files, session, rebuilt, done>>

\* seed_full_resume_evidence: then the evidence pointers are saved.
SaveEvidencePointers ==
    /\ op.at = "seed"
    /\ config' = [config EXCEPT !.evidenceFile = SeedFile(config),
                                !.activeEvidence = SeedFile(config)]
    /\ op' = [op EXCEPT !.at = "structure"]
    /\ wrote' = NoPath
    /\ UNCHANGED <<files, evidence, session, rebuilt, done>>

\* The ledger gate or the claims gate fails: no artifact, no pointer.
RefuseStructure ==
    /\ op.at = "structure"
    /\ op' = Idle
    /\ wrote' = NoPath
    /\ UNCHANGED <<config, files, evidence, session, rebuilt, done>>

WriteStructure ==
    LET path == VersionPath(op.source, "structure")
    IN  /\ op.at = "structure"
        /\ files' = Written(path, [Validated(files[op.source]) EXCEPT !.canonical = TRUE])
        /\ wrote' = path
        /\ op' = Pointer("structure", path, op.source)
        /\ UNCHANGED <<config, evidence, session, rebuilt, done>>

\* build_refine, up to the artifact.
BuildRefine ==
    LET source == RefineSource(config)
        path   == VersionPath(source, "refine")
    IN  /\ Ready(source)
        /\ files' = Written(path, RefineInput(config, source))
        /\ wrote' = path
        /\ op' = Pointer("refine", path, source)
        /\ UNCHANGED <<config, evidence, session, rebuilt, done>>

Tiers == <<"base", "structure", "refine">>

\* set_version, the last write of every builder.
SetPointer ==
    /\ op.at = "pointer"
    /\ config' = CASE op.tier = "base" ->
                        [config EXCEPT !.base = op.path, !.baseFrom = op.from]
                   [] op.tier = "structure" ->
                        [config EXCEPT !.structure = op.path, !.structureFrom = op.from]
                   [] op.tier = "refine" ->
                        [config EXCEPT !.refine = op.path, !.refineFrom = op.from]
                   [] op.tier = "final" ->
                        [config EXCEPT !.final = op.path, !.finalFrom = op.from,
                                       !.finalJob = op.job]
    /\ rebuilt' = IF rebuilt < 3 /\ op.tier = Tiers[rebuilt + 1] THEN rebuilt + 1 ELSE rebuilt
    /\ op' = Idle
    /\ wrote' = NoPath
    /\ UNCHANGED <<files, evidence, session, done>>

\* open_session: bound to the resolved resume and the active job.
OpenSession ==
    /\ Ready(Resolved(config))
    /\ done.sessions < MaxSessions
    /\ config.job # NoJob
    /\ session' = [resume |-> Resolved(config), job |-> config.job, fits |-> FALSE]
    /\ done' = [done EXCEPT !.sessions = @ + 1]
    /\ wrote' = NoPath
    /\ UNCHANGED <<config, files, evidence, op, rebuilt>>

\* commit_session writes the session's resume, its accepted changes applied.
CommitSession ==
    LET read == Validated(files[session.resume])
    IN  /\ op = Idle
        /\ session # NoSession
        /\ session.resume = Resolved(config) /\ session.job = config.job
        /\ files' = Written(WorkingPath(session.resume),
                            IF session.fits THEN read
                            ELSE [read EXCEPT !.edits = @ \cup {session.job}])
        /\ wrote' = WorkingPath(session.resume)
        /\ UNCHANGED <<config, evidence, session, op, rebuilt, done>>

\* build_perfect: the job it is called with becomes the active one before anything
\* is read.
Fit(j) ==
    LET source == Resolved(config)
    IN  /\ Ready(source)
        /\ done.sessions < MaxSessions
        /\ j # NoJob
        /\ config' = [config EXCEPT !.job = j]
        /\ op' = [at |-> "fit", source |-> source, job |-> j]
        /\ done' = [done EXCEPT !.sessions = @ + 1]
        /\ wrote' = NoPath
        /\ UNCHANGED <<files, evidence, session, rebuilt>>

\* The document is within its budgets, or no candidate or no decision is there,
\* or the commit of the fit is refused.
StopFit ==
    /\ op.at \in {"fit", "fitcommit"}
    /\ op' = Idle
    /\ wrote' = NoPath
    /\ UNCHANGED <<config, files, evidence, session, rebuilt, done>>

\* The fit's own session replaces the one that was open.  A canonical file reads
\* as a document without content, which exceeds no budget.
OpenFit ==
    /\ op.at = "fit"
    /\ ~files[op.source].canonical
    /\ session' = [resume |-> op.source, job |-> op.job, fits |-> TRUE]
    /\ op' = [op EXCEPT !.at = "fitcommit"]
    /\ wrote' = NoPath
    /\ UNCHANGED <<config, files, evidence, rebuilt, done>>

\* Its commit writes the tailored file, from the resolved resume.
CommitFit ==
    /\ op.at = "fitcommit"
    /\ files' = Written(WorkingPath(op.source), Validated(files[op.source]))
    /\ wrote' = WorkingPath(op.source)
    /\ op' = [op EXCEPT !.at = "fitfinal"]
    /\ UNCHANGED <<config, evidence, session, rebuilt, done>>

\* The final resume is a copy of the tailored file just written.
WriteFinal ==
    LET path == FinalPath(op.source, op.job)
    IN  /\ op.at = "fitfinal"
        /\ files' = Written(path, files[WorkingPath(op.source)])
        /\ wrote' = path
        /\ op' = [at |-> "pointer", tier |-> "final", path |-> path, from |-> op.source,
                  job |-> op.job]
        /\ UNCHANGED <<config, evidence, session, rebuilt, done>>

\* The process stops between two writes.
Crash ==
    /\ op # Idle
    /\ op' = Idle
    /\ wrote' = NoPath
    /\ UNCHANGED <<config, files, evidence, session, rebuilt, done>>

Next ==
    \/ \E p \in DOMAIN files : SelectResume(p)
    \/ \E j \in Jobs : SelectJob(j)
    \/ \E activate \in BOOLEAN : AddEvidence(activate)
    \/ BuildBase
    \/ BuildStructure
    \/ SaveEvidencePointers
    \/ RefuseStructure
    \/ WriteStructure
    \/ BuildRefine
    \/ SetPointer
    \/ OpenSession
    \/ CommitSession
    \/ \E j \in Jobs : Fit(j)
    \/ StopFit
    \/ OpenFit
    \/ CommitFit
    \/ WriteFinal
    \/ Crash

Spec == Init /\ [][Next]_vars

-----------------------------------------------------------------------------
(* Properties.                                                             *)

\* Wherever the process stops, every version pointer names a file that is there
\* (baseline and perfect write the artifact before set_version).
PointersResolve ==
    \A p \in {config.base, config.structure, config.refine, config.standard, config.final} :
        p # NoPath => p \in DOMAIN files

\* The files the pointers before a tier name: its builder's inputs.
TierFiles(c, tier) ==
    {c.active, c.standard}
      \cup (IF tier = "base" THEN {} ELSE {c.base})
      \cup (IF tier \in {"base", "structure"} THEN {} ELSE {c.structure})
      \cup (IF tier \in {"base", "structure", "refine"} THEN {} ELSE {c.refine})

\* The imported originals are immutable and a later stage writes over no earlier
\* version: base leaves the original alone, structure the base, refine the
\* structure, a tailoring or a fit all of them.  A write over a file counts
\* whether or not what it holds changes with it (_base_path_for,
\* _version_path_for, _final_path_for, _working_path_string).
EarlierVersionsUntouched ==
    [][wrote' # NoPath /\ wrote' \in DOMAIN files =>
          /\ wrote' \notin Imports
          /\ wrote' \notin TierFiles(config, IF op'.at = "pointer" THEN op'.tier ELSE "final")]_vars

\* Once base, structure and refine have been rebuilt, in that order, after a
\* resume was selected, tailoring starts from the refine version of that resume,
\* along an unbroken chain, whatever pointers an earlier resume left behind.
RebuiltLineage ==
    rebuilt = 3 =>
        /\ Resolved(config) = config.refine
        /\ config.refineFrom = config.structure
        /\ config.structureFrom = config.base
        /\ config.baseFrom = config.active
        /\ \A p \in {config.base, config.structure, config.refine} :
               files[p].of = files[config.active].of

\* The content build_structure drops from the canonical form is kept as evidence:
\* in the file the ledger gate reads while it is decided, and in some evidence
\* file for as long as a structure version exists.
DroppedContentReceipted ==
    /\ config.structure # NoPath =>
           files[config.structure].of \in UNION {evidence[f] : f \in EvidenceFiles}
    /\ op.at = "structure" =>
           files[op.source].of \in evidence[ReadEvidence(config)]

\* No builder loses the experience bullets: build_refine reads the canonical
\* structure through its projection.
BuildersKeepBullets ==
    \A p \in {config.base, config.structure, config.refine} :
        p # NoPath => files[p].bullets

\* No builder loses content: the bullets go from version to version, what structure
\* drops is on record as evidence.
ContentKeptOrReceipted == BuildersKeepBullets /\ DroppedContentReceipted

\* A commit keeps the experience bullets of the resume it tailors
\* (projection.py: a lenient validation of the canonical form drops them).
TailoringKeepsBullets ==
    \A p \in DOMAIN files : Head(p) = "working" => files[p].bullets

=============================================================================

--------------------------- MODULE EvidencePackage ---------------------------
(***************************************************************************)
(* The evidence root: commands that write packages (evidence/package.py),  *)
(* what `evidence verify' makes of a package (evidence/verify.py), and the *)
(* files of a flagship release (experiment/flagship.py).                   *)
(*                                                                         *)
(* An artifact is written in two steps, because a file is truncated before *)
(* it is filled; the commands are processes of the operating system, which *)
(* interleave at every step and may be killed at any.  An experiment is    *)
(* deterministic, so every artifact but environment.json, which carries    *)
(* the time of the run, has one content whoever writes it.  A digest is    *)
(* the content it is the digest of.                                        *)
(***************************************************************************)
EXTENDS Naturals, Sequences, FiniteSets

CONSTANTS
    Packages,       \* experiment identifiers: the directories of the root
    Commands,       \* processes that write evidence
    Modes,          \* what a command may be asked: see ModeType
    Artifacts,      \* ARTIFACT_NAMES, in the order written
    ReleaseFiles,   \* what a flagship release writes, in order
    MaxDamages      \* bound: packages damaged between two cleanings

Environment == "environment.json"
Verification == "verification.json"
Readme == "README.md"
ReleaseManifest == "release-manifest.json"

Names == {Artifacts[i] : i \in DOMAIN Artifacts}

\* What verify_results reads.
Recalculated == {"configuration.json", "process.csv", "metrics.json"}

\* What verify_evidence compares by its digest alone: its reading of the events
\* accepts any number of whole lines.
Unparsed == {"events.jsonl", "process.csv", "control.csv", "summary.md"}

Parsed == Names \ Unparsed

\* `experiment run' writes one package, `experiment compare' and `experiment
\* flagship' one for each variant; only the last makes a release of them.
ModeType == [program : Seq(Packages), release : BOOLEAN]

Damages == {"absent", "garbled"}

\* A whole file is "result" or, for the environment, the command it tells of; a
\* verdict that tells of failure is "rejected".
Contents == Damages \cup {"partial", "result", "rejected"} \cup Commands

ASSUME EvidenceAssumption ==
    /\ Modes \subseteq ModeType
    /\ \A mode \in Modes : mode.program # <<>>
    /\ Artifacts \in Seq(STRING)
    /\ \A i, j \in DOMAIN Artifacts : Artifacts[i] = Artifacts[j] => i = j
    /\ {Environment, Verification, "process.csv"} \subseteq Names
    /\ \A i, j \in DOMAIN Artifacts :
        Artifacts[i] \in Recalculated /\ Artifacts[j] = Verification => i < j
    /\ ReleaseFiles \in Seq(STRING) \ {<<>>}
    /\ \A i \in DOMAIN ReleaseFiles :
        ReleaseFiles[i] = ReleaseManifest <=> i = Len(ReleaseFiles)
    /\ MaxDamages \in Nat
    /\ Commands \cap (Damages \cup {"partial", "result", "rejected", "incomplete"}) = {}

VARIABLES
    files,          \* the artifacts of each directory
    manifest,       \* its manifest.json
    stray,          \* does it hold a file that does not belong there
    agree,          \* does the recalculation agree with the metrics
    command,        \* the commands and how far each has come
    release,        \* by which command each release file was written
    signed,         \* what the others were when the release manifest was written
    marked,         \* README.md has its pair of markers
    raced,          \* packages two commands have written at the same time
    damaged,        \* packages damaged at rest
    forgotten,      \* commands begun before the evidence root was last cleaned
    overlapped      \* two commands have written release files at the same time

packageVars == <<files, manifest, stray, raced, damaged>>

releaseVars == <<release, signed, marked, overlapped>>

evidenceVars == <<packageVars, releaseVars, agree, command, forgotten>>

Released == {ReleaseFiles[i] : i \in DOMAIN ReleaseFiles}

\* What precedes the release manifest, which has the digests of all of it but
\* README.md.
Signed == Released \ {ReleaseManifest}

Phases == {"ready", "check", "open", "fill", "recalculate", "digest", "seal",
           "sign", "packaged", "publish"}

Ends == {"done", "refused", "failed", "killed"}

Digests == [Names -> Contents]

ManifestType ==
    [state : {"absent", "partial", "garbled", "whole"},
     id : Packages \cup {"foreign"}, digests : Digests, seal : Digests]

CommandType ==
    [mode : Modes, phase : Phases \cup Ends, nth : Nat, at : Nat, recorded : Digests]

EvidenceTypeOK ==
    /\ files \in [Packages -> Digests]
    /\ manifest \in [Packages -> ManifestType]
    /\ stray \in [Packages -> BOOLEAN]
    /\ agree \in [Packages -> BOOLEAN]
    /\ command \in [Commands -> CommandType]
    /\ \A c \in Commands :
        /\ command[c].nth \in DOMAIN command[c].mode.program
        /\ command[c].phase \in {"open", "fill", "digest"} =>
                command[c].at \in DOMAIN Artifacts
        /\ command[c].phase = "publish" => command[c].at \in DOMAIN ReleaseFiles
    /\ release \in [Released -> Commands \cup {"absent"}]
    /\ signed \in [Signed -> Commands \cup {"absent"}]
    /\ marked \in BOOLEAN /\ overlapped \in BOOLEAN
    /\ raced \subseteq Packages /\ damaged \subseteq Packages
    /\ forgotten \subseteq Commands

NoFile == [n \in Names |-> "absent"]

NoManifest(p) == [state |-> "absent", id |-> p, digests |-> NoFile, seal |-> NoFile]

Init ==
    /\ files = [p \in Packages |-> NoFile]
    /\ manifest = [p \in Packages |-> NoManifest(p)]
    /\ stray = [p \in Packages |-> FALSE]
    /\ agree \in [Packages -> BOOLEAN]
    /\ command \in [Commands -> [mode : Modes, phase : {"ready"}, nth : {1}, at : {1},
                                 recorded : {NoFile}]]
    /\ release = [f \in Released |-> "absent"]
    /\ signed = [f \in Signed |-> "absent"]
    /\ marked \in BOOLEAN
    /\ raced = {} /\ damaged = {} /\ forgotten = {} /\ overlapped = FALSE

----------------------------------------------------------------------------
(* A command and the package it is at.                                      *)

Package(c) == command[c].mode.program[command[c].nth]

Artifact(c) == Artifacts[command[c].at]

WritingPhases == {"open", "fill", "recalculate", "digest", "seal", "sign"}

Writing(c, p) == command[c].phase \in WritingPhases /\ Package(c) = p

AtRest(p) == \A c \in Commands : ~Writing(c, p)

UnderWay(c) == command[c].phase \notin Ends \cup {"ready"}

Publishing(c) == command[c].phase = "publish"

Empty(p) == files[p] = NoFile /\ manifest[p].state = "absent" /\ ~stray[p]

Go(c, phase, at) ==
    command' = [command EXCEPT ![c].phase = phase, ![c].at = at]

\* What a command puts into an artifact.
Written(c, name) == IF name = Environment THEN c ELSE "result"

Fresh(name) == IF name = Environment THEN Commands ELSE {"result"}

Store(p, name, content) == files' = [files EXCEPT ![p][name] = content]

----------------------------------------------------------------------------
(* write_evidence.                                                          *)

\* Mutant: whatever is there is written over.
CheckNothing(c) ==
    /\ command[c].phase \in {"ready", "check"}
    /\ Go(c, "open", 1)
    /\ raced' = IF AtRest(Package(c)) THEN raced ELSE raced \cup {Package(c)}
    /\ UNCHANGED <<files, manifest, stray, damaged, agree, forgotten, releaseVars>>

\* A directory with anything in it is refused; nothing keeps a second command
\* from passing the same test before the first file appears.
Check(c) ==
    /\ command[c].phase \in {"ready", "check"}
    /\ IF Empty(Package(c))
       THEN /\ Go(c, "open", 1)
            /\ raced' = IF AtRest(Package(c)) THEN raced ELSE raced \cup {Package(c)}
       ELSE Go(c, "refused", 1) /\ UNCHANGED raced
    /\ UNCHANGED <<files, manifest, stray, damaged, agree, forgotten, releaseVars>>

Open(c) ==
    /\ command[c].phase = "open"
    /\ Store(Package(c), Artifact(c), "partial")
    /\ Go(c, "fill", command[c].at)
    /\ UNCHANGED <<manifest, stray, raced, damaged, agree, forgotten, releaseVars>>

\* The results are recalculated before the verdict on them is written.
AfterFilling(at) ==
    IF at = Len(Artifacts) THEN "digest"
    ELSE IF Artifacts[at + 1] = Verification THEN "recalculate" ELSE "open"

\* Mutant: the digests are taken from where the artifacts have ended.
FillOn(c) ==
    /\ command[c].phase = "fill"
    /\ Store(Package(c), Artifact(c), Written(c, Artifact(c)))
    /\ Go(c, AfterFilling(command[c].at), command[c].at + 1)
    /\ UNCHANGED <<manifest, stray, raced, damaged, agree, forgotten, releaseVars>>

Fill(c) ==
    /\ command[c].phase = "fill"
    /\ Store(Package(c), Artifact(c), Written(c, Artifact(c)))
    /\ Go(c, AfterFilling(command[c].at),
          IF command[c].at = Len(Artifacts) THEN 1 ELSE command[c].at + 1)
    /\ UNCHANGED <<manifest, stray, raced, damaged, agree, forgotten, releaseVars>>

\* verify_results, on what the files then hold.  A truncated process.csv may
\* give any answer.
ResultsAgree(p) ==
    /\ \A n \in (Recalculated \ {"process.csv"}) \cap Names : files[p][n] = "result"
    /\ agree[p] \/ files[p]["process.csv"] # "result"

ResultsDiffer(p) ==
    ~agree[p] \/ \E n \in Recalculated \cap Names : files[p][n] # "result"

\* A difference ends the command and leaves what it has written.
Recalculate(c) ==
    /\ command[c].phase = "recalculate"
    /\ \/ ResultsAgree(Package(c)) /\ Go(c, "open", command[c].at)
       \/ ResultsDiffer(Package(c)) /\ Go(c, "failed", 1)
    /\ UNCHANGED <<packageVars, releaseVars, agree, forgotten>>

Digest(c) ==
    LET last == command[c].at = Len(Artifacts) IN
    /\ command[c].phase = "digest"
    /\ command' = [command EXCEPT
            ![c].recorded[Artifact(c)] = files[Package(c)][Artifact(c)],
            ![c].phase = IF last THEN "seal" ELSE "digest",
            ![c].at = IF last THEN 1 ELSE @ + 1]
    /\ UNCHANGED <<packageVars, releaseVars, agree, forgotten>>

\* The manifest, too, is truncated and then filled.
Seal(c) ==
    /\ command[c].phase = "seal"
    /\ manifest' = [manifest EXCEPT ![Package(c)] =
            [NoManifest(Package(c)) EXCEPT !.state = "partial"]]
    /\ Go(c, "sign", 1)
    /\ UNCHANGED <<files, stray, raced, damaged, agree, forgotten, releaseVars>>

Sign(c) ==
    /\ command[c].phase = "sign"
    /\ manifest' = [manifest EXCEPT ![Package(c)] =
            [state |-> "whole", id |-> Package(c),
             digests |-> command[c].recorded, seal |-> command[c].recorded]]
    /\ command' = [command EXCEPT ![c].phase = "packaged", ![c].recorded = NoFile]
    /\ UNCHANGED <<files, stray, raced, damaged, agree, forgotten, releaseVars>>

----------------------------------------------------------------------------
(* verify_evidence and reproduce_experiment.                                *)

Parses(p, n) ==
    files[p][n] \in Fresh(n) \/ (n = Verification /\ files[p][n] = "rejected")

\* Mutant: an artifact that is not there is passed over, as the loop over the
\* digests does, but the two documents whose schemas are asked for.
PassesWhatIsThere(p) ==
    /\ manifest[p].state = "whole" /\ manifest[p].id = p
    /\ ~stray[p]
    /\ \A n \in Names : files[p][n] \in {"absent", manifest[p].digests[n]}
    /\ manifest[p].seal = manifest[p].digests
    /\ \A n \in Parsed : Parses(p, n) \/ (files[p][n] = "absent" /\ n \notin {Environment, Verification})
    /\ files[p][Verification] # "rejected"

\* The verdict of the recalculation is read, not made again.
Passes(p) ==
    /\ manifest[p].state = "whole" /\ manifest[p].id = p
    /\ ~stray[p]
    /\ \A n \in Names : files[p][n] # "absent" /\ files[p][n] = manifest[p].digests[n]
    /\ manifest[p].seal = manifest[p].digests
    /\ \A n \in Parsed : Parses(p, n)
    /\ files[p][Verification] # "rejected"

\* A second run writes the same artifacts, if it can write any at all.
Reproduces(p) ==
    /\ \A n \in Names \ {Environment} : files[p][n] = "result"
    /\ agree[p]

----------------------------------------------------------------------------
(* The commands beyond one package.                                         *)

\* Only a release looks at the package again before it goes on.
Audited(c) ==
    command[c].mode.release => Passes(Package(c)) /\ ResultsAgree(Package(c))

Continue(c) ==
    /\ command[c].phase = "packaged"
    /\ IF ~Audited(c) THEN Go(c, "failed", 1)
       ELSE IF command[c].nth < Len(command[c].mode.program)
       THEN command' = [command EXCEPT ![c].phase = "check", ![c].nth = @ + 1]
       ELSE Go(c, IF command[c].mode.release THEN "publish" ELSE "done", 1)
    /\ overlapped' = (overlapped \/
            \E d \in Commands : d # c /\ Publishing(d) /\ command'[c].phase = "publish")
    /\ UNCHANGED <<packageVars, agree, forgotten, release, signed, marked>>

\* The files of the release directory are written over, whoever wrote them.
Publishes(c, file) ==
    /\ release' = [release EXCEPT ![file] = c]
    /\ signed' = IF file = ReleaseManifest THEN [f \in Signed |-> release[f]] ELSE signed

\* Mutant: the results card that has no place in README.md is left out.
PublishAround(c) ==
    LET file == ReleaseFiles[command[c].at] IN
    /\ Publishing(c)
    /\ IF file = Readme /\ ~marked THEN UNCHANGED <<release, signed>> ELSE Publishes(c, file)
    /\ IF command[c].at = Len(ReleaseFiles) THEN Go(c, "done", 1)
       ELSE Go(c, "publish", command[c].at + 1)
    /\ UNCHANGED <<packageVars, agree, forgotten, marked, overlapped>>

\* README.md is refused when it lacks the markers, after the files before it.
Publish(c) ==
    LET file == ReleaseFiles[command[c].at] IN
    /\ Publishing(c)
    /\ IF file = Readme /\ ~marked
       THEN Go(c, "failed", 1) /\ UNCHANGED <<release, signed>>
       ELSE /\ Publishes(c, file)
            /\ IF command[c].at = Len(ReleaseFiles) THEN Go(c, "done", 1)
               ELSE Go(c, "publish", command[c].at + 1)
    /\ UNCHANGED <<packageVars, agree, forgotten, marked, overlapped>>

Kill(c) ==
    /\ UnderWay(c)
    /\ command' = [command EXCEPT ![c].phase = "killed", ![c].at = 1, ![c].recorded = NoFile]
    /\ UNCHANGED <<packageVars, releaseVars, agree, forgotten>>

----------------------------------------------------------------------------
(* What may happen to a package that nobody writes, once for each.          *)

DamagesTo(n) == Damages \cup (IF n = Verification THEN {"rejected"} ELSE {})

Damage(p) ==
    /\ p \notin damaged /\ Cardinality(damaged) < MaxDamages
    /\ AtRest(p)
    /\ damaged' = damaged \cup {p}
    /\ \/ /\ \E n \in Names : \E kind \in DamagesTo(n) :
                files[p][n] # "absent" /\ Store(p, n, kind)
          /\ UNCHANGED <<manifest, stray>>
       \/ /\ stray' = [stray EXCEPT ![p] = TRUE]
          /\ UNCHANGED <<files, manifest>>
       \/ /\ manifest[p].state = "whole"
          /\ \/ \E kind \in Damages : manifest' = [manifest EXCEPT ![p].state = kind]
             \/ manifest' = [manifest EXCEPT ![p].id = "foreign"]
             \/ \E n \in Names : manifest' = [manifest EXCEPT ![p].digests[n] = "garbled"]
          /\ UNCHANGED <<files, stray>>
    /\ UNCHANGED <<raced, agree, command, forgotten, releaseVars>>

\* The evidence root and the release directory are options of their own, so each
\* is emptied by itself (make clean-results empties the local pair); README.md
\* lies in neither.
CleanEvidence ==
    /\ \A c \in Commands : ~UnderWay(c)
    /\ files' = [p \in Packages |-> NoFile]
    /\ manifest' = [p \in Packages |-> NoManifest(p)]
    /\ stray' = [p \in Packages |-> FALSE]
    /\ raced' = {} /\ damaged' = {}
    /\ forgotten' = {c \in Commands : command[c].phase # "ready"}
    /\ UNCHANGED <<agree, command, releaseVars>>

CleanRelease ==
    /\ \A c \in Commands : ~UnderWay(c)
    /\ release' = [f \in Released |-> IF f = Readme THEN release[f] ELSE "absent"]
    /\ signed' = [f \in Signed |-> "absent"]
    /\ overlapped' = FALSE
    /\ UNCHANGED <<packageVars, agree, command, forgotten, marked>>

CommandStep(c) ==
    \/ Check(c) \/ Open(c) \/ Fill(c) \/ Recalculate(c) \/ Digest(c)
    \/ Seal(c) \/ Sign(c) \/ Continue(c) \/ Publish(c) \/ Kill(c)

Next ==
    \/ \E c \in Commands : CommandStep(c)
    \/ \E p \in Packages : Damage(p)
    \/ CleanEvidence
    \/ CleanRelease

Spec == Init /\ [][Next]_evidenceVars

----------------------------------------------------------------------------
(* Properties.                                                              *)

\* The two levels of check are ordered as verify.py says: what `evidence verify'
\* passes is what a second run would write, whatever was damaged, killed or
\* refused before; only two commands in one package, of which one did not finish,
\* can leave a truncated file under its own digest.
VerifiedReproduces ==
    \A p \in Packages :
        /\ Passes(p)
        /\ \/ p \notin raced
           \/ AtRest(p) /\ \A c \in Commands : command[c].phase \notin {"killed", "failed"}
        => Reproduces(p) /\ files[p][Environment] \in Commands

\* What a release manifest signs is one command's work, however many releases were
\* stopped half-way and left their files (flagship.py writes it last), unless two
\* have written at the same time; and until the evidence root is cleaned the
\* packages it was drawn from still verify as that command's.
ReleaseIsWhole ==
    LET c == release[ReleaseManifest] IN
    c # "absent" =>
        /\ ~overlapped => \A f \in Signed : signed[f] = c
        /\ raced = {} /\ c \notin forgotten =>
                \A i \in DOMAIN command[c].mode.program :
                    LET p == command[c].mode.program[i]
                    IN  p \in damaged \/ (Passes(p) /\ files[p][Environment] = c)

\* To a reader who only asks for verification the root is the store that
\* EvidenceStore describes: nothing that verified is written over, and nothing
\* becomes verified but by the command that completes it.
Harmed == raced \cup damaged

View(p) ==
    IF Empty(p) THEN "absent"
    ELSE IF Passes(p) THEN files[p][Environment] ELSE "incomplete"

Reader == INSTANCE EvidenceStore WITH
    Absent <- "absent", Incomplete <- "incomplete",
    evidence <- [p \in Packages |-> View(p)], harmed <- Harmed

StoreImplemented == Reader!Spec
=============================================================================

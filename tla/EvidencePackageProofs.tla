------------------------ MODULE EvidencePackageProofs ------------------------
(***************************************************************************)
(* Proofs about the evidence root, for any number of packages, commands    *)
(* and artifacts.                                                          *)
(***************************************************************************)
EXTENDS EvidencePackage, TLAPS

\* Names for lists of variables, and for a phase.
USE DEF packageVars, releaseVars, Publishing

-----------------------------------------------------------------------------
(* Constants and types.                                                     *)

\* The artifacts and the release files are numbered from one, and there is at
\* least one of either.
LEMMA ArtifactsNumbered ==
    /\ Len(Artifacts) \in Nat
    /\ DOMAIN Artifacts = 1..Len(Artifacts)
    /\ 1 \in DOMAIN Artifacts
    /\ \A i \in DOMAIN Artifacts : Artifacts[i] \in Names
    /\ \A n \in Names : \E i \in DOMAIN Artifacts : n = Artifacts[i]
<1>1. Len(Artifacts) \in Nat /\ DOMAIN Artifacts = 1..Len(Artifacts)
  BY EvidenceAssumption
<1>2. Environment \in Names
  BY EvidenceAssumption
<1> QED
  BY <1>1, <1>2 DEF Names

\* So are the release files.
LEMMA ReleaseFilesNumbered ==
    /\ Len(ReleaseFiles) \in Nat
    /\ DOMAIN ReleaseFiles = 1..Len(ReleaseFiles)
    /\ 1 \in DOMAIN ReleaseFiles
    /\ \A i \in DOMAIN ReleaseFiles : ReleaseFiles[i] \in Released
BY EvidenceAssumption DEF Released

\* The programs of the modes are numbered alike.
LEMMA ProgramsNumbered ==
    ASSUME NEW mode \in Modes
    PROVE  /\ mode.program \in Seq(Packages)
           /\ mode.release \in BOOLEAN
           /\ DOMAIN mode.program = 1..Len(mode.program)
           /\ 1 \in DOMAIN mode.program
<1>1. mode \in ModeType /\ mode.program # <<>>
  BY EvidenceAssumption
<1> QED
  BY <1>1 DEF ModeType

\* The verdict is written after what it is a verdict on.
LEMMA VerdictIsNotFirst ==
    ASSUME NEW i \in DOMAIN Artifacts, Artifacts[i] = Verification
    PROVE  \E j \in 1..(i - 1) : j \in DOMAIN Artifacts /\ Artifacts[j] = "process.csv"
<1>1. PICK j \in DOMAIN Artifacts : Artifacts[j] = "process.csv"
  BY EvidenceAssumption, ArtifactsNumbered
<1>2. j < i
  BY <1>1, EvidenceAssumption DEF Recalculated
<1> QED
  BY <1>1, <1>2, ArtifactsNumbered

\* Types, and where a command stands when it is about to recalculate.
TypeInv ==
    /\ EvidenceTypeOK
    /\ \A c \in Commands :
        command[c].phase = "recalculate" =>
            command[c].at \in DOMAIN Artifacts /\ Artifacts[command[c].at] = Verification

\* The steps of a command change its own record only, and keep it well typed.
StepsTyped(c) ==
    /\ command' \in [Commands -> CommandType]
    /\ \A d \in Commands \ {c} : command'[d] = command[d]
    /\ command'[c].mode = command[c].mode
    /\ command'[c].nth \in DOMAIN command[c].mode.program
    /\ command'[c].phase \in {"open", "fill", "digest"} => command'[c].at \in DOMAIN Artifacts
    /\ command'[c].phase = "publish" => command'[c].at \in DOMAIN ReleaseFiles
    /\ command'[c].phase = "recalculate" =>
        command'[c].at \in DOMAIN Artifacts /\ Artifacts[command'[c].at] = Verification

\* The package a command is at is one, and its record is well typed.
LEMMA PackageTyped ==
    ASSUME TypeInv, NEW c \in Commands
    PROVE  /\ Package(c) \in Packages
           /\ command[c] \in CommandType
           /\ command[c].mode \in Modes
BY ProgramsNumbered DEF TypeInv, EvidenceTypeOK, CommandType, Package

\* A command that goes on to a phase keeps its record well typed.
LEMMA GoTyped ==
    ASSUME TypeInv, NEW c \in Commands, NEW phase \in Phases \cup Ends, NEW at \in Nat,
           Go(c, phase, at),
           phase \in {"open", "fill", "digest", "recalculate"} => at \in DOMAIN Artifacts,
           phase = "recalculate" => Artifacts[at] = Verification,
           phase = "publish" => at \in DOMAIN ReleaseFiles
    PROVE  /\ StepsTyped(c)
           /\ command'[c].phase = phase
           /\ command'[c].at = at
           /\ command'[c].nth = command[c].nth
           /\ command'[c].recorded = command[c].recorded
<1>1. command[c] \in CommandType /\ command \in [Commands -> CommandType]
  BY DEF TypeInv, EvidenceTypeOK
<1>2. command' = [command EXCEPT ![c] = [command[c] EXCEPT !.phase = phase, !.at = at]]
  BY <1>1 DEF Go, CommandType
<1>3. [command[c] EXCEPT !.phase = phase, !.at = at] \in CommandType
  BY <1>1 DEF CommandType
<1>4. command'[c] = [command[c] EXCEPT !.phase = phase, !.at = at]
  BY <1>1, <1>2
<1>5. /\ command'[c].phase = phase
      /\ command'[c].at = at
      /\ command'[c].nth = command[c].nth
      /\ command'[c].recorded = command[c].recorded
      /\ command'[c].mode = command[c].mode
  BY <1>1, <1>4 DEF CommandType
<1>6. command[c].nth \in DOMAIN command[c].mode.program
  BY DEF TypeInv, EvidenceTypeOK
<1>7. \A d \in Commands \ {c} : command'[d] = command[d]
  BY <1>1, <1>2
<1>8. command' \in [Commands -> CommandType]
  BY <1>1, <1>2, <1>3
<1> QED
  BY <1>5, <1>6, <1>7, <1>8 DEF StepsTyped

\* What is left of the types when a step of a command is typed.
LEMMA StepTyped ==
    ASSUME TypeInv, NEW c \in Commands, StepsTyped(c),
           files' \in [Packages -> Digests],
           manifest' \in [Packages -> ManifestType],
           stray' = stray, agree' = agree, marked' = marked, damaged' = damaged,
           forgotten' = forgotten, overlapped' \in BOOLEAN,
           release' \in [Released -> Commands \cup {"absent"}],
           signed' \in [Signed -> Commands \cup {"absent"}],
           raced' \subseteq Packages
    PROVE  TypeInv'
BY DEF TypeInv, EvidenceTypeOK, StepsTyped

\* A check keeps the types, whether it opens the package or refuses it.
LEMMA CheckTyped ==
    ASSUME TypeInv, NEW c \in Commands, Check(c)
    PROVE  TypeInv' /\ StepsTyped(c)
<1>1. StepsTyped(c)
  <2>1. CASE Go(c, "open", 1)
    BY <2>1, GoTyped, ArtifactsNumbered DEF Phases, Ends
  <2>2. CASE Go(c, "refused", 1)
    BY <2>2, GoTyped DEF Phases, Ends
  <2> QED
    BY <2>1, <2>2 DEF Check
<1>2. raced' \subseteq Packages
  BY PackageTyped DEF Check, TypeInv, EvidenceTypeOK
<1> QED
  BY <1>1, <1>2, StepTyped DEF Check, TypeInv, EvidenceTypeOK

\* Storing an artifact keeps the files well typed.
LEMMA StoreTyped ==
    ASSUME TypeInv, NEW p \in Packages, NEW n \in Names, NEW content \in Contents,
           Store(p, n, content)
    PROVE  /\ files' \in [Packages -> Digests]
           /\ files'[p][n] = content
           /\ \A m \in Names : m # n => files'[p][m] = files[p][m]
           /\ \A q \in Packages : q # p => files'[q] = files[q]
<1>1. files \in [Packages -> Digests] /\ files[p] \in [Names -> Contents]
  BY DEF TypeInv, EvidenceTypeOK, Digests
<1>2. files' = [files EXCEPT ![p] = [files[p] EXCEPT ![n] = content]]
  BY <1>1 DEF Store
<1>3. [files[p] EXCEPT ![n] = content] \in Digests
  BY <1>1 DEF Digests
<1> QED
  BY <1>1, <1>2, <1>3

\* So does opening an artifact, which is one of the names.
LEMMA OpenTyped ==
    ASSUME TypeInv, NEW c \in Commands, Open(c)
    PROVE  /\ TypeInv' /\ StepsTyped(c)
           /\ Artifact(c) \in Names
<1>1. command[c].at \in DOMAIN Artifacts /\ command[c].at \in Nat
  BY ArtifactsNumbered DEF Open, TypeInv, EvidenceTypeOK, CommandType
<1>2. Artifact(c) \in Names
  BY <1>1, ArtifactsNumbered DEF Artifact
<1>3. StepsTyped(c)
  BY <1>1, GoTyped DEF Open, Phases, Ends
<1>4. files' \in [Packages -> Digests]
  BY <1>2, PackageTyped, StoreTyped DEF Open, Contents
<1> QED
  BY <1>2, <1>3, <1>4, StepTyped DEF Open, TypeInv, EvidenceTypeOK

\* Where a command stands after an artifact.
LEMMA FillTyped ==
    ASSUME TypeInv, NEW c \in Commands, Fill(c)
    PROVE  /\ TypeInv' /\ StepsTyped(c)
           /\ Artifact(c) \in Names
           /\ Written(c, Artifact(c)) \in Contents
<1> DEFINE at == command[c].at
<1>1. at \in DOMAIN Artifacts /\ at \in Nat
  BY ArtifactsNumbered DEF Fill, TypeInv, EvidenceTypeOK, CommandType
<1>2. Artifact(c) \in Names
  BY <1>1, ArtifactsNumbered DEF Artifact
<1>3. Written(c, Artifact(c)) \in Contents
  BY DEF Written, Contents
<1>4. StepsTyped(c)
  <2>1. CASE at = Len(Artifacts)
    BY <2>1, GoTyped, ArtifactsNumbered DEF Fill, AfterFilling, Phases, Ends
  <2>2. CASE at # Len(Artifacts)
    <3>1. at + 1 \in DOMAIN Artifacts
      BY <1>1, <2>2, ArtifactsNumbered
    <3>2. AfterFilling(at) \in {"recalculate", "open"}
      BY <2>2 DEF AfterFilling
    <3>3. AfterFilling(at) = "recalculate" => Artifacts[at + 1] = Verification
      BY <2>2 DEF AfterFilling
    <3>4. Go(c, AfterFilling(at), at + 1)
      BY <2>2 DEF Fill
    <3> HIDE DEF at
    <3> QED
      BY <1>1, <3>1, <3>2, <3>3, <3>4, GoTyped DEF Phases, Ends
  <2> QED
    BY <2>1, <2>2
<1>5. files' \in [Packages -> Digests]
  BY <1>2, <1>3, PackageTyped, StoreTyped DEF Fill
<1> QED
  BY <1>2, <1>3, <1>4, <1>5, StepTyped DEF Fill, TypeInv, EvidenceTypeOK

\* The recalculation keeps the types; it goes on to the artifact it came from.
LEMMA RecalculateTyped ==
    ASSUME TypeInv, NEW c \in Commands, Recalculate(c)
    PROVE  TypeInv' /\ StepsTyped(c)
<1>1. StepsTyped(c)
  <2>1. CASE Go(c, "open", command[c].at)
    BY <2>1, GoTyped, ArtifactsNumbered DEF Recalculate, TypeInv, Phases, Ends
  <2>2. CASE Go(c, "failed", 1)
    BY <2>2, GoTyped DEF Phases, Ends
  <2> QED
    BY <2>1, <2>2 DEF Recalculate
<1> QED
  BY <1>1, StepTyped DEF Recalculate, TypeInv, EvidenceTypeOK

\* Taking a digest: the record of the command in full.
LEMMA DigestTyped ==
    ASSUME TypeInv, NEW c \in Commands, Digest(c)
    PROVE  /\ TypeInv' /\ StepsTyped(c)
           /\ Artifact(c) \in Names
           /\ command'[c].nth = command[c].nth
           /\ command'[c].phase \in {"digest", "seal"}
           /\ command'[c].phase = "digest" => command'[c].at = command[c].at + 1
           /\ command'[c].phase = "seal" => command[c].at = Len(Artifacts)
           /\ command'[c].recorded =
                [command[c].recorded EXCEPT ![Artifact(c)] = files[Package(c)][Artifact(c)]]
<1> DEFINE last == command[c].at = Len(Artifacts)
           new == [command[c] EXCEPT
                    !.recorded = [command[c].recorded EXCEPT
                                    ![Artifact(c)] = files[Package(c)][Artifact(c)]],
                    !.phase = IF last THEN "seal" ELSE "digest",
                    !.at = IF last THEN 1 ELSE command[c].at + 1]
<1>1. command[c] \in CommandType /\ command \in [Commands -> CommandType]
  BY DEF TypeInv, EvidenceTypeOK
<1>2. command[c].at \in DOMAIN Artifacts /\ command[c].phase = "digest"
  BY DEF Digest, TypeInv, EvidenceTypeOK
<1>3. Artifact(c) \in Names
  BY <1>2, ArtifactsNumbered DEF Artifact
<1>4. files[Package(c)][Artifact(c)] \in Contents
  BY <1>3, PackageTyped DEF TypeInv, EvidenceTypeOK, Digests
<1>5. command' = [command EXCEPT ![c] = new]
  BY <1>1 DEF Digest, CommandType
<1>6. [command[c].recorded EXCEPT ![Artifact(c)] = files[Package(c)][Artifact(c)]] \in Digests
  BY <1>1, <1>4 DEF CommandType, Digests
<1>7. /\ new.recorded = [command[c].recorded EXCEPT
                            ![Artifact(c)] = files[Package(c)][Artifact(c)]]
      /\ new.phase = IF last THEN "seal" ELSE "digest"
      /\ new.at = IF last THEN 1 ELSE command[c].at + 1
      /\ new.nth = command[c].nth
      /\ new.mode = command[c].mode
  BY <1>1 DEF CommandType
<1>8. new \in CommandType
  <2>1. (IF last THEN "seal" ELSE "digest") \in Phases \cup Ends
    BY DEF Phases
  <2>2. (IF last THEN 1 ELSE command[c].at + 1) \in Nat
    BY <1>2, ArtifactsNumbered
  <2> QED
    BY <1>1, <1>6, <2>1, <2>2 DEF CommandType
<1> HIDE DEF new
<1>9. command'[c] = new /\ \A d \in Commands \ {c} : command'[d] = command[d]
  BY <1>1, <1>5
<1>10. command' \in [Commands -> CommandType]
  BY <1>1, <1>5, <1>8
<1>11. ~last => command[c].at + 1 \in DOMAIN Artifacts
  BY <1>2, ArtifactsNumbered
<1>12. command[c].nth \in DOMAIN command[c].mode.program
  BY DEF TypeInv, EvidenceTypeOK
<1>13. StepsTyped(c)
  BY <1>7, <1>9, <1>10, <1>11, <1>12 DEF StepsTyped
<1>14. TypeInv'
  BY <1>13, StepTyped DEF Digest, TypeInv, EvidenceTypeOK
<1> QED
  BY <1>3, <1>7, <1>9, <1>13, <1>14

\* What stands for no manifest is of the type of one.
LEMMA NoManifestTyped ==
    ASSUME NEW p \in Packages
    PROVE  NoFile \in Digests /\ NoManifest(p) \in ManifestType
BY DEF NoFile, NoManifest, ManifestType, Digests, Contents, Damages

\* Truncating the manifest keeps the types and touches one package.
LEMMA SealTyped ==
    ASSUME TypeInv, NEW c \in Commands, Seal(c)
    PROVE  /\ TypeInv' /\ StepsTyped(c)
           /\ manifest'[Package(c)].state = "partial"
           /\ \A q \in Packages : q # Package(c) => manifest'[q] = manifest[q]
<1> DEFINE p == Package(c)
           new == [NoManifest(p) EXCEPT !.state = "partial"]
<1>1. p \in Packages
  BY PackageTyped
<1>2. new \in ManifestType /\ new.state = "partial"
  BY <1>1, NoManifestTyped DEF NoManifest, ManifestType
<1>3. manifest' = [manifest EXCEPT ![p] = new] /\ manifest \in [Packages -> ManifestType]
  BY DEF Seal, TypeInv, EvidenceTypeOK
<1>4. StepsTyped(c)
  BY GoTyped DEF Seal, Phases, Ends
<1> HIDE DEF new, p
<1>5. /\ manifest' \in [Packages -> ManifestType]
      /\ manifest'[p] = new
      /\ \A q \in Packages : q # p => manifest'[q] = manifest[q]
  BY <1>1, <1>2, <1>3
<1>6. TypeInv'
  BY <1>4, <1>5, StepTyped DEF Seal, TypeInv, EvidenceTypeOK
<1> QED
  BY <1>2, <1>4, <1>5, <1>6 DEF p

\* Filling it puts the recorded digests into it, and touches one package.
LEMMA SignTyped ==
    ASSUME TypeInv, NEW c \in Commands, Sign(c)
    PROVE  /\ TypeInv' /\ StepsTyped(c)
           /\ command'[c].phase = "packaged"
           /\ manifest'[Package(c)].seal = command[c].recorded
           /\ \A q \in Packages : q # Package(c) => manifest'[q] = manifest[q]
<1> DEFINE p == Package(c)
           new == [state |-> "whole", id |-> p,
                   digests |-> command[c].recorded, seal |-> command[c].recorded]
           record == [command[c] EXCEPT !.phase = "packaged", !.recorded = NoFile]
<1>1. p \in Packages /\ command[c] \in CommandType
  BY PackageTyped
<1>2. new \in ManifestType
  BY <1>1 DEF ManifestType, CommandType
<1>3. manifest' = [manifest EXCEPT ![p] = new] /\ manifest \in [Packages -> ManifestType]
  BY DEF Sign, TypeInv, EvidenceTypeOK
<1>4. record \in CommandType /\ record.phase = "packaged"
      /\ record.mode = command[c].mode /\ record.nth = command[c].nth
  BY <1>1, NoManifestTyped DEF CommandType, Phases
<1>5. command' = [command EXCEPT ![c] = record] /\ command \in [Commands -> CommandType]
  BY <1>1 DEF Sign, CommandType, TypeInv, EvidenceTypeOK
<1>6. new.seal = command[c].recorded
  OBVIOUS
<1> HIDE DEF new, record, p
<1>7. /\ manifest' \in [Packages -> ManifestType]
      /\ manifest'[p] = new
      /\ \A q \in Packages : q # p => manifest'[q] = manifest[q]
  BY <1>1, <1>2, <1>3
<1>8. /\ command' \in [Commands -> CommandType]
      /\ command'[c] = record
      /\ \A d \in Commands \ {c} : command'[d] = command[d]
  BY <1>4, <1>5
<1>9. command[c].nth \in DOMAIN command[c].mode.program
  BY DEF TypeInv, EvidenceTypeOK
<1>10. StepsTyped(c)
  BY <1>4, <1>8, <1>9 DEF StepsTyped
<1>11. TypeInv'
  BY <1>7, <1>10, StepTyped DEF Sign, TypeInv, EvidenceTypeOK
<1> QED
  BY <1>4, <1>6, <1>7, <1>8, <1>10, <1>11 DEF p

\* A command that is done with a package stays within its program.
LEMMA ContinueTyped ==
    ASSUME TypeInv, NEW c \in Commands, Continue(c)
    PROVE  /\ TypeInv' /\ StepsTyped(c)
           /\ command'[c].phase \in {"failed", "check", "publish", "done"}
<1>1. StepsTyped(c) /\ command'[c].phase \in {"failed", "check", "publish", "done"}
  <2>1. CASE Go(c, "failed", 1)
    BY <2>1, GoTyped DEF Phases, Ends
  <2>2. CASE Go(c, "publish", 1)
    BY <2>2, GoTyped, ReleaseFilesNumbered DEF Phases, Ends
  <2>3. CASE Go(c, "done", 1)
    BY <2>3, GoTyped DEF Phases, Ends
  <2>4. CASE /\ command[c].nth < Len(command[c].mode.program)
             /\ command' = [command EXCEPT ![c].phase = "check", ![c].nth = @ + 1]
    <3> DEFINE record == [command[c] EXCEPT !.phase = "check", !.nth = command[c].nth + 1]
    <3>1. command[c] \in CommandType /\ command \in [Commands -> CommandType]
      BY DEF TypeInv, EvidenceTypeOK
    <3>2. command' = [command EXCEPT ![c] = record]
      BY <2>4, <3>1 DEF CommandType
    <3>3. /\ record \in CommandType
          /\ record.phase = "check" /\ record.mode = command[c].mode
          /\ record.nth = command[c].nth + 1
      <4>1. "check" \in Phases \cup Ends
        BY DEF Phases
      <4>2. command[c].nth + 1 \in Nat
        BY <3>1 DEF CommandType
      <4> QED
        BY <3>1, <4>1, <4>2 DEF CommandType
    <3>4. command[c].nth + 1 \in DOMAIN command[c].mode.program
      BY <2>4, <3>1, PackageTyped, ProgramsNumbered DEF CommandType
    <3> HIDE DEF record
    <3> QED
      BY <3>1, <3>2, <3>3, <3>4 DEF StepsTyped
  <2> QED
    BY <2>1, <2>2, <2>3, <2>4 DEF Continue
<1> QED
  BY <1>1, StepTyped DEF Continue, TypeInv, EvidenceTypeOK

\* A command that publishes stays within the release files.
LEMMA PublishTyped ==
    ASSUME TypeInv, NEW c \in Commands, Publish(c)
    PROVE  /\ TypeInv' /\ StepsTyped(c)
           /\ command'[c].phase \in {"failed", "publish", "done"}
<1> DEFINE at == command[c].at
<1>1. at \in DOMAIN ReleaseFiles /\ at \in Nat
  BY ReleaseFilesNumbered DEF Publish, TypeInv, EvidenceTypeOK, CommandType
<1>2. StepsTyped(c) /\ command'[c].phase \in {"failed", "publish", "done"}
  <2>1. CASE Go(c, "failed", 1)
    BY <2>1, GoTyped DEF Phases, Ends
  <2>2. CASE Go(c, "done", 1)
    BY <2>2, GoTyped DEF Phases, Ends
  <2>3. CASE at # Len(ReleaseFiles) /\ Go(c, "publish", at + 1)
    <3>1. at + 1 \in DOMAIN ReleaseFiles
      BY <1>1, <2>3, ReleaseFilesNumbered
    <3> QED
      BY <1>1, <2>3, <3>1, GoTyped DEF Phases, Ends
  <2> QED
    BY <2>1, <2>2, <2>3 DEF Publish
<1>3. /\ release' \in [Released -> Commands \cup {"absent"}]
      /\ signed' \in [Signed -> Commands \cup {"absent"}]
  <2>1. release \in [Released -> Commands \cup {"absent"}]
        /\ signed \in [Signed -> Commands \cup {"absent"}]
    BY DEF TypeInv, EvidenceTypeOK
  <2>2. ASSUME Publishes(c, ReleaseFiles[at])
        PROVE  <1>3
    BY <1>1, <2>1, <2>2, ReleaseFilesNumbered DEF Publishes, Signed
  <2> QED
    BY <2>1, <2>2 DEF Publish
<1> QED
  BY <1>2, <1>3, StepTyped DEF Publish, TypeInv, EvidenceTypeOK

\* A killed command keeps its package and loses its digests.
LEMMA KillTyped ==
    ASSUME TypeInv, NEW c \in Commands, Kill(c)
    PROVE  /\ TypeInv' /\ StepsTyped(c)
           /\ command'[c].phase = "killed"
<1> DEFINE record == [command[c] EXCEPT !.phase = "killed", !.at = 1, !.recorded = NoFile]
<1>1. command[c] \in CommandType /\ command \in [Commands -> CommandType]
  BY DEF TypeInv, EvidenceTypeOK
<1>2. command' = [command EXCEPT ![c] = record]
  BY <1>1 DEF Kill, CommandType
<1>3. /\ record \in CommandType
      /\ record.phase = "killed" /\ record.mode = command[c].mode
      /\ record.nth = command[c].nth
  <2>1. "killed" \in Phases \cup Ends
    BY DEF Ends
  <2>2. NoFile \in Digests
    BY DEF NoFile, Digests, Contents, Damages
  <2> QED
    BY <1>1, <2>1, <2>2 DEF CommandType
<1>4. command[c].nth \in DOMAIN command[c].mode.program
  BY DEF TypeInv, EvidenceTypeOK
<1> HIDE DEF record
<1>5. StepsTyped(c) /\ command'[c].phase = "killed"
  BY <1>1, <1>2, <1>3, <1>4 DEF StepsTyped
<1> QED
  BY <1>5, StepTyped DEF Kill, TypeInv, EvidenceTypeOK

\* Damage keeps the types, and neither raises a manifest nor alters a seal.
LEMMA DamageTyped ==
    ASSUME TypeInv, NEW p \in Packages, Damage(p)
    PROVE  /\ TypeInv'
           /\ \A q \in Packages : manifest'[q].state = "whole" =>
                manifest[q].state = "whole" /\ manifest'[q].seal = manifest[q].seal
           /\ \A q \in Packages, n \in Names :
                files'[q][n] = files[q][n] \/ (q = p /\ files'[q][n] \in Damages \cup {"rejected"})
<1>1. manifest \in [Packages -> ManifestType] /\ manifest[p] \in ManifestType
  BY DEF TypeInv, EvidenceTypeOK
<1>2. /\ files' \in [Packages -> Digests]
      /\ \A q \in Packages, n \in Names :
            files'[q][n] = files[q][n] \/ (q = p /\ files'[q][n] \in Damages \cup {"rejected"})
  <2>1. CASE UNCHANGED files
    BY <2>1 DEF TypeInv, EvidenceTypeOK
  <2>2. CASE \E n \in Names, kind \in Damages \cup {"rejected"} : Store(p, n, kind)
    BY <2>2, StoreTyped DEF Contents
  <2> QED
    BY <2>1, <2>2 DEF Damage, DamagesTo
<1>3. /\ manifest' \in [Packages -> ManifestType]
      /\ \A q \in Packages : manifest'[q].state = "whole" =>
            manifest[q].state = "whole" /\ manifest'[q].seal = manifest[q].seal
  <2>1. CASE UNCHANGED manifest
    BY <2>1 DEF TypeInv, EvidenceTypeOK
  <2>2. ASSUME NEW new \in ManifestType,
               manifest[p].state = "whole", new.seal = manifest[p].seal,
               manifest' = [manifest EXCEPT ![p] = new]
        PROVE  <1>3!1 /\ <1>3!2
    BY <1>1, <2>2
  <2>3. ASSUME NEW kind \in Damages, manifest[p].state = "whole",
               manifest' = [manifest EXCEPT ![p].state = kind]
        PROVE  <1>3!1 /\ <1>3!2
    <3> DEFINE new == [manifest[p] EXCEPT !.state = kind]
    <3>1. new \in ManifestType /\ new.seal = manifest[p].seal
      BY <1>1 DEF ManifestType, Damages
    <3>2. manifest' = [manifest EXCEPT ![p] = new]
      BY <1>1, <2>3 DEF ManifestType
    <3> HIDE DEF new
    <3> QED
      BY <2>2, <2>3, <3>1, <3>2
  <2>4. ASSUME manifest[p].state = "whole",
               manifest' = [manifest EXCEPT ![p].id = "foreign"]
        PROVE  <1>3!1 /\ <1>3!2
    <3> DEFINE new == [manifest[p] EXCEPT !.id = "foreign"]
    <3>1. new \in ManifestType /\ new.seal = manifest[p].seal
      BY <1>1 DEF ManifestType
    <3>2. manifest' = [manifest EXCEPT ![p] = new]
      BY <1>1, <2>4 DEF ManifestType
    <3> HIDE DEF new
    <3> QED
      BY <2>2, <2>4, <3>1, <3>2
  <2>5. ASSUME NEW n \in Names, manifest[p].state = "whole",
               manifest' = [manifest EXCEPT ![p].digests[n] = "garbled"]
        PROVE  <1>3!1 /\ <1>3!2
    <3> DEFINE digests == [manifest[p].digests EXCEPT ![n] = "garbled"]
               new == [manifest[p] EXCEPT !.digests = digests]
    <3>1. digests \in Digests
      BY <1>1 DEF ManifestType, Digests, Contents, Damages
    <3>2. new \in ManifestType /\ new.seal = manifest[p].seal
      BY <1>1, <3>1 DEF ManifestType
    <3>3. manifest' = [manifest EXCEPT ![p] = new]
      BY <1>1, <2>5 DEF ManifestType
    <3> HIDE DEF new
    <3> QED
      BY <2>2, <2>5, <3>2, <3>3
  <2> QED
    BY <2>1, <2>3, <2>4, <2>5 DEF Damage
<1>4. stray' \in [Packages -> BOOLEAN]
  BY DEF Damage, TypeInv, EvidenceTypeOK
<1>5. damaged' \subseteq Packages
  BY DEF Damage, TypeInv, EvidenceTypeOK
<1>6. TypeInv'
  BY <1>2, <1>3, <1>4, <1>5 DEF Damage, TypeInv, EvidenceTypeOK
<1> QED
  BY <1>2, <1>3, <1>6

\* A clean root is well typed, and so is a clean release directory.
LEMMA CleanTyped ==
    ASSUME TypeInv, CleanEvidence \/ CleanRelease
    PROVE  TypeInv'
<1>1. CASE CleanEvidence
  <2>1. files' \in [Packages -> Digests] /\ manifest' \in [Packages -> ManifestType]
    BY <1>1, NoManifestTyped DEF CleanEvidence
  <2> QED
    BY <1>1, <2>1 DEF CleanEvidence, releaseVars, TypeInv, EvidenceTypeOK
<1>2. CASE CleanRelease
  <2>1. /\ release' \in [Released -> Commands \cup {"absent"}]
        /\ signed' \in [Signed -> Commands \cup {"absent"}]
    BY <1>2 DEF CleanRelease, TypeInv, EvidenceTypeOK
  <2> QED
    BY <1>2, <2>1 DEF CleanRelease, packageVars, TypeInv, EvidenceTypeOK
<1> QED
  BY <1>1, <1>2

\* So is the root at first.
LEMMA InitTyped ==
    ASSUME Init
    PROVE  TypeInv
<1>1. command \in [Commands -> CommandType]
  <2>1. NoFile \in Digests
    BY DEF NoFile, Digests, Contents, Damages
  <2>2. "ready" \in Phases \cup Ends
    BY DEF Phases
  <2>3. [mode : Modes, phase : {"ready"}, nth : {1}, at : {1}, recorded : {NoFile}]
            \subseteq CommandType
    BY <2>1, <2>2 DEF CommandType
  <2> QED
    BY <2>3 DEF Init
<1>2. \A c \in Commands : command[c].phase = "ready" /\ command[c].nth = 1
  BY DEF Init
<1>3. \A c \in Commands : command[c].nth \in DOMAIN command[c].mode.program
  BY <1>1, <1>2, ProgramsNumbered DEF CommandType
<1>4. files \in [Packages -> Digests] /\ manifest \in [Packages -> ManifestType]
  BY NoManifestTyped DEF Init
<1> QED
  BY <1>1, <1>2, <1>3, <1>4 DEF Init, TypeInv, EvidenceTypeOK

\* Every step keeps the types.
LEMMA StepKeepsTypes ==
    ASSUME TypeInv, [Next]_evidenceVars
    PROVE  TypeInv'
<1>1. CASE UNCHANGED evidenceVars
  BY <1>1 DEF evidenceVars, TypeInv, EvidenceTypeOK
<1>2. ASSUME NEW c \in Commands, CommandStep(c) PROVE TypeInv'
  BY <1>2, CheckTyped, OpenTyped, FillTyped, RecalculateTyped, DigestTyped, SealTyped,
     SignTyped, ContinueTyped, PublishTyped, KillTyped DEF CommandStep
<1>3. ASSUME NEW p \in Packages, Damage(p) PROVE TypeInv'
  BY <1>3, DamageTyped
<1> QED
  BY <1>1, <1>2, <1>3, CleanTyped DEF Next

\* Every reachable state of the evidence root is type correct: no command ever
\* stands at an artifact, a package or a release file that does not exist.
THEOREM EvidenceTypeCorrect == Spec => []EvidenceTypeOK
<1>1. TypeInv => EvidenceTypeOK
  BY DEF TypeInv
<1> QED
  BY InitTyped, StepKeepsTypes, <1>1, PTL DEF Spec

-----------------------------------------------------------------------------
(* What a package holds while and after commands write it.                  *)

Intact == \A c \in Commands : command[c].phase \notin {"killed", "failed"}

\* What may stand in an artifact its writer is done with: in a package that two
\* commands have written the other may have truncated it again.
Whole(p, n) == Fresh(n) \cup {x \in {"partial"} : p \in raced}

Done(c, i) == command[c].phase \in {"digest", "seal", "sign"} \/ i < command[c].at

\* The verdict has been reached when its artifact has.
Recounted(at) == \E i \in DOMAIN Artifacts : i <= at /\ Artifacts[i] = Verification

Past(c) ==
    \/ command[c].phase \in {"digest", "seal", "sign"}
    \/ command[c].phase \in {"open", "fill"} /\ Recounted(command[c].at)

Early(c) ==
    \/ command[c].phase = "recalculate"
    \/ command[c].phase \in {"open", "fill"} /\ ~Recounted(command[c].at)

\* Somebody has found that the recalculation agrees.
Claimed(p) ==
    manifest[p].state = "whole" \/ \E c \in Commands : Past(c) /\ Package(c) = p

\* A package has one writer unless it is known to be raced.
AloneInv ==
    \A p \in Packages \ raced : \A c, d \in Commands : Writing(c, p) /\ Writing(d, p) => c = d

FilledInv ==
    \A c \in Commands : command[c].phase \in WritingPhases =>
        \A i \in DOMAIN Artifacts : Done(c, i) =>
            files[Package(c)][Artifacts[i]] \in Whole(Package(c), Artifacts[i])

RecordedInv ==
    \A c \in Commands, i \in DOMAIN Artifacts :
        \/ command[c].phase \in {"seal", "sign"}
        \/ command[c].phase = "digest" /\ i < command[c].at
        => command[c].recorded[Artifacts[i]] \in Whole(Package(c), Artifacts[i])

SealedInv ==
    \A p \in Packages : manifest[p].state = "whole" =>
        \A n \in Names : manifest[p].seal[n] \in Whole(p, n)

\* A truncated artifact is being filled, or its writer came to no good end.
PartialInv ==
    \A p \in Packages, n \in Names : files[p][n] = "partial" =>
        \/ ~Intact
        \/ \E c \in Commands :
            command[c].phase = "fill" /\ Package(c) = p /\ Artifact(c) = n

AgreedInv == \A p \in Packages \ raced : Claimed(p) => agree[p]

\* In a raced package a command may have recalculated from a file another was
\* writing, but that other has yet to recalculate itself.
RacedInv ==
    \A p \in Packages : Claimed(p) =>
        \/ agree[p]
        \/ ~Intact
        \/ \E c \in Commands : Early(c) /\ Package(c) = p

WriterInv ==
    /\ TypeInv
    /\ AloneInv /\ FilledInv /\ RecordedInv /\ SealedInv
    /\ PartialInv /\ AgreedInv /\ RacedInv

-----------------------------------------------------------------------------
(* What every step of a command leaves alone.                               *)

\* The step does not bring the command to a package.
Stays(c) ==
    /\ StepsTyped(c)
    /\ command'[c].phase \in WritingPhases =>
        command[c].phase \in WritingPhases /\ command'[c].nth = command[c].nth

\* A command at work on a package is either before its recalculation or past it.
LEMMA PhasesAreWriting ==
    ASSUME TypeInv, NEW c \in Commands
    PROVE  /\ Past(c) \/ Early(c) <=> command[c].phase \in WritingPhases
           /\ ~(Past(c) /\ Early(c))
BY DEF Past, Early, WritingPhases

\* A step of one command leaves what is known of every other.
LEMMA OthersStay ==
    ASSUME NEW c \in Commands, StepsTyped(c)
    PROVE  \A d \in Commands \ {c} :
                /\ command'[d] = command[d]
                /\ Package(d)' = Package(d)
                /\ Artifact(d)' = Artifact(d)
                /\ Past(d)' = Past(d)
                /\ Early(d)' = Early(d)
                /\ \A p : Writing(d, p)' = Writing(d, p)
                /\ \A i : Done(d, i)' = Done(d, i)
BY DEF StepsTyped, Package, Artifact, Past, Early, Writing, Done, Recounted

\* A command that goes on stays at its package, with what it has recorded.
LEMMA GoSets ==
    ASSUME TypeInv, NEW c \in Commands, NEW phase, NEW at, Go(c, phase, at)
    PROVE  /\ command'[c].phase = phase
           /\ command'[c].at = at
           /\ command'[c].nth = command[c].nth
           /\ command'[c].recorded = command[c].recorded
<1>1. command[c] \in CommandType /\ command \in [Commands -> CommandType]
  BY DEF TypeInv, EvidenceTypeOK
<1> QED
  BY <1>1 DEF Go, CommandType

\* A command that stays at its place in the program stays at its package.
LEMMA PackageStays ==
    ASSUME NEW c \in Commands, StepsTyped(c), command'[c].nth = command[c].nth
    PROVE  Package(c)' = Package(c)
BY DEF StepsTyped, Package

\* Only a check brings a command to a package.
LEMMA AllButChecksStay ==
    ASSUME TypeInv, NEW c \in Commands,
           \/ Open(c) \/ Fill(c) \/ Recalculate(c) \/ Digest(c) \/ Seal(c) \/ Sign(c)
           \/ Continue(c) \/ Publish(c) \/ Kill(c)
    PROVE  Stays(c)
<1>1. CASE Open(c)
  BY <1>1, OpenTyped, GoSets DEF Open, Stays, WritingPhases
<1>2. CASE Fill(c)
  BY <1>2, FillTyped, GoSets DEF Fill, Stays, WritingPhases
<1>3. CASE Recalculate(c)
  BY <1>3, RecalculateTyped, GoSets DEF Recalculate, Stays, WritingPhases
<1>4. CASE Digest(c)
  BY <1>4, DigestTyped DEF Digest, Stays, WritingPhases
<1>5. CASE Seal(c)
  BY <1>5, SealTyped, GoSets DEF Seal, Stays, WritingPhases
<1>6. CASE Sign(c)
  BY <1>6, SignTyped DEF Stays, WritingPhases
<1>7. CASE Continue(c)
  BY <1>7, ContinueTyped DEF Stays, WritingPhases
<1>8. CASE Publish(c)
  BY <1>8, PublishTyped DEF Stays, WritingPhases
<1>9. CASE Kill(c)
  BY <1>9, KillTyped DEF Stays, WritingPhases
<1> QED
  BY <1>1, <1>2, <1>3, <1>4, <1>5, <1>6, <1>7, <1>8, <1>9

\* A check that finds the directory empty.
LEMMA CheckOpens ==
    ASSUME TypeInv, NEW c \in Commands, Check(c), command'[c].phase \in WritingPhases
    PROVE  /\ Package(c)' = Package(c)
           /\ command'[c].phase = "open" /\ command'[c].at = 1
           /\ manifest[Package(c)].state = "absent"
           /\ Early(c)' /\ ~Past(c)'
           /\ AtRest(Package(c)) \/ Package(c) \in raced'
<1>1. command[c] \in CommandType /\ command \in [Commands -> CommandType]
  BY DEF TypeInv, EvidenceTypeOK
<1>2. CASE Empty(Package(c)) /\ Go(c, "open", 1)
  <2>1. command'[c].phase = "open" /\ command'[c].at = 1 /\ command'[c].nth = command[c].nth
    BY <1>2, GoTyped, ArtifactsNumbered DEF Phases, Ends
  <2>2. Package(c)' = Package(c)
    BY <2>1, CheckTyped, PackageStays
  <2>3. ~Recounted(1)
    <3>1. SUFFICES ASSUME NEW i \in DOMAIN Artifacts, i <= 1, Artifacts[i] = Verification
                   PROVE  FALSE
      BY DEF Recounted
    <3>2. i - 1 < 1
      BY <3>1, ArtifactsNumbered
    <3> QED
      BY <3>1, <3>2, VerdictIsNotFirst, ArtifactsNumbered
  <2>4. Early(c)' /\ ~Past(c)'
    BY <2>1, <2>3 DEF Early, Past, Recounted
  <2> QED
    BY <1>2, <2>1, <2>2, <2>4 DEF Check, Empty
<1>3. CASE ~Empty(Package(c)) /\ Go(c, "refused", 1)
  BY <1>1, <1>3 DEF Go, CommandType, WritingPhases
<1> QED
  BY <1>2, <1>3 DEF Check

\* Only a check adds to the packages that are known to be raced, and only a
\* clean root forgets them.
LEMMA RacedGrows ==
    ASSUME NEW c \in Commands, CommandStep(c)
    PROVE  /\ raced \subseteq raced'
           /\ agree' = agree
           /\ \A p, n : Whole(p, n) \subseteq Whole(p, n)'
<1>1. raced \subseteq raced' /\ agree' = agree
  BY DEF CommandStep, Check, Open, Fill, Recalculate, Digest, Seal, Sign, Continue,
         Publish, Kill
<1>2. \A n : Fresh(n)' = Fresh(n)
  BY DEF Fresh
<1> QED
  BY <1>1, <1>2 DEF Whole

\* Nobody writes while the root is cleaned.
LEMMA NobodyWritesWhenCleaned ==
    ASSUME CleanEvidence
    PROVE  \A c \in Commands : command'[c].phase \notin WritingPhases
BY DEF CleanEvidence, UnderWay, Ends, WritingPhases

\* No command leaves an end.
LEMMA EndsAreFinal ==
    ASSUME TypeInv, NEW c \in Commands, CommandStep(c)
    PROVE  /\ command[c].phase \notin {"killed", "failed"}
           /\ ~Intact => ~Intact'
<1>1. command[c].phase \notin {"killed", "failed"}
  BY DEF CommandStep, Check, Open, Fill, Recalculate, Digest, Seal, Sign, Continue,
         Publish, Kill, UnderWay, Ends
<1>2. StepsTyped(c)
  BY CheckTyped, OpenTyped, FillTyped, RecalculateTyped, DigestTyped, SealTyped,
     SignTyped, ContinueTyped, PublishTyped, KillTyped DEF CommandStep
<1> QED
  BY <1>1, <1>2 DEF Intact, StepsTyped

-----------------------------------------------------------------------------
(* One writer.                                                              *)

\* A second writer comes only by a check, which then knows the package as raced.
LEMMA StepKeepsAlone ==
    ASSUME WriterInv, Next, ~CleanRelease
    PROVE  AloneInv'
<1> USE DEF WriterInv
<1>1. SUFFICES ASSUME NEW p \in Packages, p \notin raced',
                      NEW d \in Commands, NEW e \in Commands,
                      Writing(d, p)', Writing(e, p)'
               PROVE  d = e
  BY DEF AloneInv
<1>2. ASSUME NEW c \in Commands, Stays(c), raced' = raced PROVE d = e
  <2>1. \A f \in Commands : Writing(f, p)' => Writing(f, p)
    BY <1>2, OthersStay, PackageStays DEF Stays, Writing
  <2> QED
    BY <1>1, <1>2, <2>1 DEF AloneInv
<1>3. ASSUME NEW c \in Commands, Check(c) PROVE d = e
  <2>1. \A f \in Commands \ {c} : Writing(f, p)' => Writing(f, p)
    BY <1>3, CheckTyped, OthersStay
  <2>2. Writing(c, p)' => AtRest(p)
    BY <1>1, <1>3, CheckOpens DEF Writing
  <2>3. p \notin raced
    BY <1>1, <1>3 DEF Check
  <2> QED
    BY <1>1, <2>1, <2>2, <2>3 DEF AloneInv, AtRest
<1>4. CASE UNCHANGED <<command, raced>>
  BY <1>1, <1>4 DEF AloneInv, Writing, Package
<1>5. CASE CleanEvidence
  BY <1>1, <1>5, NobodyWritesWhenCleaned DEF Writing
<1>6. ASSUME NEW c \in Commands, CommandStep(c), ~Check(c) PROVE d = e
  <2>1. Stays(c)
    BY <1>6, AllButChecksStay DEF CommandStep
  <2>2. raced' = raced
    BY <1>6 DEF CommandStep, Open, Fill, Recalculate, Digest, Seal, Sign, Continue,
                Publish, Kill
  <2> QED
    BY <1>2, <2>1, <2>2
<1> QED
  BY <1>3, <1>4, <1>5, <1>6 DEF Next, Damage

-----------------------------------------------------------------------------
(* What is filled stays filled.                                             *)

\* A step that stores nothing.
LEMMA FilledUnlessStored ==
    ASSUME TypeInv, FilledInv, NEW c \in Commands, CommandStep(c), StepsTyped(c),
           files' = files,
           command'[c].phase \in WritingPhases =>
                /\ Package(c)' = Package(c)
                /\ \A i \in DOMAIN Artifacts : Done(c, i)' =>
                        Done(c, i) /\ command[c].phase \in WritingPhases
    PROVE  FilledInv'
<1>1. SUFFICES ASSUME NEW d \in Commands, command'[d].phase \in WritingPhases,
                      NEW i \in DOMAIN Artifacts, Done(d, i)'
               PROVE  (files[Package(d)][Artifacts[i]] \in Whole(Package(d), Artifacts[i]))'
  BY DEF FilledInv
<1>2. /\ Package(d)' = Package(d)
      /\ Done(d, i) /\ command[d].phase \in WritingPhases
  BY <1>1, OthersStay
<1>3. files[Package(d)][Artifacts[i]] \in Whole(Package(d), Artifacts[i])
  BY <1>2 DEF FilledInv
<1> QED
  BY <1>2, <1>3, RacedGrows

\* What a command is done with stays whole, unless another truncates it in a raced
\* package.
LEMMA StepKeepsFilled ==
    ASSUME WriterInv, Next, ~CleanRelease
    PROVE  FilledInv'
<1> USE DEF WriterInv
<1>1. ASSUME NEW c \in Commands, Check(c) PROVE FilledInv'
  <2>1. StepsTyped(c) /\ CommandStep(c) /\ files' = files
    BY <1>1, CheckTyped DEF CommandStep, Check
  <2>2. command'[c].phase \in WritingPhases =>
            /\ Package(c)' = Package(c)
            /\ \A i \in DOMAIN Artifacts : ~Done(c, i)'
    BY <1>1, CheckOpens, ArtifactsNumbered DEF Done
  <2> QED
    BY <2>1, <2>2, FilledUnlessStored
<1>2. ASSUME NEW c \in Commands, Open(c) PROVE FilledInv'
  <2> DEFINE p == Package(c)
  <2>1. SUFFICES ASSUME NEW d \in Commands, command'[d].phase \in WritingPhases,
                        NEW i \in DOMAIN Artifacts, Done(d, i)'
                 PROVE  (files[Package(d)][Artifacts[i]] \in Whole(Package(d), Artifacts[i]))'
    BY DEF FilledInv
  <2>2. /\ StepsTyped(c) /\ Artifact(c) \in Names /\ p \in Packages
        /\ command'[c].phase = "fill" /\ command'[c].at = command[c].at
        /\ Package(c)' = p
        /\ command[c].at \in DOMAIN Artifacts
    BY <1>2, OpenTyped, PackageTyped, PackageStays, GoSets
    DEF Open, TypeInv, EvidenceTypeOK
  <2>3. /\ Package(d)' = Package(d)
        /\ Done(d, i) /\ command[d].phase \in WritingPhases
    BY <1>2, <2>1, <2>2, OthersStay DEF Done, Open, WritingPhases
  <2>4. Package(d) \in Packages /\ Artifacts[i] \in Names
    BY PackageTyped, ArtifactsNumbered
  <2>5. files[Package(d)][Artifacts[i]] \in Whole(Package(d), Artifacts[i])
    BY <2>3 DEF FilledInv
  <2>6. /\ files'[p][Artifact(c)] = "partial"
        /\ \A n \in Names : n # Artifact(c) => files'[p][n] = files[p][n]
        /\ \A q \in Packages : q # p => files'[q] = files[q]
    BY <1>2, <2>2, StoreTyped DEF Open, Contents
  <2>7. raced' = raced /\ \A n : Fresh(n)' = Fresh(n)
    BY <1>2 DEF Open, Fresh
  <2>8. CASE d = c
    <3>1. i < command[c].at
      BY <1>2, <2>3, <2>8 DEF Done, Open
    <3>2. Artifacts[i] # Artifact(c)
      BY <2>2, <3>1, ArtifactsNumbered, EvidenceAssumption DEF Artifact
    <3> QED
      BY <2>3, <2>4, <2>5, <2>6, <2>7, <2>8, <3>2 DEF Whole
  <2>9. CASE d # c /\ Package(d) = p
    <3>1. p \in raced
      BY <1>2, <2>2, <2>3, <2>9 DEF AloneInv, Writing, Open, WritingPhases
    <3> QED
      BY <2>3, <2>4, <2>5, <2>6, <2>7, <2>9, <3>1 DEF Whole
  <2>10. CASE Package(d) # p
    BY <2>3, <2>4, <2>5, <2>6, <2>7, <2>10 DEF Whole
  <2> QED
    BY <2>8, <2>9, <2>10
<1>3. ASSUME NEW c \in Commands, Fill(c) PROVE FilledInv'
  <2> DEFINE p == Package(c)
  <2>1. SUFFICES ASSUME NEW d \in Commands, command'[d].phase \in WritingPhases,
                        NEW i \in DOMAIN Artifacts, Done(d, i)'
                 PROVE  (files[Package(d)][Artifacts[i]] \in Whole(Package(d), Artifacts[i]))'
    BY DEF FilledInv
  <2>2. /\ StepsTyped(c) /\ Artifact(c) \in Names /\ p \in Packages
        /\ Package(c)' = p
        /\ command[c].at \in DOMAIN Artifacts
        /\ command'[c].at = IF command[c].at = Len(Artifacts) THEN 1 ELSE command[c].at + 1
        /\ command[c].phase = "fill"
    BY <1>3, FillTyped, PackageTyped, PackageStays, GoSets
    DEF Fill, TypeInv, EvidenceTypeOK
  <2>3. command'[c].phase = "digest" <=> command[c].at = Len(Artifacts)
    BY <1>3, GoSets DEF Fill, AfterFilling
  <2>4. command'[c].phase \in {"digest", "open", "recalculate"}
    BY <1>3, GoSets DEF Fill, AfterFilling
  <2>5. /\ Package(d)' = Package(d)
        /\ Package(d) \in Packages /\ Artifacts[i] \in Names
    BY <2>2, OthersStay, PackageTyped, ArtifactsNumbered
  <2>6. /\ files'[p][Artifact(c)] = Written(c, Artifact(c))
        /\ \A n \in Names : n # Artifact(c) => files'[p][n] = files[p][n]
        /\ \A q \in Packages : q # p => files'[q] = files[q]
    BY <1>3, <2>2, FillTyped, StoreTyped DEF Fill
  <2>7. Written(c, Artifact(c)) \in Fresh(Artifact(c))
    BY DEF Written, Fresh
  <2>8. raced' = raced /\ \A n : Fresh(n)' = Fresh(n)
    BY <1>3 DEF Fill, Fresh
  <2>9. CASE Package(d) = p /\ Artifacts[i] = Artifact(c)
    BY <2>5, <2>6, <2>7, <2>8, <2>9 DEF Whole
  <2>10. CASE ~(Package(d) = p /\ Artifacts[i] = Artifact(c))
    <3>1. Done(d, i) /\ command[d].phase \in WritingPhases
      <4>1. CASE d # c
        BY <2>1, <2>2, <4>1, OthersStay
      <4>2. CASE d = c
        <5>1. i # command[c].at
          BY <2>10, <4>2 DEF Artifact
        <5>2. i < command[c].at
          BY <2>1, <2>2, <2>3, <2>4, <4>2, <5>1, ArtifactsNumbered DEF Done
        <5> QED
          BY <2>2, <4>2, <5>2 DEF Done, WritingPhases
      <4> QED
        BY <4>1, <4>2
    <3>2. files[Package(d)][Artifacts[i]] \in Whole(Package(d), Artifacts[i])
      BY <3>1 DEF FilledInv
    <3>3. files'[Package(d)][Artifacts[i]] = files[Package(d)][Artifacts[i]]
      BY <2>5, <2>6, <2>10
    <3> QED
      BY <2>5, <2>8, <3>2, <3>3 DEF Whole
  <2> QED
    BY <2>9, <2>10
<1>4. ASSUME NEW c \in Commands, CommandStep(c), ~Check(c), ~Open(c), ~Fill(c)
      PROVE  FilledInv'
  <2>1. Stays(c) /\ StepsTyped(c)
    BY <1>4, AllButChecksStay DEF CommandStep, Stays
  <2>2. files' = files
    BY <1>4 DEF CommandStep, Recalculate, Digest, Seal, Sign, Continue, Publish, Kill
  <2>3. command'[c].phase \in WritingPhases =>
            \A i \in DOMAIN Artifacts : Done(c, i)' => Done(c, i)
    <3>1. CASE Recalculate(c)
      BY <3>1, GoSets DEF Recalculate, Done, WritingPhases
    <3>2. CASE Digest(c)
      BY <3>2 DEF Digest, Done
    <3>3. CASE Seal(c)
      BY <3>3, GoSets DEF Seal, Done
    <3>4. CASE Sign(c) \/ Continue(c) \/ Publish(c) \/ Kill(c)
      BY <3>4, SignTyped, ContinueTyped, PublishTyped, KillTyped DEF WritingPhases
    <3> QED
      BY <1>4, <3>1, <3>2, <3>3, <3>4 DEF CommandStep
  <2> QED
    BY <1>4, <2>1, <2>2, <2>3, PackageStays, FilledUnlessStored DEF Stays
<1>5. ASSUME NEW p \in Packages, Damage(p) PROVE FilledInv'
  <2>1. SUFFICES ASSUME NEW d \in Commands, command'[d].phase \in WritingPhases,
                        NEW i \in DOMAIN Artifacts, Done(d, i)'
                 PROVE  (files[Package(d)][Artifacts[i]] \in Whole(Package(d), Artifacts[i]))'
    BY DEF FilledInv
  <2>2. /\ command' = command /\ raced' = raced
        /\ Package(d)' = Package(d) /\ \A n : Fresh(n)' = Fresh(n)
    BY <1>5 DEF Damage, Package, Fresh
  <2>3. Package(d) # p
    BY <1>5, <2>1, <2>2 DEF Damage, AtRest, Writing
  <2>4. files'[Package(d)][Artifacts[i]] = files[Package(d)][Artifacts[i]]
    BY <1>5, <2>3, DamageTyped, PackageTyped, ArtifactsNumbered
  <2>5. files[Package(d)][Artifacts[i]] \in Whole(Package(d), Artifacts[i])
    BY <2>1, <2>2 DEF FilledInv, Done
  <2> QED
    BY <2>2, <2>4, <2>5 DEF Whole
<1>6. CASE CleanEvidence
  BY <1>6, NobodyWritesWhenCleaned DEF FilledInv
<1> QED
  BY <1>1, <1>2, <1>3, <1>4, <1>5, <1>6 DEF Next

-----------------------------------------------------------------------------
(* What is recorded and sealed is what was filled.                          *)

\* The digests a command takes are of such contents.
LEMMA StepKeepsRecorded ==
    ASSUME WriterInv, Next, ~CleanRelease
    PROVE  RecordedInv'
<1> USE DEF WriterInv
<1> DEFINE Recorded(c, i) == \/ command[c].phase \in {"seal", "sign"}
                             \/ command[c].phase = "digest" /\ i < command[c].at
           Right(c, i) == command[c].recorded[Artifacts[i]] \in Whole(Package(c), Artifacts[i])
<1>1. SUFFICES ASSUME NEW d \in Commands, NEW i \in DOMAIN Artifacts, Recorded(d, i)'
               PROVE  Right(d, i)'
  BY DEF RecordedInv
<1>2. Recorded(d, i) => Right(d, i)
  BY DEF RecordedInv
<1>3. ASSUME NEW c \in Commands, CommandStep(c) PROVE Right(d, i)'
  <2>1. StepsTyped(c)
    BY <1>3, CheckTyped, OpenTyped, FillTyped, RecalculateTyped, DigestTyped, SealTyped,
       SignTyped, ContinueTyped, PublishTyped, KillTyped DEF CommandStep
  <2>2. ASSUME Recorded(d, i), command'[d].recorded = command[d].recorded,
               Package(d)' = Package(d)
        PROVE  Right(d, i)'
    BY <1>2, <1>3, <2>2, RacedGrows
  <2>3. CASE d # c
    BY <1>1, <2>1, <2>2, <2>3, OthersStay
  <2>4. CASE d = c
    <3>1. CASE Digest(c)
      <4>1. /\ Package(c)' = Package(c) /\ Artifact(c) \in Names
            /\ command'[c].recorded =
                [command[c].recorded EXCEPT ![Artifact(c)] = files[Package(c)][Artifact(c)]]
            /\ command[c].phase = "digest" /\ command[c].at \in DOMAIN Artifacts
        BY <2>1, <3>1, DigestTyped, PackageStays DEF Digest, TypeInv, EvidenceTypeOK
      <4>2. i < command[c].at \/ i = command[c].at
        <5>1. /\ command[c].at \in 1..Len(Artifacts) /\ i \in 1..Len(Artifacts)
              /\ Len(Artifacts) \in Nat
          BY <4>1, ArtifactsNumbered
        <5>2. CASE command'[c].phase = "seal"
          <6>1. command[c].at = Len(Artifacts)
            BY <3>1, <5>2, DigestTyped
          <6> QED
            BY <5>1, <6>1
        <5>3. CASE command'[c].phase = "digest"
          <6>1. command'[c].at = command[c].at + 1
            BY <3>1, <5>3, DigestTyped
          <6>2. i < command'[c].at
            BY <1>1, <2>4, <5>3
          <6> QED
            BY <5>1, <6>1, <6>2
        <5> QED
          BY <3>1, <5>2, <5>3, DigestTyped
      <4>3. command[c].recorded \in [Names -> Contents]
        BY DEF TypeInv, EvidenceTypeOK, CommandType, Digests
      <4>4. CASE i = command[c].at
        <5>1. files[Package(c)][Artifact(c)] \in Whole(Package(c), Artifact(c))
          BY <4>1 DEF FilledInv, Done, WritingPhases, Artifact
        <5>2. Artifact(c) = Artifacts[i] /\ command'[c].recorded[Artifacts[i]]
                    = files[Package(c)][Artifact(c)]
          BY <4>1, <4>3, <4>4 DEF Artifact
        <5> QED
          BY <1>3, <2>4, <4>1, <5>1, <5>2, RacedGrows
      <4>5. CASE i < command[c].at
        <5>1. Artifact(c) # Artifacts[i] /\ Artifacts[i] \in Names
          BY <4>1, <4>5, ArtifactsNumbered, EvidenceAssumption DEF Artifact
        <5>2. command'[c].recorded[Artifacts[i]] = command[c].recorded[Artifacts[i]]
          BY <4>1, <4>3, <5>1
        <5>3. command[c].recorded[Artifacts[i]] \in Whole(Package(c), Artifacts[i])
          BY <1>2, <2>4, <4>1, <4>5
        <5> QED
          BY <1>3, <2>4, <4>1, <5>2, <5>3, RacedGrows
      <4> QED
        BY <4>2, <4>4, <4>5
    <3>2. CASE Seal(c)
      BY <2>1, <2>2, <2>4, <3>2, GoSets, PackageStays DEF Seal
    <3>3. CASE Check(c)
      BY <1>1, <2>4, <3>3, CheckOpens DEF WritingPhases
    <3>4. CASE Open(c)
      BY <1>1, <2>4, <3>4, GoSets DEF Open
    <3>5. CASE Fill(c)
      <4>1. command'[c].phase = "digest" => command'[c].at = 1
        BY <3>5, GoSets DEF Fill, AfterFilling
      <4>2. command'[c].phase \in {"digest", "open", "recalculate"}
        BY <3>5, GoSets DEF Fill, AfterFilling
      <4> QED
        BY <1>1, <2>4, <4>1, <4>2, ArtifactsNumbered
    <3>6. CASE Recalculate(c)
      BY <1>1, <2>4, <3>6, GoSets DEF Recalculate
    <3>7. CASE Sign(c) \/ Continue(c) \/ Publish(c) \/ Kill(c)
      BY <1>1, <2>4, <3>7, SignTyped, ContinueTyped, PublishTyped, KillTyped
    <3> QED
      BY <1>3, <3>1, <3>2, <3>3, <3>4, <3>5, <3>6, <3>7 DEF CommandStep
  <2> QED
    BY <2>3, <2>4
<1>4. ASSUME NEW p \in Packages, Damage(p) PROVE Right(d, i)'
  <2>1. /\ command' = command /\ raced' = raced
        /\ Package(d)' = Package(d) /\ \A n : Fresh(n)' = Fresh(n)
    BY <1>4 DEF Damage, Package, Fresh
  <2> QED
    BY <1>1, <1>2, <2>1 DEF Whole
<1>5. CASE CleanEvidence
  BY <1>1, <1>5, NobodyWritesWhenCleaned DEF WritingPhases
<1> QED
  BY <1>3, <1>4, <1>5 DEF Next

\* So are those it puts into the manifest.
LEMMA StepKeepsSealed ==
    ASSUME WriterInv, Next, ~CleanRelease
    PROVE  SealedInv'
<1> USE DEF WriterInv
<1>1. SUFFICES ASSUME NEW p \in Packages, manifest'[p].state = "whole", NEW n \in Names
               PROVE  manifest'[p].seal[n] \in Whole(p, n)'
  BY DEF SealedInv, Names
<1>2. ASSUME NEW c \in Commands, CommandStep(c), manifest'[p] = manifest[p]
      PROVE  manifest'[p].seal[n] \in Whole(p, n)'
  BY <1>1, <1>2, RacedGrows DEF SealedInv
<1>3. ASSUME NEW c \in Commands, Sign(c), p = Package(c)
      PROVE  manifest'[p].seal[n] \in Whole(p, n)'
  <2>1. manifest'[p].seal = command[c].recorded
    BY <1>3, SignTyped
  <2>2. PICK i \in DOMAIN Artifacts : n = Artifacts[i]
    BY ArtifactsNumbered
  <2>3. command[c].recorded[n] \in Whole(p, n)
    BY <1>3, <2>2 DEF RecordedInv, Sign
  <2> QED
    BY <1>3, <2>1, <2>3, RacedGrows DEF CommandStep
<1>4. ASSUME NEW c \in Commands, CommandStep(c)
      PROVE  manifest'[p].seal[n] \in Whole(p, n)'
  <2>1. CASE Sign(c)
    BY <1>2, <1>3, <1>4, <2>1, SignTyped
  <2>2. CASE Seal(c)
    BY <1>1, <1>2, <1>4, <2>2, SealTyped
  <2>3. CASE ~Sign(c) /\ ~Seal(c)
    <3>1. manifest' = manifest
      BY <1>4, <2>3 DEF CommandStep, Check, Open, Fill, Recalculate, Digest, Continue,
                        Publish, Kill
    <3> QED
      BY <1>2, <1>4, <3>1
  <2> QED
    BY <2>1, <2>2, <2>3
<1>5. ASSUME NEW q \in Packages, Damage(q) PROVE manifest'[p].seal[n] \in Whole(p, n)'
  <2>1. manifest[p].state = "whole" /\ manifest'[p].seal = manifest[p].seal
    BY <1>1, <1>5, DamageTyped
  <2>2. raced' = raced /\ Fresh(n)' = Fresh(n)
    BY <1>5 DEF Damage, Fresh
  <2> QED
    BY <2>1, <2>2 DEF SealedInv, Whole
<1>6. CASE CleanEvidence
  BY <1>1, <1>6 DEF CleanEvidence, NoManifest
<1> QED
  BY <1>4, <1>5, <1>6 DEF Next

-----------------------------------------------------------------------------
(* What is truncated has a writer.                                          *)

\* An artifact is left truncated only by a command that is stopped.
LEMMA StepKeepsPartial ==
    ASSUME WriterInv, Next, ~CleanRelease
    PROVE  PartialInv'
<1> USE DEF WriterInv
<1> DEFINE Filling(d, p, n) ==
                command[d].phase = "fill" /\ Package(d) = p /\ Artifact(d) = n
<1>1. SUFFICES ASSUME NEW p \in Packages, NEW n \in Names, files'[p][n] = "partial", Intact'
               PROVE  \E d \in Commands : Filling(d, p, n)'
  BY DEF PartialInv, Names
<1>2. ASSUME NEW c \in Commands, CommandStep(c), StepsTyped(c), files[p][n] = "partial",
             \A q \in Packages, m \in Names : Filling(c, q, m) => ~(q = p /\ m = n)
      PROVE  \E d \in Commands : Filling(d, p, n)'
  <2>1. PICK d \in Commands : Filling(d, p, n)
    BY <1>1, <1>2, EndsAreFinal DEF PartialInv
  <2>2. d # c
    BY <1>2, <2>1
  <2> QED
    BY <1>2, <2>1, <2>2, OthersStay
<1>3. ASSUME NEW c \in Commands, CommandStep(c) PROVE \E d \in Commands : Filling(d, p, n)'
  <2>1. StepsTyped(c)
    BY <1>3, CheckTyped, OpenTyped, FillTyped, RecalculateTyped, DigestTyped, SealTyped,
       SignTyped, ContinueTyped, PublishTyped, KillTyped DEF CommandStep
  <2>2. CASE Open(c)
    <3>1. /\ command'[c].phase = "fill" /\ command'[c].at = command[c].at
          /\ Package(c)' = Package(c)
      BY <2>1, <2>2, GoSets, PackageStays DEF Open
    <3>2. CASE p = Package(c) /\ n = Artifact(c)
      BY <3>1, <3>2 DEF Artifact
    <3>3. CASE ~(p = Package(c) /\ n = Artifact(c))
      <4>1. files[p][n] = "partial"
        BY <1>1, <2>2, <3>3, OpenTyped, PackageTyped, StoreTyped DEF Open, Contents
      <4> QED
        BY <1>2, <1>3, <2>1, <2>2, <4>1 DEF Open
    <3> QED
      BY <3>2, <3>3
  <2>3. CASE Fill(c)
    <3>1. Written(c, Artifact(c)) # "partial"
      BY EvidenceAssumption DEF Written
    <3>2. ~(p = Package(c) /\ n = Artifact(c)) /\ files[p][n] = "partial"
      BY <1>1, <2>3, <3>1, FillTyped, PackageTyped, StoreTyped DEF Fill
    <3> QED
      BY <1>2, <1>3, <2>1, <3>2
  <2>4. CASE ~Open(c) /\ ~Fill(c)
    <3>1. files' = files
      BY <1>3, <2>4 DEF CommandStep, Check, Recalculate, Digest, Seal, Sign, Continue,
                        Publish, Kill
    <3>2. command[c].phase # "fill"
      <4>1. ~Kill(c)
        BY <1>1, KillTyped DEF Intact
      <4> QED
        BY <1>3, <2>4, <4>1 DEF CommandStep, Check, Recalculate, Digest, Seal, Sign,
                                Continue, Publish
    <3> QED
      BY <1>1, <1>2, <1>3, <2>1, <3>1, <3>2
  <2> QED
    BY <2>2, <2>3, <2>4
<1>4. ASSUME NEW q \in Packages, Damage(q) PROVE \E d \in Commands : Filling(d, p, n)'
  <2>1. files[p][n] = "partial"
    BY <1>1, <1>4, DamageTyped DEF Damages
  <2>2. command' = command
    BY <1>4 DEF Damage
  <2> QED
    BY <1>1, <2>1, <2>2 DEF PartialInv, Intact, Package, Artifact
<1>5. CASE CleanEvidence
  BY <1>1, <1>5 DEF CleanEvidence, NoFile
<1> QED
  BY <1>3, <1>4, <1>5 DEF Next

-----------------------------------------------------------------------------
(* The recalculation has agreed.                                            *)

\* Filling an artifact reaches no verdict, and forgets none that is pending.
LEMMA FillIsNoVerdict ==
    ASSUME TypeInv, NEW c \in Commands, Fill(c)
    PROVE  /\ Package(c)' = Package(c)
           /\ Past(c)' => Past(c)
           /\ Early(c) => Early(c)'
<1> DEFINE at == command[c].at
<1>1. /\ at \in DOMAIN Artifacts /\ at \in 1..Len(Artifacts) /\ Len(Artifacts) \in Nat
      /\ command[c].phase = "fill"
  BY ArtifactsNumbered DEF Fill, TypeInv, EvidenceTypeOK
<1>2. Package(c)' = Package(c)
  BY FillTyped, PackageStays, GoSets DEF Fill
<1>3. CASE at = Len(Artifacts)
  <2>1. Recounted(at)
    <3>1. PICK i \in DOMAIN Artifacts : Artifacts[i] = Verification
      BY EvidenceAssumption, ArtifactsNumbered
    <3> QED
      BY <1>1, <1>3, <3>1, ArtifactsNumbered DEF Recounted
  <2> QED
    BY <1>1, <1>2, <2>1 DEF Past, Early
<1>4. CASE at # Len(Artifacts)
  <2>1. command'[c].phase = AfterFilling(at) /\ command'[c].at = at + 1
    BY <1>4, GoSets DEF Fill
  <2>2. CASE Artifacts[at + 1] = Verification
    <3>1. command'[c].phase = "recalculate"
      BY <1>4, <2>1, <2>2 DEF AfterFilling
    <3> QED
      BY <1>2, <3>1 DEF Past, Early
  <2>3. CASE Artifacts[at + 1] # Verification
    <3>1. command'[c].phase = "open"
      BY <1>4, <2>1, <2>3 DEF AfterFilling
    <3>2. Recounted(at + 1) => Recounted(at)
      <4>1. SUFFICES ASSUME NEW i \in DOMAIN Artifacts, i <= at + 1,
                            Artifacts[i] = Verification
                     PROVE  i <= at
        BY DEF Recounted
      <4>2. i # at + 1
        BY <2>3, <4>1
      <4> QED
        BY <1>1, <4>1, <4>2, ArtifactsNumbered
    <3>3. Recounted(command[c].at)' = Recounted(at + 1)
      BY <2>1 DEF Recounted
    <3> HIDE DEF at
    <3>4. at = command[c].at
      BY DEF at
    <3> QED
      BY <1>1, <1>2, <3>1, <3>2, <3>3, <3>4 DEF Past, Early
  <2> QED
    BY <2>2, <2>3
<1> QED
  BY <1>3, <1>4

\* Opening an artifact does not bring a command past the recalculation.
LEMMA OpenIsNoVerdict ==
    ASSUME TypeInv, NEW c \in Commands, Open(c)
    PROVE  /\ Package(c)' = Package(c)
           /\ Past(c)' => Past(c)
           /\ Early(c) => Early(c)'
<1>1. /\ command'[c].phase = "fill" /\ command'[c].at = command[c].at
      /\ Package(c)' = Package(c) /\ command[c].phase = "open"
  BY OpenTyped, GoSets, PackageStays DEF Open
<1> QED
  BY <1>1 DEF Past, Early, Recounted

\* But for the recalculation itself, a step of a command claims nothing new.
LEMMA ClaimedBefore ==
    ASSUME TypeInv, NEW c \in Commands, CommandStep(c), NEW p \in Packages, Claimed(p)',
           Recalculate(c) => p # Package(c)
    PROVE  Claimed(p)
<1>1. StepsTyped(c)
  BY CheckTyped, OpenTyped, FillTyped, RecalculateTyped, DigestTyped, SealTyped,
     SignTyped, ContinueTyped, PublishTyped, KillTyped DEF CommandStep
<1>2. ASSUME NEW d \in Commands, Past(d)', Package(d)' = p
      PROVE  Past(d) /\ Package(d) = p
  <2>1. CASE d # c
    BY <1>1, <1>2, <2>1, OthersStay
  <2>2. CASE d = c
    <3>1. CASE Check(c)
      BY <1>2, <2>2, <3>1, CheckOpens DEF Past, WritingPhases
    <3>2. CASE Open(c) \/ Fill(c)
      BY <1>2, <2>2, <3>2, OpenIsNoVerdict, FillIsNoVerdict
    <3>3. CASE Recalculate(c)
      BY <1>1, <1>2, <2>2, <3>3, GoSets, PackageStays DEF Recalculate
    <3>4. CASE Digest(c)
      BY <1>1, <1>2, <2>2, <3>4, DigestTyped, PackageStays DEF Digest, Past
    <3>5. CASE Seal(c)
      BY <1>1, <1>2, <2>2, <3>5, GoSets, PackageStays DEF Seal, Past
    <3>6. CASE Sign(c) \/ Continue(c) \/ Publish(c) \/ Kill(c)
      BY <1>2, <2>2, <3>6, SignTyped, ContinueTyped, PublishTyped, KillTyped DEF Past
    <3> QED
      BY <3>1, <3>2, <3>3, <3>4, <3>5, <3>6 DEF CommandStep
  <2> QED
    BY <2>1, <2>2
<1>3. ASSUME manifest'[p].state = "whole"
      PROVE  Claimed(p)
  <2>1. CASE Sign(c)
    <3>1. CASE p = Package(c)
      BY <2>1, <3>1 DEF Sign, Claimed, Past
    <3>2. CASE p # Package(c)
      BY <1>3, <2>1, <3>2, SignTyped DEF Claimed
    <3> QED
      BY <3>1, <3>2
  <2>2. CASE Seal(c)
    BY <1>3, <2>2, SealTyped DEF Claimed
  <2>3. CASE ~Sign(c) /\ ~Seal(c)
    <3>1. manifest' = manifest
      BY <2>3 DEF CommandStep, Check, Open, Fill, Recalculate, Digest, Continue, Publish, Kill
    <3> QED
      BY <1>3, <3>1 DEF Claimed
  <2> QED
    BY <2>1, <2>2, <2>3
<1> QED
  BY <1>2, <1>3 DEF Claimed

\* Damage claims nothing.
LEMMA DamageClaimsNothing ==
    ASSUME TypeInv, NEW q \in Packages, Damage(q), NEW p \in Packages, Claimed(p)'
    PROVE  Claimed(p)
<1>1. command' = command
  BY DEF Damage
<1> QED
  BY <1>1, DamageTyped DEF Claimed, Past, Package, Recounted

\* In a clean root nobody has found that a recalculation agrees.
LEMMA CleanClaimsNothing ==
    ASSUME CleanEvidence, NEW p \in Packages
    PROVE  ~Claimed(p)'
<1>1. manifest'[p].state # "whole"
  BY DEF CleanEvidence, NoManifest
<1> QED
  BY <1>1, NobodyWritesWhenCleaned DEF Claimed, Past, WritingPhases

\* A command at its recalculation is done with the trace.
LEMMA TraceIsFilled ==
    ASSUME WriterInv, NEW c \in Commands, command[c].phase = "recalculate"
    PROVE  files[Package(c)]["process.csv"] \in
                {"result"} \cup {x \in {"partial"} : Package(c) \in raced}
<1>1. /\ command[c].at \in DOMAIN Artifacts
      /\ Artifacts[command[c].at] = Verification
      /\ command[c].at \in Nat
  BY ArtifactsNumbered DEF WriterInv, TypeInv
<1>2. PICK j \in 1..(command[c].at - 1) :
            j \in DOMAIN Artifacts /\ Artifacts[j] = "process.csv"
  BY <1>1, VerdictIsNotFirst
<1>3. Done(c, j)
  BY <1>1, <1>2 DEF Done
<1>4. files[Package(c)]["process.csv"] \in Whole(Package(c), "process.csv")
  BY <1>2, <1>3 DEF WriterInv, FilledInv, WritingPhases
<1>5. "process.csv" # Environment
  BY DEF Environment
<1> QED
  BY <1>4, <1>5 DEF Whole, Fresh

\* Alone at a package, a command passes the recalculation only when it agrees.
LEMMA StepKeepsAgreed ==
    ASSUME WriterInv, Next, ~CleanRelease
    PROVE  AgreedInv'
<1>1. SUFFICES ASSUME NEW p \in Packages, p \notin raced', Claimed(p)'
               PROVE  agree'[p]
  BY DEF AgreedInv
<1>2. ASSUME NEW c \in Commands, CommandStep(c) PROVE agree'[p]
  <2>1. agree' = agree /\ p \notin raced
    BY <1>1, <1>2, RacedGrows
  <2>2. CASE Recalculate(c) /\ p = Package(c)
    <3>1. CASE ResultsAgree(p)
      <4>1. files[p]["process.csv"] = "result"
        BY <2>1, <2>2, TraceIsFilled DEF Recalculate
      <4> QED
        BY <2>1, <3>1, <4>1 DEF ResultsAgree
    <3>2. CASE Go(c, "failed", 1)
      <4>1. StepsTyped(c) /\ ~Past(c)' /\ ~Past(c)
        BY <2>2, <3>2, GoSets, RecalculateTyped DEF Past, Recalculate, WriterInv
      <4>2. manifest' = manifest
        BY <2>2 DEF Recalculate
      <4>3. Claimed(p)
        BY <1>1, <4>1, <4>2, OthersStay DEF Claimed
      <4> QED
        BY <2>1, <4>3 DEF WriterInv, AgreedInv
    <3> QED
      BY <2>2, <3>1, <3>2 DEF Recalculate
  <2>3. CASE ~(Recalculate(c) /\ p = Package(c))
    BY <1>1, <1>2, <2>1, <2>3, ClaimedBefore DEF WriterInv, AgreedInv
  <2> QED
    BY <2>2, <2>3
<1>3. ASSUME NEW q \in Packages, Damage(q) PROVE agree'[p]
  <2>1. agree' = agree /\ raced' = raced
    BY <1>3 DEF Damage
  <2> QED
    BY <1>1, <1>3, <2>1, DamageClaimsNothing DEF WriterInv, AgreedInv
<1>4. CASE CleanEvidence
  BY <1>1, <1>4, CleanClaimsNothing
<1> QED
  BY <1>2, <1>3, <1>4 DEF Next

\* A command that is filling the trace has yet to recalculate.
LEMMA FillingTheTraceIsEarly ==
    ASSUME TypeInv, NEW c \in Commands, command[c].phase = "fill", Artifact(c) = "process.csv"
    PROVE  Early(c)
<1>1. command[c].at \in DOMAIN Artifacts
  BY DEF TypeInv, EvidenceTypeOK
<1>2. SUFFICES ASSUME NEW i \in DOMAIN Artifacts, i <= command[c].at,
                      Artifacts[i] = Verification
               PROVE  FALSE
  BY DEF Early, Recounted
<1>3. PICK j \in 1..(i - 1) : j \in DOMAIN Artifacts /\ Artifacts[j] = "process.csv"
  BY <1>2, VerdictIsNotFirst
<1>4. j = command[c].at
  BY <1>1, <1>3, EvidenceAssumption DEF Artifact
<1> QED
  BY <1>1, <1>2, <1>3, <1>4, ArtifactsNumbered

\* In a raced one, whoever truncated the trace has yet to recalculate.
LEMMA StepKeepsRaced ==
    ASSUME WriterInv, Next, ~CleanRelease
    PROVE  RacedInv'
<1> USE DEF WriterInv
<1>1. SUFFICES ASSUME NEW p \in Packages, Claimed(p)', ~agree'[p], Intact'
               PROVE  \E d \in Commands : (Early(d) /\ Package(d) = p)'
  BY DEF RacedInv
<1>2. ASSUME NEW c \in Commands, CommandStep(c)
      PROVE  \E d \in Commands : (Early(d) /\ Package(d) = p)'
  <2>1. agree' = agree /\ Intact
    BY <1>1, <1>2, RacedGrows, EndsAreFinal
  <2>2. StepsTyped(c)
    BY <1>2, CheckTyped, OpenTyped, FillTyped, RecalculateTyped, DigestTyped, SealTyped,
       SignTyped, ContinueTyped, PublishTyped, KillTyped DEF CommandStep
  <2>3. CASE Recalculate(c) /\ p = Package(c)
    <3>1. ResultsAgree(p)
      BY <1>1, <2>3, GoSets DEF Recalculate, Intact
    <3>2. files[p]["process.csv"] = "partial"
      BY <1>1, <2>1, <2>3, <3>1, TraceIsFilled DEF ResultsAgree, Recalculate
    <3>3. PICK d \in Commands :
                command[d].phase = "fill" /\ Package(d) = p /\ Artifact(d) = "process.csv"
      BY <2>1, <3>2, EvidenceAssumption DEF PartialInv
    <3>4. d # c
      BY <2>3, <3>3 DEF Recalculate
    <3> QED
      BY <2>2, <3>3, <3>4, OthersStay, FillingTheTraceIsEarly
  <2>4. CASE ~(Recalculate(c) /\ p = Package(c))
    <3>1. PICK d \in Commands : Early(d) /\ Package(d) = p
      BY <1>1, <1>2, <2>1, <2>4, ClaimedBefore DEF RacedInv
    <3>2. CASE d # c
      BY <2>2, <3>1, <3>2, OthersStay
    <3>3. CASE d = c
      <4>1. CASE Open(c) \/ Fill(c)
        BY <3>1, <3>3, <4>1, OpenIsNoVerdict, FillIsNoVerdict
      <4>2. CASE Kill(c)
        BY <1>1, <4>2, KillTyped DEF Intact
      <4>3. CASE Recalculate(c)
        BY <2>4, <3>1, <3>3, <4>3
      <4>4. CASE Check(c) \/ Digest(c) \/ Seal(c) \/ Sign(c) \/ Continue(c) \/ Publish(c)
        BY <3>1, <3>3, <4>4 DEF Early, Check, Digest, Seal, Sign, Continue, Publish
      <4> QED
        BY <1>2, <4>1, <4>2, <4>3, <4>4 DEF CommandStep
    <3> QED
      BY <3>2, <3>3
  <2> QED
    BY <2>3, <2>4
<1>3. ASSUME NEW q \in Packages, Damage(q)
      PROVE  \E d \in Commands : (Early(d) /\ Package(d) = p)'
  <2>1. agree' = agree /\ command' = command
    BY <1>3 DEF Damage
  <2>2. PICK d \in Commands : Early(d) /\ Package(d) = p
    BY <1>1, <1>3, <2>1, DamageClaimsNothing DEF RacedInv, Intact
  <2> QED
    BY <2>1, <2>2 DEF Early, Package, Recounted
<1>4. CASE CleanEvidence
  BY <1>1, <1>4, CleanClaimsNothing
<1> QED
  BY <1>2, <1>3, <1>4 DEF Next

-----------------------------------------------------------------------------
(* The theorem.                                                             *)

\* No package is written at first.
LEMMA InitialWriters ==
    ASSUME Init
    PROVE  WriterInv
<1>1. TypeInv
  BY InitTyped
<1>2. \A c \in Commands : command[c].phase = "ready"
  BY DEF Init
<1>3. \A p \in Packages : manifest[p].state = "absent"
  BY DEF Init, NoManifest
<1>4. \A p \in Packages, n \in Names : files[p][n] # "partial"
  BY DEF Init, NoFile
<1>5. \A p \in Packages : ~Claimed(p)
  BY <1>2, <1>3 DEF Claimed, Past
<1> QED
  BY <1>1, <1>2, <1>3, <1>4, <1>5
  DEF WriterInv, AloneInv, FilledInv, RecordedInv, SealedInv, PartialInv, AgreedInv,
      RacedInv, Writing, WritingPhases

\* Every step keeps what is known of the writers.
LEMMA StepKeepsWriters ==
    ASSUME WriterInv, [Next]_evidenceVars
    PROVE  WriterInv'
<1>1. CASE Next /\ ~CleanRelease
  BY <1>1, StepKeepsTypes, StepKeepsAlone, StepKeepsFilled, StepKeepsRecorded,
     StepKeepsSealed, StepKeepsPartial, StepKeepsAgreed, StepKeepsRaced DEF WriterInv
<1>2. CASE UNCHANGED evidenceVars \/ CleanRelease
  <2>1. UNCHANGED <<packageVars, agree, command>>
    BY <1>2 DEF evidenceVars, CleanRelease
  <2> QED
    BY <2>1, StepKeepsTypes
    DEF WriterInv, AloneInv, FilledInv, RecordedInv, SealedInv, PartialInv, AgreedInv,
        RacedInv, Writing, Done, Whole, Claimed, Past, Early, Intact, Package, Artifact,
        Fresh, Recounted
<1> QED
  BY <1>1, <1>2

\* A package that verifies holds what its writer wrote, none of it truncated.
LEMMA VerifiedIsFresh ==
    ASSUME WriterInv, NEW p \in Packages, Passes(p),
           p \notin raced \/ (AtRest(p) /\ Intact)
    PROVE  /\ \A n \in Names : files[p][n] \in Fresh(n)
           /\ agree[p]
<1>1. SealedInv /\ manifest[p].state = "whole" /\ Claimed(p)
  BY DEF WriterInv, Passes, Claimed
<1>2. ASSUME NEW n \in Names PROVE files[p][n] \in Fresh(n)
  <2>1. files[p][n] = manifest[p].seal[n]
    BY DEF Passes
  <2>2. files[p][n] \in Whole(p, n)
    BY <1>1, <2>1 DEF SealedInv
  <2>3. p \in raced => files[p][n] # "partial"
    BY DEF WriterInv, PartialInv, AtRest, Writing, WritingPhases
  <2> QED
    BY <2>2, <2>3 DEF Whole
<1>3. agree[p]
  <2>1. CASE p \notin raced
    BY <1>1, <2>1 DEF WriterInv, AgreedInv
  <2>2. CASE AtRest(p) /\ Intact
    <3>1. \A c \in Commands : Early(c) => Package(c) # p
      BY <2>2, PhasesAreWriting DEF WriterInv, AtRest, Writing
    <3> QED
      BY <1>1, <2>2, <3>1 DEF WriterInv, RacedInv
  <2> QED
    BY <2>1, <2>2
<1> QED
  BY <1>2, <1>3

\* What is known of the writers is enough.
LEMMA WritersVerify == WriterInv => VerifiedReproduces
<1>1. SUFFICES ASSUME WriterInv, NEW p \in Packages, Passes(p),
                      \/ p \notin raced
                      \/ AtRest(p) /\ \A c \in Commands :
                            command[c].phase \notin {"killed", "failed"}
               PROVE  Reproduces(p) /\ files[p][Environment] \in Commands
  BY DEF VerifiedReproduces
<1>2. (\A n \in Names : files[p][n] \in Fresh(n)) /\ agree[p]
  BY <1>1, VerifiedIsFresh DEF Intact
<1>3. Environment \in Names
  BY EvidenceAssumption
<1> QED
  BY <1>2, <1>3 DEF Reproduces, Fresh

\* What `evidence verify' passes is what a second run would write, for any number
\* of packages, commands, artifacts and damages: the first level of check implies
\* the second, unless two commands wrote one package and one of them was stopped.
THEOREM VerificationIsSound == Spec => []VerifiedReproduces
BY InitialWriters, StepKeepsWriters, WritersVerify, PTL DEF Spec

-----------------------------------------------------------------------------
(* The store that a reader sees.                                            *)

\* Whoever writes a package alone writes one that has no manifest yet.
UnsealedInv ==
    \A p \in Packages \ raced, c \in Commands : Writing(c, p) => manifest[p].state # "whole"

StoreInv == WriterInv /\ UnsealedInv

\* A check opens no package that has a manifest, and only the writer makes one.
LEMMA StepKeepsUnsealed ==
    ASSUME StoreInv, Next, ~CleanRelease
    PROVE  UnsealedInv'
<1> USE DEF StoreInv
<1>1. SUFFICES ASSUME NEW p \in Packages, p \notin raced', NEW d \in Commands,
                      Writing(d, p)'
               PROVE  manifest'[p].state # "whole"
  BY DEF UnsealedInv
<1>2. TypeInv
  BY DEF WriterInv
<1>3. ASSUME NEW c \in Commands, CommandStep(c) PROVE manifest'[p].state # "whole"
  <2>1. p \notin raced
    BY <1>1, <1>3, RacedGrows
  <2>2. CASE Check(c)
    <3>1. manifest' = manifest
      BY <2>2 DEF Check
    <3>2. CASE d = c
      BY <1>1, <1>2, <2>2, <3>1, <3>2, CheckOpens DEF Writing
    <3>3. CASE d # c
      BY <1>1, <1>2, <2>1, <2>2, <3>1, <3>3, CheckTyped, OthersStay DEF UnsealedInv
    <3> QED
      BY <3>2, <3>3
  <2>3. CASE ~Check(c)
    <3>1. Stays(c)
      BY <1>2, <1>3, <2>3, AllButChecksStay DEF CommandStep
    <3>2. Writing(d, p)
      BY <1>1, <3>1, OthersStay, PackageStays DEF Stays, Writing
    <3>3. manifest[p].state # "whole"
      BY <2>1, <3>2 DEF UnsealedInv
    <3>4. CASE Sign(c)
      <4>1. d # c
        BY <1>1, <1>2, <3>4, SignTyped DEF Writing, WritingPhases
      <4>2. p # Package(c)
        BY <2>1, <3>2, <3>4, <4>1 DEF WriterInv, AloneInv, Writing, Sign, WritingPhases
      <4> QED
        BY <1>2, <3>3, <3>4, <4>2, SignTyped
    <3>5. CASE Seal(c)
      BY <1>2, <3>3, <3>5, SealTyped
    <3>6. CASE ~Sign(c) /\ ~Seal(c)
      <4>1. manifest' = manifest
        BY <1>3, <3>6 DEF CommandStep, Check, Open, Fill, Recalculate, Digest, Continue,
                          Publish, Kill
      <4> QED
        BY <3>3, <4>1
    <3> QED
      BY <3>4, <3>5, <3>6
  <2> QED
    BY <2>2, <2>3
<1>4. ASSUME NEW q \in Packages, Damage(q) PROVE manifest'[p].state # "whole"
  <2>1. Writing(d, p) /\ p \notin raced
    BY <1>1, <1>4 DEF Damage, Writing, Package
  <2> QED
    BY <1>2, <1>4, <2>1, DamageTyped DEF UnsealedInv
<1>5. CASE CleanEvidence
  BY <1>1, <1>5, NobodyWritesWhenCleaned DEF Writing
<1> QED
  BY <1>3, <1>4, <1>5 DEF Next

\* Every step keeps what the refinement needs.
LEMMA StepKeepsStore ==
    ASSUME StoreInv, [Next]_evidenceVars
    PROVE  StoreInv'
<1>1. CASE Next /\ ~CleanRelease
  BY <1>1, StepKeepsWriters, StepKeepsUnsealed DEF StoreInv
<1>2. CASE UNCHANGED evidenceVars \/ CleanRelease
  BY <1>2, StepKeepsWriters
  DEF evidenceVars, CleanRelease, StoreInv, UnsealedInv, Writing, Package
<1> QED
  BY <1>1, <1>2

\* A package is absent, incomplete, or some command's, now and after a step.
LEMMA ViewsTyped ==
    ASSUME NEW p
    PROVE  /\ View(p) \in Commands \cup {"absent", "incomplete"}
           /\ View(p)' \in Commands \cup {"absent", "incomplete"}
<1>1. Environment \in Parsed
  BY EvidenceAssumption DEF Parsed, Unparsed, Environment
<1>2. Passes(p) => files[p][Environment] \in Commands
  BY <1>1 DEF Passes, Parses, Fresh
<1>3. Passes(p)' => files'[p][Environment] \in Commands
  BY <1>1 DEF Passes, Parses, Fresh
<1> QED
  BY <1>2, <1>3 DEF View

\* What a reader sees follows from files, manifest and stray files.
LEMMA ViewUnchanged ==
    ASSUME NEW p, files'[p] = files[p], manifest'[p] = manifest[p], stray'[p] = stray[p]
    PROVE  View(p)' = View(p)
BY DEF View, Empty, Passes, Parses, NoFile, Fresh

SeenStore == [p \in Packages |-> View(p)]

\* One package of the store changes.
LEMMA OneViewChanges ==
    ASSUME NEW p \in Packages, NEW view, view = View(p)',
           \A q \in Packages : q # p => View(q)' = View(q)
    PROVE  SeenStore' = [SeenStore EXCEPT ![p] = view]
BY DEF SeenStore

\* A step that shows in no package leaves the store.
LEMMA NoViewChanges ==
    ASSUME \A q \in Packages : View(q)' = View(q)
    PROVE  SeenStore' = SeenStore
BY DEF SeenStore

\* A step that changes one package only, which is harmed already or becomes so.
LEMMA HarmedDecays ==
    ASSUME NEW p \in Packages, Harmed' = Harmed \cup {p},
           \A q \in Packages : q # p => View(q)' = View(q)
    PROVE  Reader!Next
<1>1. View(p)' \in Commands \cup {"absent", "incomplete"}
  BY ViewsTyped
<1>2. SeenStore' = [SeenStore EXCEPT ![p] = View(p)']
  BY OneViewChanges
<1>3. Reader!Decay(p)
  BY <1>1, <1>2 DEF Reader!Decay, Reader!Views, SeenStore
<1> QED
  BY <1>3 DEF Reader!Next

\* A step that changes one unharmed package only begins or completes it, or does
\* not show.
LEMMA UnharmedAdvances ==
    ASSUME NEW p \in Packages, Harmed' = Harmed,
           \A q \in Packages : q # p => View(q)' = View(q),
           \/ View(p)' = View(p)
           \/ View(p) = "absent" /\ View(p)' = "incomplete"
           \/ View(p) = "incomplete" /\ View(p)' \in Commands
    PROVE  Reader!Next \/ UNCHANGED <<SeenStore, Harmed>>
<1>1. CASE View(p)' = View(p)
  BY <1>1, NoViewChanges
<1>2. CASE View(p) = "absent" /\ View(p)' = "incomplete"
  <2>1. SeenStore' = [SeenStore EXCEPT ![p] = "incomplete"]
    BY <1>2, OneViewChanges
  <2>2. Reader!Begin(p)
    BY <1>2, <2>1 DEF Reader!Begin, SeenStore
  <2> QED
    BY <2>2 DEF Reader!Next
<1>3. CASE View(p) = "incomplete" /\ View(p)' \in Commands
  <2>1. SeenStore' = [SeenStore EXCEPT ![p] = View(p)']
    BY OneViewChanges
  <2>2. Reader!Complete(p, View(p)')
    BY <1>3, <2>1 DEF Reader!Complete, SeenStore
  <2> QED
    BY <1>3, <2>2 DEF Reader!Next
<1> QED
  BY <1>1, <1>2, <1>3

\* A command at work on its package.
LEMMA WriterAdvances ==
    ASSUME StoreInv, NEW c \in Commands, NEW p \in Packages, p = Package(c),
           Open(c) \/ Fill(c) \/ Seal(c) \/ Sign(c)
    PROVE  Reader!Next \/ UNCHANGED <<SeenStore, Harmed>>
<1>1. TypeInv /\ p \in Packages
  BY DEF StoreInv, WriterInv
<1>2. Harmed' = Harmed /\ stray' = stray
  BY DEF Open, Fill, Seal, Sign, Harmed
<1>3. \A q \in Packages : q # p => files'[q] = files[q] /\ manifest'[q] = manifest[q]
  <2>1. CASE Open(c)
    BY <1>1, <2>1, OpenTyped, StoreTyped DEF Open, Contents
  <2>2. CASE Fill(c)
    BY <1>1, <2>2, FillTyped, StoreTyped DEF Fill
  <2>3. CASE Seal(c)
    BY <1>1, <2>3, SealTyped DEF Seal
  <2>4. CASE Sign(c)
    BY <1>1, <2>4, SignTyped DEF Sign
  <2> QED
    BY <2>1, <2>2, <2>3, <2>4
<1>4. \A q \in Packages : q # p => View(q)' = View(q)
  BY <1>2, <1>3, ViewUnchanged
<1>5. CASE p \in Harmed
  BY <1>1, <1>2, <1>4, <1>5, HarmedDecays
<1>6. CASE p \notin Harmed
  <2>1. manifest[p].state # "whole" /\ p \notin raced
    BY <1>1, <1>6
    DEF Harmed, StoreInv, UnsealedInv, Writing, WritingPhases, Open, Fill, Seal, Sign
  <2>2. View(p) \in {"absent", "incomplete"}
    BY <2>1 DEF View, Passes
  <2>3. CASE Open(c) \/ Fill(c) \/ Seal(c)
    <3>1. manifest'[p].state # "whole"
      BY <1>1, <2>1, <2>3, SealTyped DEF Open, Fill
    <3>2. ~Empty(p)'
      <4>1. CASE Open(c)
        <5>1. Artifact(c) \in Names /\ files'[p][Artifact(c)] = "partial"
          BY <1>1, <4>1, OpenTyped, StoreTyped DEF Open, Contents
        <5> QED
          BY <5>1 DEF Empty, NoFile
      <4>2. CASE Fill(c)
        <5>1. Artifact(c) \in Names /\ files'[p][Artifact(c)] = Written(c, Artifact(c))
          BY <1>1, <4>2, FillTyped, StoreTyped DEF Fill
        <5>2. Written(c, Artifact(c)) # "absent"
          BY EvidenceAssumption DEF Written, Damages
        <5> QED
          BY <5>1, <5>2 DEF Empty, NoFile
      <4>3. CASE Seal(c)
        BY <1>1, <4>3, SealTyped DEF Empty
      <4> QED
        BY <2>3, <4>1, <4>2, <4>3
    <3>3. View(p)' = "incomplete"
      BY <3>1, <3>2 DEF View, Passes
    <3> QED
      BY <1>1, <1>2, <1>4, <2>2, <3>3, UnharmedAdvances
  <2>4. CASE Sign(c)
    <3>1. View(p) = "incomplete"
      <4>1. files[p][Artifacts[1]] \in Whole(p, Artifacts[1]) /\ Artifacts[1] \in Names
        BY <2>4, ArtifactsNumbered
        DEF StoreInv, WriterInv, FilledInv, Sign, WritingPhases, Done
      <4>2. files[p][Artifacts[1]] # "absent"
        BY <2>1, <4>1, EvidenceAssumption DEF Whole, Fresh, Damages
      <4>3. ~Empty(p)
        BY <4>1, <4>2 DEF Empty, NoFile
      <4> QED
        BY <2>1, <4>3 DEF View, Passes
    <3>2. View(p)' \in Commands \cup {"incomplete"}
      <4>1. manifest'[p].state = "whole"
        BY <1>1, <2>4 DEF Sign, TypeInv, EvidenceTypeOK
      <4>2. ~Empty(p)'
        BY <4>1 DEF Empty
      <4>3. Passes(p)' => files'[p][Environment] # "absent"
        BY EvidenceAssumption DEF Passes
      <4> QED
        BY <4>2, <4>3, ViewsTyped DEF View
    <3> QED
      BY <1>1, <1>2, <1>4, <3>1, <3>2, UnharmedAdvances
  <2> QED
    BY <2>3, <2>4
<1> QED
  BY <1>5, <1>6

\* Every step of the root is one of the store, or does not show.
LEMMA StepRefinesStore ==
    ASSUME StoreInv, [Next]_evidenceVars
    PROVE  Reader!Next \/ UNCHANGED <<SeenStore, Harmed>>
<1>1. TypeInv
  BY DEF StoreInv, WriterInv
<1>2. ASSUME UNCHANGED <<files, manifest, stray, Harmed>>
      PROVE  UNCHANGED <<SeenStore, Harmed>>
  BY <1>2, ViewUnchanged, NoViewChanges
<1>3. ASSUME NEW c \in Commands, CommandStep(c)
      PROVE  Reader!Next \/ UNCHANGED <<SeenStore, Harmed>>
  <2>1. CASE Check(c)
    <3>1. UNCHANGED <<files, manifest, stray>>
      BY <2>1 DEF Check
    <3>2. Harmed' = Harmed \/ Harmed' = Harmed \cup {Package(c)}
      BY <2>1 DEF Check, Harmed
    <3> QED
      BY <1>1, <1>2, <3>1, <3>2, HarmedDecays, ViewUnchanged, PackageTyped
  <2>2. CASE Open(c) \/ Fill(c) \/ Seal(c) \/ Sign(c)
    BY <1>1, <2>2, PackageTyped, WriterAdvances
  <2>3. CASE Recalculate(c) \/ Digest(c) \/ Continue(c) \/ Publish(c) \/ Kill(c)
    BY <1>2, <2>3 DEF Recalculate, Digest, Continue, Publish, Kill, Harmed
  <2> QED
    BY <1>3, <2>1, <2>2, <2>3 DEF CommandStep
<1>4. ASSUME NEW p \in Packages, Damage(p)
      PROVE  Reader!Next
  <2>1. Harmed' = Harmed \cup {p}
    BY <1>4 DEF Damage, Harmed
  <2>2. \A q \in Packages : q # p =>
            files'[q] = files[q] /\ manifest'[q] = manifest[q] /\ stray'[q] = stray[q]
    BY <1>1, <1>4 DEF Damage, Store, TypeInv, EvidenceTypeOK
  <2> QED
    BY <2>1, <2>2, ViewUnchanged, HarmedDecays
<1>5. CASE CleanEvidence
  <2>1. \A p \in Packages : View(p)' = "absent"
    BY <1>5 DEF CleanEvidence, View, Empty, NoManifest
  <2>2. SeenStore' = [p \in Packages |-> "absent"]
    BY <2>1 DEF SeenStore
  <2>3. Harmed' = {}
    BY <1>5 DEF CleanEvidence, Harmed
  <2>4. Reader!Clean
    BY <2>2, <2>3 DEF Reader!Clean, SeenStore
  <2> QED
    BY <2>4 DEF Reader!Next
<1>6. CASE UNCHANGED evidenceVars \/ CleanRelease
  BY <1>2, <1>6 DEF evidenceVars, CleanRelease, Harmed
<1> QED
  BY <1>3, <1>4, <1>5, <1>6 DEF Next

\* The root is an empty store at first.
LEMMA InitRefinesStore ==
    ASSUME Init
    PROVE  StoreInv /\ Reader!Init
<1>1. StoreInv
  BY InitialWriters DEF Init, StoreInv, UnsealedInv, Writing, WritingPhases
<1>2. \A p \in Packages : View(p) = "absent"
  BY DEF Init, View, Empty, NoManifest
<1>3. Harmed = {}
  BY DEF Init, Harmed
<1> QED
  BY <1>1, <1>2, <1>3 DEF Reader!Init

\* To a reader who only asks for verification the root is the abstract store:
\* nothing that verified is written over, and a package becomes verified only by
\* being completed.
THEOREM StoreIsImplemented == Spec => StoreImplemented
<1>1. Init => StoreInv /\ Reader!Init
  BY InitRefinesStore
<1>2. StoreInv /\ [Next]_evidenceVars => StoreInv'
  BY StepKeepsStore
<1>3. StoreInv /\ [Next]_evidenceVars =>
        [Reader!Next]_<<[p \in Packages |-> View(p)], Harmed>>
  BY StepRefinesStore DEF SeenStore
<1> QED
  BY <1>1, <1>2, <1>3, PTL DEF Spec, StoreImplemented, Reader!Spec

-----------------------------------------------------------------------------
-----------------------------------------------------------------------------
(* The release.                                                             *)

\* A command that may yet publish, or has made the release that stands and whose
\* packages have not been cleaned away.
Relied(c) == UnderWay(c) \/ (release[ReleaseManifest] = c /\ c \notin forgotten)

Steps(c) == DOMAIN command[c].mode.program

Nth(c, i) == command[c].mode.program[i]

\* The packages a command has gone on from, and those it has written.
Kept(c, i) == i < command[c].nth \/ command[c].phase \in {"publish", "done"}

Left(c, i) == Kept(c, i) \/ (i = command[c].nth /\ command[c].phase = "packaged")

\* No single damage makes such a package look empty.
Standing(p) ==
    /\ ~Empty(p)
    /\ p \in damaged \/ (manifest[p].state # "absent" /\ files[p] # NoFile)

BeginInv ==
    \A c \in Commands :
        /\ command[c].phase = "ready" => command[c].nth = 1
        /\ command[c].phase = "publish" => command[c].mode.release

\* Nobody writes a package that a command relies on having written.
NotRewrittenInv ==
    \A c, d \in Commands : \A i \in Steps(d) :
        Relied(d) /\ Left(d, i) => ~Writing(c, Nth(d, i))

OneOwnerInv ==
    \A c, d \in Commands : c # d /\ Relied(c) /\ Relied(d) =>
        \A i \in Steps(c), j \in Steps(d) : Left(c, i) /\ Left(d, j) => Nth(c, i) # Nth(d, j)

Own(c, p) == p \in damaged \/ files[p][Environment] = c

LeftInv ==
    \A c \in Commands : Relied(c) =>
        \A i \in Steps(c) : Left(c, i) => Standing(Nth(c, i)) /\ Own(c, Nth(c, i))

KeptInv ==
    \A c \in Commands : Relied(c) /\ command[c].mode.release =>
        \A i \in Steps(c) : Kept(c, i) => Nth(c, i) \in damaged \/ Passes(Nth(c, i))

OwnInv ==
    \A c \in Commands, i \in DOMAIN Artifacts :
        command[c].phase \in WritingPhases /\ Artifacts[i] = Environment /\ Done(c, i) =>
            Own(c, Package(c))

ManifestInv ==
    \A c \in Commands : release[ReleaseManifest] = c =>
        command[c].phase = "done" /\ command[c].mode.release

OwnersInv == NotRewrittenInv /\ OneOwnerInv /\ LeftInv /\ KeptInv /\ OwnInv

OnePublisherInv ==
    \A c, d \in Commands : Publishing(c) /\ Publishing(d) => c = d

PublishInv ==
    \A c \in Commands : Publishing(c) =>
        \A j \in 1..(command[c].at - 1) : release[ReleaseFiles[j]] = c

SignedInv ==
    release[ReleaseManifest] # "absent" =>
        \A f \in Signed : signed[f] = release[ReleaseManifest]

PublishersInv == OnePublisherInv /\ PublishInv /\ SignedInv

\* Once two commands have written one package nothing is claimed of the packages,
\* until the root is cleaned; and nothing of the release files, once two have
\* written them, until they are.
ReleaseInv ==
    /\ WriterInv /\ BeginInv /\ ManifestInv
    /\ raced = {} => OwnersInv
    /\ ~overlapped => PublishersInv

\* The manifest is the last of the release files, and occurs once among them.
LEMMA ManifestReleased ==
    /\ ReleaseManifest \in Released
    /\ Len(ReleaseFiles) \in DOMAIN ReleaseFiles
    /\ \A i \in DOMAIN ReleaseFiles : ReleaseFiles[i] = ReleaseManifest <=> i = Len(ReleaseFiles)
<1>1. Len(ReleaseFiles) \in DOMAIN ReleaseFiles
  BY ReleaseFilesNumbered
<1> QED
  BY <1>1, EvidenceAssumption DEF Released

\* A step of a command alters a package only by writing it.
LEMMA WritersAlter ==
    ASSUME TypeInv, NEW c \in Commands, CommandStep(c)
    PROVE  /\ stray' = stray /\ damaged' = damaged /\ raced \subseteq raced'
           /\ \A q \in Packages : ~Writing(c, q) =>
                files'[q] = files[q] /\ manifest'[q] = manifest[q]
<1>1. stray' = stray /\ damaged' = damaged
  BY DEF CommandStep, Check, Open, Fill, Recalculate, Digest, Seal, Sign, Continue,
         Publish, Kill
<1>2. ASSUME NEW q \in Packages, ~Writing(c, q)
      PROVE  files'[q] = files[q] /\ manifest'[q] = manifest[q]
  <2>1. CASE Open(c)
    BY <1>2, <2>1, OpenTyped, StoreTyped, PackageTyped DEF Open, Contents, Writing, WritingPhases
  <2>2. CASE Fill(c)
    BY <1>2, <2>2, FillTyped, StoreTyped, PackageTyped DEF Fill, Writing, WritingPhases
  <2>3. CASE Seal(c)
    BY <1>2, <2>3, SealTyped DEF Seal, Writing, WritingPhases
  <2>4. CASE Sign(c)
    BY <1>2, <2>4, SignTyped DEF Sign, Writing, WritingPhases
  <2>5. CASE Check(c) \/ Recalculate(c) \/ Digest(c) \/ Continue(c) \/ Publish(c) \/ Kill(c)
    BY <2>5 DEF Check, Recalculate, Digest, Continue, Publish, Kill
  <2> QED
    BY <2>1, <2>2, <2>3, <2>4, <2>5 DEF CommandStep
<1> QED
  BY <1>1, <1>2, RacedGrows

\* What every step of a command has in common.
LEMMA StepsAreTyped ==
    ASSUME TypeInv, NEW c \in Commands, CommandStep(c)
    PROVE  /\ StepsTyped(c)
           /\ TypeInv'
           /\ command[c].phase \notin Ends
           /\ ~Check(c) => command[c].phase # "ready"
           /\ \A i : Nth(c, i)' = Nth(c, i)
           /\ Steps(c)' = Steps(c)
<1>1. StepsTyped(c) /\ TypeInv'
  BY CheckTyped, OpenTyped, FillTyped, RecalculateTyped, DigestTyped, SealTyped,
     SignTyped, ContinueTyped, PublishTyped, KillTyped DEF CommandStep
<1>2. command[c].phase \notin Ends /\ (~Check(c) => command[c].phase # "ready")
  BY DEF CommandStep, Check, Open, Fill, Recalculate, Digest, Seal, Sign, Continue,
         Publish, Kill, UnderWay, Ends
<1> QED
  BY <1>1, <1>2 DEF StepsTyped, Nth, Steps

\* What a step of one command leaves as it is of another.
LEMMA OthersRely ==
    ASSUME TypeInv, NEW c \in Commands, CommandStep(c), NEW d \in Commands, d # c
    PROVE  /\ command'[d] = command[d]
           /\ Relied(d)' => Relied(d)
           /\ Steps(d)' = Steps(d)
           /\ \A i : /\ Nth(d, i)' = Nth(d, i)
                     /\ Left(d, i)' = Left(d, i)
                     /\ Kept(d, i)' = Kept(d, i)
<1>1. command'[d] = command[d]
  BY StepsAreTyped DEF StepsTyped
<1>2. release'[ReleaseManifest] = d => release[ReleaseManifest] = d
  <2>1. CASE Publish(c)
    BY <2>1, ManifestReleased DEF Publish, Publishes, TypeInv, EvidenceTypeOK
  <2>2. CASE ~Publish(c)
    BY <2>2 DEF CommandStep, Check, Open, Fill, Recalculate, Digest, Seal, Sign, Continue, Kill
  <2> QED
    BY <2>1, <2>2
<1>3. forgotten' = forgotten
  BY DEF CommandStep, Check, Open, Fill, Recalculate, Digest, Seal, Sign, Continue,
         Publish, Kill
<1> QED
  BY <1>1, <1>2, <1>3 DEF Relied, UnderWay, Steps, Nth, Left, Kept

\* A command that writes stays in the package, and writes on unless it fails.
LEMMA WritingOn ==
    ASSUME TypeInv, NEW c \in Commands,
           Open(c) \/ Fill(c) \/ Recalculate(c) \/ Digest(c) \/ Seal(c)
    PROVE  /\ command'[c].nth = command[c].nth
           /\ command'[c].phase \in WritingPhases \cup {"failed"}
<1>1. CASE Open(c)
  BY <1>1, GoSets DEF Open, WritingPhases
<1>2. CASE Fill(c)
  <2> DEFINE phase == AfterFilling(command[c].at)
             next == IF command[c].at = Len(Artifacts) THEN 1 ELSE command[c].at + 1
  <2>1. Go(c, phase, next) /\ phase \in WritingPhases
    BY <1>2 DEF Fill, AfterFilling, WritingPhases
  <2> HIDE DEF phase, next
  <2> QED
    BY <2>1, GoSets
<1>3. CASE Recalculate(c)
  BY <1>3, GoSets DEF Recalculate, WritingPhases
<1>4. CASE Digest(c)
  BY <1>4, DigestTyped DEF WritingPhases
<1>5. CASE Seal(c)
  BY <1>5, GoSets DEF Seal, WritingPhases
<1> QED
  BY <1>1, <1>2, <1>3, <1>4, <1>5

\* A command that ends other than by publishing is relied on no more, and one
\* that begins has left nothing.
LEMMA ReliedBefore ==
    ASSUME TypeInv, BeginInv, ManifestInv, NEW c \in Commands, CommandStep(c), Relied(c)'
    PROVE  Relied(c) \/ (Check(c) /\ command[c].nth = 1 /\ command'[c].phase = "open")
<1>1. command[c].phase \in Phases
  BY StepsAreTyped DEF TypeInv, EvidenceTypeOK, CommandType
<1>2. command[c].phase # "ready" => Relied(c)
  BY <1>1, StepsAreTyped DEF Relied, UnderWay
<1>3. CASE command[c].phase = "ready"
  <2>1. Check(c) /\ command[c].nth = 1
    BY <1>3, StepsAreTyped DEF BeginInv
  <2>2. release[ReleaseManifest] # c
    BY <1>3 DEF ManifestInv
  <2>3. command'[c].phase \in {"open", "refused"}
    BY <2>1, GoSets DEF Check
  <2>4. UnderWay(c)'
    BY <2>1, <2>2 DEF Relied, Check
  <2> QED
    BY <2>1, <2>3, <2>4 DEF UnderWay, Ends
<1> QED
  BY <1>2, <1>3

\* What a step adds to the packages a command has gone on from.
LEMMA KeptBefore ==
    ASSUME TypeInv, BeginInv, ManifestInv, NEW c \in Commands, CommandStep(c), Relied(c)',
           NEW i \in Steps(c), Kept(c, i)'
    PROVE  Relied(c) /\ (Kept(c, i) \/ (Continue(c) /\ i = command[c].nth /\ Audited(c)))
<1>1. /\ i \in Nat /\ i >= 1 /\ i <= Len(command[c].mode.program)
      /\ command[c].nth \in Nat /\ Len(command[c].mode.program) \in Nat
      /\ command[c] \in CommandType
  BY PackageTyped, ProgramsNumbered DEF Steps, CommandType
<1>2. CASE Check(c)
  <2>1. /\ command'[c].nth = command[c].nth
        /\ command'[c].phase \in {"open", "refused"}
    BY <1>2, GoSets DEF Check
  <2>2. i < command[c].nth
    BY <1>2, <2>1 DEF Kept
  <2> QED
    BY <1>1, <2>2, ReliedBefore DEF Kept
<1>3. CASE Continue(c)
  <2>1. Relied(c)
    BY <1>3, ReliedBefore DEF Continue, Check
  <2>2. CASE ~Audited(c)
    <3>1. command'[c].phase = "failed"
      BY <1>3, <2>2, GoSets DEF Continue
    <3>2. release[ReleaseManifest] = c
      BY <1>3, <3>1 DEF Relied, UnderWay, Ends, Continue
    <3> QED
      BY <1>3, <3>2 DEF ManifestInv, Continue
  <2>3. CASE Audited(c) /\ command[c].nth < Len(command[c].mode.program)
    <3>1. command'[c].nth = command[c].nth + 1 /\ command'[c].phase = "check"
      BY <1>1, <1>3, <2>3 DEF Continue, CommandType, TypeInv, EvidenceTypeOK
    <3>2. i <= command[c].nth
      BY <1>1, <3>1 DEF Kept
    <3> QED
      BY <1>1, <1>3, <2>1, <2>3, <3>2 DEF Kept
  <2>4. CASE Audited(c) /\ ~(command[c].nth < Len(command[c].mode.program))
    BY <1>1, <1>3, <2>1, <2>4 DEF Kept
  <2> QED
    BY <2>2, <2>3, <2>4
<1>4. CASE Publish(c)
  BY <1>4, ReliedBefore DEF Publish, Check, Kept
<1>5. CASE Kill(c)
  <2>1. command'[c].phase = "killed"
    BY <1>5, KillTyped
  <2>2. release[ReleaseManifest] = c
    BY <1>5, <2>1 DEF Relied, UnderWay, Ends, Kill
  <2> QED
    BY <1>5, <2>2 DEF ManifestInv, Kill, UnderWay, Ends
<1>6. CASE Sign(c)
  <2>1. command'[c].phase = "packaged" /\ command'[c].nth = command[c].nth
    BY <1>1, <1>6 DEF Sign, CommandType, TypeInv, EvidenceTypeOK
  <2> QED
    BY <1>6, <2>1, ReliedBefore DEF Kept, Sign, Check
<1>7. CASE Open(c) \/ Fill(c) \/ Recalculate(c) \/ Digest(c) \/ Seal(c)
  <2>1. command'[c].nth = command[c].nth
    BY <1>7, WritingOn
  <2>2. command'[c].phase \notin {"publish", "done"}
    BY <1>7, WritingOn DEF WritingPhases
  <2>3. Relied(c)
    BY <1>7, ReliedBefore DEF Open, Fill, Recalculate, Digest, Seal, Check
  <2> QED
    BY <2>1, <2>2, <2>3 DEF Kept
<1> QED
  BY <1>2, <1>3, <1>4, <1>5, <1>6, <1>7 DEF CommandStep

\* What a step adds to the packages a command has written.
LEMMA LeftBefore ==
    ASSUME TypeInv, BeginInv, ManifestInv, NEW c \in Commands, CommandStep(c), Relied(c)',
           NEW i \in Steps(c), Left(c, i)'
    PROVE  Relied(c) /\ (Left(c, i) \/ (Sign(c) /\ i = command[c].nth))
<1>1. CASE Kept(c, i)'
  BY <1>1, KeptBefore DEF Left, Continue
<1>2. CASE ~Kept(c, i)'
  <2>1. command'[c].phase = "packaged" /\ i = command'[c].nth
    BY <1>2 DEF Left
  <2>2. CASE Sign(c)
    <3>1. command'[c].nth = command[c].nth
      BY <2>2, PackageTyped DEF Sign, CommandType, TypeInv, EvidenceTypeOK
    <3> QED
      BY <2>1, <2>2, <3>1, ReliedBefore DEF Sign, Check
  <2>3. CASE ~Sign(c)
    <3>1. command'[c].phase # "packaged"
      <4>1. CASE Check(c)
        BY <4>1, GoSets DEF Check
      <4>2. CASE Open(c) \/ Fill(c) \/ Recalculate(c) \/ Digest(c) \/ Seal(c)
        BY <4>2, WritingOn DEF WritingPhases
      <4>3. CASE Continue(c) \/ Publish(c) \/ Kill(c)
        BY <4>3, ContinueTyped, PublishTyped, KillTyped
      <4> QED
        BY <2>3, <4>1, <4>2, <4>3 DEF CommandStep
    <3> QED
      BY <2>1, <3>1
  <2> QED
    BY <2>2, <2>3
<1> QED
  BY <1>1, <1>2

\* Nobody but its writer touches a package that a command relies on.
LEMMA ReliedUntouched ==
    ASSUME TypeInv, NotRewrittenInv, NEW c \in Commands, CommandStep(c),
           NEW d \in Commands, Relied(d), NEW i \in Steps(d), Left(d, i)
    PROVE  /\ Nth(d, i) \in Packages
           /\ files'[Nth(d, i)] = files[Nth(d, i)]
           /\ manifest'[Nth(d, i)] = manifest[Nth(d, i)]
           /\ stray' = stray /\ damaged' = damaged
<1>1. Nth(d, i) \in Packages
  BY PackageTyped, ProgramsNumbered DEF Nth, Steps
<1> QED
  BY <1>1, WritersAlter DEF NotRewrittenInv

\* When a command signs, the package it signs is its own and stands.
LEMMA SignedStands ==
    ASSUME ReleaseInv, raced = {}, NEW c \in Commands, Sign(c)
    PROVE  Standing(Package(c))' /\ Own(c, Package(c))'
<1> DEFINE p == Package(c)
<1>1. p \in Packages /\ TypeInv /\ FilledInv /\ OwnInv
  BY PackageTyped DEF ReleaseInv, WriterInv, OwnersInv
<1>2. \A i \in DOMAIN Artifacts : Done(c, i)
  BY DEF Done, Sign
<1>3. files[p] # NoFile
  <2>1. files[p][Artifacts[1]] \in Whole(p, Artifacts[1]) /\ Artifacts[1] \in Names
    BY <1>1, <1>2, ArtifactsNumbered DEF FilledInv, Sign, WritingPhases
  <2>2. files[p][Artifacts[1]] # "absent"
    BY <2>1, EvidenceAssumption DEF Whole, Fresh, Damages
  <2> QED
    BY <2>1, <2>2 DEF NoFile
<1>4. Own(c, p)
  <2>1. PICK i \in DOMAIN Artifacts : Artifacts[i] = Environment
    BY EvidenceAssumption, ArtifactsNumbered
  <2> QED
    BY <1>1, <1>2, <2>1 DEF OwnInv, Sign, WritingPhases
<1>5. manifest'[p].state = "whole"
  BY <1>1 DEF Sign, TypeInv, EvidenceTypeOK
<1>6. files' = files /\ damaged' = damaged /\ Package(c)' = p
  <2>1. command'[c].nth = command[c].nth
    BY <1>1, PackageTyped DEF Sign, CommandType, TypeInv, EvidenceTypeOK
  <2> QED
    BY <1>1, <2>1, SignTyped, PackageStays DEF Sign
<1> QED
  BY <1>3, <1>4, <1>5, <1>6 DEF Standing, Own, Empty

\* A check finds a relied upon package standing, so it does not open it.
LEMMA CommandKeepsNotRewritten ==
    ASSUME ReleaseInv, NEW c \in Commands, CommandStep(c), raced' = {}
    PROVE  NotRewrittenInv'
<1>1. /\ raced = {} /\ TypeInv /\ BeginInv /\ ManifestInv /\ NotRewrittenInv /\ LeftInv
      /\ AloneInv
  BY WritersAlter DEF ReleaseInv, WriterInv, OwnersInv
<1>2. SUFFICES ASSUME NEW w \in Commands, NEW d \in Commands, NEW i \in Steps(d),
                      NEW p, p = Nth(d, i), Relied(d)', Left(d, i)', Writing(w, p)'
               PROVE  FALSE
  <2>1. \A d \in Commands : Steps(d)' = Steps(d) /\ \A i : Nth(d, i)' = Nth(d, i)
    BY <1>1, StepsAreTyped, OthersRely
  <2> QED
    BY <1>2, <2>1 DEF NotRewrittenInv, Writing
<1>3. p \in Packages
  BY <1>1, <1>2, PackageTyped, ProgramsNumbered DEF Nth, Steps
<1>4. Relied(d) /\ (Left(d, i) \/ (d = c /\ Sign(c) /\ i = command[c].nth))
  BY <1>1, <1>2, LeftBefore, OthersRely
<1>5. CASE Writing(w, p)
  <2>1. d = c /\ Sign(c) /\ p = Package(c)
    BY <1>1, <1>2, <1>4, <1>5 DEF NotRewrittenInv, Nth, Package
  <2>2. w # c
    BY <1>1, <1>2, <2>1, SignTyped DEF Writing, WritingPhases
  <2>3. Writing(c, p)
    BY <2>1 DEF Writing, Sign, WritingPhases
  <2> QED
    BY <1>1, <1>3, <1>5, <2>2, <2>3 DEF AloneInv
<1>6. CASE ~Writing(w, p)
  <2>1. w = c
    BY <1>1, <1>2, <1>6, StepsAreTyped, OthersStay
  <2>2. Check(c)
    BY <1>1, <1>2, <1>6, <2>1, AllButChecksStay, PackageStays
    DEF CommandStep, Stays, Writing
  <2>3. p = Package(c) /\ Empty(p)
    <3>1. command'[c].phase \in WritingPhases /\ Package(c)' = p
      BY <1>2, <2>1 DEF Writing
    <3>2. Package(c) = p
      BY <1>1, <2>2, <3>1, CheckOpens
    <3>3. command'[c].phase # "refused"
      BY <3>1 DEF WritingPhases
    <3> QED
      BY <1>1, <2>2, <3>2, <3>3, GoSets DEF Check
  <2>4. Left(d, i)
    BY <1>4, <2>2 DEF Check, Sign
  <2> QED
    BY <1>1, <1>2, <1>4, <2>3, <2>4 DEF LeftInv, Standing
<1> QED
  BY <1>5, <1>6

\* A package two commands rely on would have been rewritten by one of them.
LEMMA CommandKeepsOneOwner ==
    ASSUME ReleaseInv, NEW c \in Commands, CommandStep(c), raced' = {}
    PROVE  OneOwnerInv'
<1>1. /\ raced = {} /\ TypeInv /\ BeginInv /\ ManifestInv /\ NotRewrittenInv /\ OneOwnerInv
  BY WritersAlter DEF ReleaseInv, WriterInv, OwnersInv
<1>2. \A d \in Commands : Steps(d)' = Steps(d) /\ \A i : Nth(d, i)' = Nth(d, i)
  BY <1>1, StepsAreTyped, OthersRely
<1>3. SUFFICES ASSUME NEW d \in Commands, NEW e \in Commands, d # e,
                      NEW i \in Steps(d), NEW j \in Steps(e),
                      Relied(d)', Relied(e)', Left(d, i)', Left(e, j)', Nth(d, i) = Nth(e, j)
               PROVE  FALSE
  BY <1>2 DEF OneOwnerInv
<1>4. Relied(d) /\ (Left(d, i) \/ (d = c /\ Sign(c) /\ i = command[c].nth))
  BY <1>1, <1>3, LeftBefore, OthersRely
<1>5. Relied(e) /\ (Left(e, j) \/ (e = c /\ Sign(c) /\ j = command[c].nth))
  BY <1>1, <1>3, LeftBefore, OthersRely
<1>6. Sign(c) => Writing(c, Nth(c, command[c].nth))
  BY DEF Sign, Writing, WritingPhases, Nth, Package
<1> QED
  BY <1>1, <1>3, <1>4, <1>5, <1>6 DEF OneOwnerInv, NotRewrittenInv

\* A written package stands, and stays as its writer left it.
LEMMA CommandKeepsLeft ==
    ASSUME ReleaseInv, NEW c \in Commands, CommandStep(c), raced' = {}
    PROVE  LeftInv'
<1>1. /\ raced = {} /\ TypeInv /\ BeginInv /\ ManifestInv /\ NotRewrittenInv /\ LeftInv
  BY WritersAlter DEF ReleaseInv, WriterInv, OwnersInv
<1>2. \A d \in Commands : Steps(d)' = Steps(d) /\ \A i : Nth(d, i)' = Nth(d, i)
  BY <1>1, StepsAreTyped, OthersRely
<1>3. SUFFICES ASSUME NEW d \in Commands, NEW i \in Steps(d), Relied(d)', Left(d, i)'
               PROVE  (Standing(Nth(d, i)) /\ Own(d, Nth(d, i)))'
  BY <1>2 DEF LeftInv
<1>4. Relied(d) /\ (Left(d, i) \/ (d = c /\ Sign(c) /\ i = command[c].nth))
  BY <1>1, <1>3, LeftBefore, OthersRely
<1>5. CASE Left(d, i)
  <2> DEFINE p == Nth(d, i)
  <2>1. Standing(p) /\ Own(d, p)
    BY <1>1, <1>4, <1>5 DEF LeftInv
  <2>2. /\ files'[p] = files[p] /\ manifest'[p] = manifest[p]
        /\ stray' = stray /\ damaged' = damaged
    BY <1>1, <1>4, <1>5, ReliedUntouched
  <2>3. Nth(d, i)' = p
    BY <1>2
  <2> QED
    BY <2>1, <2>2, <2>3 DEF Standing, Own, Empty
<1>6. CASE d = c /\ Sign(c) /\ i = command[c].nth
  <2>1. Nth(d, i)' = Package(c)'
    <3>1. command'[c].nth = command[c].nth
      BY <1>1, <1>6, PackageTyped DEF Sign, CommandType, TypeInv, EvidenceTypeOK
    <3> QED
      BY <1>6, <3>1 DEF Nth, Package
  <2> QED
    BY <1>1, <1>6, <2>1, SignedStands DEF Standing, Own, Empty
<1> QED
  BY <1>4, <1>5, <1>6

\* A release goes on from a package only when it has passed the audit.
LEMMA CommandKeepsKept ==
    ASSUME ReleaseInv, NEW c \in Commands, CommandStep(c), raced' = {}
    PROVE  KeptInv'
<1>1. /\ raced = {} /\ TypeInv /\ BeginInv /\ ManifestInv /\ NotRewrittenInv /\ KeptInv
  BY WritersAlter DEF ReleaseInv, WriterInv, OwnersInv
<1>2. \A d \in Commands : Steps(d)' = Steps(d) /\ \A i : Nth(d, i)' = Nth(d, i)
  BY <1>1, StepsAreTyped, OthersRely
<1>3. SUFFICES ASSUME NEW d \in Commands, NEW i \in Steps(d), Relied(d)', Kept(d, i)',
                      command'[d].mode.release
               PROVE  Nth(d, i) \in damaged' \/ Passes(Nth(d, i))'
  BY <1>2 DEF KeptInv, Passes, Parses, Fresh
<1> DEFINE p == Nth(d, i)
<1>4. Relied(d) /\ (Kept(d, i) \/ (d = c /\ Continue(c) /\ i = command[c].nth /\ Audited(c)))
  BY <1>1, <1>3, KeptBefore, OthersRely
<1>5. command[d].mode.release
  BY <1>1, <1>3, StepsAreTyped, OthersRely DEF StepsTyped
<1>6. p \in damaged \/ Passes(p)
  BY <1>1, <1>4, <1>5 DEF KeptInv, Audited, Nth, Package
<1>7. Left(d, i)
  BY <1>4 DEF Left, Continue
<1>8. /\ files'[p] = files[p] /\ manifest'[p] = manifest[p]
      /\ stray' = stray /\ damaged' = damaged
  BY <1>1, <1>4, <1>7, ReliedUntouched
<1>9. Nth(d, i)' = p
  BY <1>2
<1> QED
  BY <1>6, <1>8, <1>9 DEF Passes, Parses, Fresh

\* What a command puts into environment.json stays there while it writes on.
LEMMA CommandKeepsOwn ==
    ASSUME ReleaseInv, NEW c \in Commands, CommandStep(c), raced' = {}
    PROVE  OwnInv'
<1>1. raced = {} /\ TypeInv /\ AloneInv /\ OwnInv /\ damaged' = damaged
  BY WritersAlter DEF ReleaseInv, WriterInv, OwnersInv
<1>2. SUFFICES ASSUME NEW d \in Commands, NEW i \in DOMAIN Artifacts,
                      command'[d].phase \in WritingPhases, Artifacts[i] = Environment,
                      Done(d, i)', NEW p \in Packages, p = Package(d)',
                      p \notin damaged
               PROVE  files'[p][Environment] = d
  <2>1. TypeInv'
    BY <1>1, StepsAreTyped
  <2>2. \A d \in Commands : Package(d)' \in Packages
    BY <2>1, ProgramsNumbered DEF TypeInv, EvidenceTypeOK, CommandType, Package
  <2> QED
    BY <1>1, <1>2, <2>2 DEF OwnInv, Own
<1>3. CASE d # c
  <2>1. /\ command[d].phase \in WritingPhases /\ Done(d, i) /\ p = Package(d)
        /\ Writing(d, p)
    BY <1>1, <1>2, <1>3, StepsAreTyped, OthersStay DEF Writing
  <2>2. ~Writing(c, p)
    BY <1>1, <1>2, <1>3, <2>1 DEF AloneInv
  <2>3. files'[p] = files[p]
    BY <1>1, <2>2, WritersAlter
  <2> QED
    BY <1>1, <1>2, <2>1, <2>3 DEF OwnInv, Own
<1>4. CASE d = c
  <2>1. CASE Check(c)
    <3>1. command'[c].phase = "open" /\ command'[c].at = 1
      BY <1>1, <1>2, <1>4, <2>1, CheckOpens
    <3> QED
      BY <1>2, <1>4, <3>1, ArtifactsNumbered DEF Done
  <2>2. CASE ~Check(c)
    <3>1. Stays(c)
      BY <1>1, <2>2, AllButChecksStay DEF CommandStep
    <3>2. command[c].phase \in WritingPhases /\ p = Package(c)
      BY <1>2, <1>4, <3>1, PackageStays DEF Stays
    <3>3. Done(c, i) => files[p][Environment] = c
      BY <1>1, <1>2, <3>2 DEF OwnInv, Own
    <3>4. /\ command[c].at \in Nat
          /\ command[c].phase \in {"open", "fill"} => command[c].at \in DOMAIN Artifacts
          /\ i \in Nat /\ i <= Len(Artifacts)
      BY <1>1, ArtifactsNumbered DEF TypeInv, EvidenceTypeOK, CommandType
    <3>5. CASE Open(c)
      <4>1. i < command[c].at
        BY <1>1, <1>2, <1>4, <3>5, GoSets DEF Open, Done
      <4>2. Artifact(c) # Environment
        BY <1>2, <3>4, <3>5, <4>1, EvidenceAssumption DEF Artifact, Open
      <4>3. files'[p][Environment] = files[p][Environment]
        BY <1>1, <1>2, <3>2, <3>5, <4>2, OpenTyped, StoreTyped, EvidenceAssumption
        DEF Open, Contents
      <4> QED
        BY <1>4, <3>3, <4>1, <4>3 DEF Done
    <3>6. CASE Fill(c)
      <4>1. CASE Artifact(c) = Environment
        BY <1>1, <1>2, <1>4, <3>2, <3>6, <4>1, FillTyped, StoreTyped DEF Fill, Written
      <4>2. CASE Artifact(c) # Environment
        <5>1. i # command[c].at
          BY <1>2, <4>2 DEF Artifact
        <5>2. i < command[c].at
          <6>1. CASE command[c].at = Len(Artifacts)
            BY <3>4, <5>1, <6>1
          <6>2. CASE command[c].at # Len(Artifacts)
            <7> DEFINE phase == AfterFilling(command[c].at)
            <7>1. Go(c, phase, command[c].at + 1) /\ phase \in {"recalculate", "open"}
              BY <3>6, <6>2 DEF Fill, AfterFilling
            <7> HIDE DEF phase
            <7>2. command'[c].phase \in {"recalculate", "open"}
                  /\ command'[c].at = command[c].at + 1
              BY <1>1, <3>4, <7>1, GoSets
            <7>3. i < command[c].at + 1
              BY <1>2, <1>4, <7>2 DEF Done
            <7> QED
              BY <3>4, <5>1, <7>3
          <6> QED
            BY <6>1, <6>2
        <5>3. files'[p][Environment] = files[p][Environment]
          BY <1>1, <1>2, <3>2, <3>6, <4>2, FillTyped, StoreTyped, EvidenceAssumption DEF Fill
        <5> QED
          BY <1>4, <3>3, <5>2, <5>3 DEF Done
      <4> QED
        BY <4>1, <4>2
    <3>7. CASE Recalculate(c)
      <4>1. command'[c].phase = "open" /\ command'[c].at = command[c].at
        BY <1>1, <1>2, <1>4, <3>4, <3>7, GoSets DEF Recalculate, WritingPhases
      <4>2. Done(c, i)
        BY <1>2, <1>4, <4>1 DEF Done
      <4> QED
        BY <1>4, <3>3, <3>7, <4>2 DEF Recalculate
    <3>8. CASE Digest(c) \/ Seal(c)
      <4>1. Done(c, i) /\ files' = files
        BY <3>8 DEF Digest, Seal, Done
      <4> QED
        BY <1>4, <3>3, <4>1
    <3>9. CASE Sign(c) \/ Continue(c) \/ Publish(c) \/ Kill(c)
      BY <1>1, <1>2, <1>4, <3>9, SignTyped, ContinueTyped, PublishTyped, KillTyped
      DEF WritingPhases
    <3> QED
      BY <2>2, <3>5, <3>6, <3>7, <3>8, <3>9 DEF CommandStep
  <2> QED
    BY <2>1, <2>2
<1> QED
  BY <1>3, <1>4

\* A command begins with its first package, and publishes only for a release.
LEMMA CommandKeepsBegin ==
    ASSUME ReleaseInv, NEW c \in Commands, CommandStep(c)
    PROVE  BeginInv'
<1>1. TypeInv /\ BeginInv
  BY DEF ReleaseInv, WriterInv
<1>2. ASSUME NEW d \in Commands
      PROVE  /\ command'[d].phase = "ready" => command'[d].nth = 1
             /\ command'[d].phase = "publish" => command'[d].mode.release
  <2>1. CASE d # c
    BY <1>1, <2>1, OthersRely DEF BeginInv
  <2>2. CASE d = c
    <3>1. command'[c].mode = command[c].mode
      BY <1>1, StepsAreTyped DEF StepsTyped
    <3>2. CASE Check(c)
      BY <1>1, <2>2, <3>2, GoSets DEF Check
    <3>3. CASE Open(c) \/ Fill(c) \/ Recalculate(c) \/ Digest(c) \/ Seal(c)
      BY <1>1, <2>2, <3>3, WritingOn DEF WritingPhases
    <3>4. CASE Sign(c) \/ Kill(c)
      BY <1>1, <2>2, <3>4, SignTyped, KillTyped
    <3>5. CASE Continue(c)
      <4>1. command'[c].phase = "publish" => command[c].mode.release
        BY <1>1, <3>5, GoSets DEF Continue, TypeInv, EvidenceTypeOK, CommandType
      <4> QED
        BY <1>1, <2>2, <3>1, <3>5, <4>1, ContinueTyped
    <3>6. CASE Publish(c)
      BY <1>1, <2>2, <3>1, <3>6, PublishTyped DEF BeginInv, Publish
    <3> QED
      BY <3>2, <3>3, <3>4, <3>5, <3>6 DEF CommandStep
  <2> QED
    BY <2>1, <2>2
<1> QED
  BY <1>2 DEF BeginInv

\* Only a command that publishes writes a release file, and it puts its name there;
\* the manifest signs the others as they are.
LEMMA ReleaseFileWritten ==
    ASSUME TypeInv, NEW c \in Commands, CommandStep(c)
    PROVE  \/ release' = release /\ signed' = signed
           \/ /\ Publish(c) /\ command[c].at \in DOMAIN ReleaseFiles
              /\ Publishes(c, ReleaseFiles[command[c].at])
              /\ command'[c].phase \in {"publish", "done"}
              /\ command'[c].phase = "publish" =>
                    /\ command[c].at # Len(ReleaseFiles)
                    /\ command'[c].at = command[c].at + 1
              /\ command'[c].phase = "done" <=> command[c].at = Len(ReleaseFiles)
<1>1. CASE Publish(c)
  <2>1. command[c].at \in DOMAIN ReleaseFiles /\ command[c].at + 1 \in Nat
    BY <1>1, ReleaseFilesNumbered DEF Publish, TypeInv, EvidenceTypeOK
  <2>2. CASE Go(c, "done", 1) /\ command[c].at = Len(ReleaseFiles)
    BY <1>1, <2>1, <2>2, GoSets DEF Publish
  <2>3. CASE Go(c, "publish", command[c].at + 1) /\ command[c].at # Len(ReleaseFiles)
    BY <1>1, <2>1, <2>3, GoSets DEF Publish
  <2> QED
    BY <1>1, <2>2, <2>3 DEF Publish
<1>2. CASE ~Publish(c)
  BY <1>2 DEF CommandStep, Check, Open, Fill, Recalculate, Digest, Seal, Sign, Continue, Kill
<1> QED
  BY <1>1, <1>2

\* A command publishes from the first file on, and who comes to publish beside
\* another overlaps with it.
LEMMA PublishingBefore ==
    ASSUME TypeInv, NEW c \in Commands, CommandStep(c)
    PROVE  /\ overlapped => overlapped'
           /\ Publishing(c)' =>
                \/ Publish(c)
                \/ /\ Continue(c) /\ command'[c].at = 1
                   /\ \A d \in Commands : d # c /\ Publishing(d) => overlapped'
<1>1. overlapped => overlapped'
  BY DEF CommandStep, Check, Open, Fill, Recalculate, Digest, Seal, Sign, Continue,
         Publish, Kill
<1>2. ASSUME Continue(c), Publishing(c)'
      PROVE  command'[c].at = 1 /\ \A d \in Commands : d # c /\ Publishing(d) => overlapped'
  <2>1. ~Go(c, "failed", 1) /\ ~Go(c, "done", 1)
    BY <1>2, GoSets
  <2>2. ~(command' = [command EXCEPT ![c].phase = "check", ![c].nth = @ + 1])
    BY <1>2 DEF TypeInv, EvidenceTypeOK, CommandType
  <2>3. Go(c, "publish", 1)
    BY <1>2, <2>1, <2>2 DEF Continue
  <2>4. command'[c].at = 1
    BY <2>3, GoSets
  <2> QED
    BY <1>2, <2>4 DEF Continue
<1>3. ASSUME ~Publish(c), ~Continue(c)
      PROVE  ~Publishing(c)'
  <2>1. CASE Check(c)
    BY <2>1, GoSets DEF Check
  <2>2. CASE Open(c) \/ Fill(c) \/ Recalculate(c) \/ Digest(c) \/ Seal(c)
    BY <2>2, WritingOn DEF WritingPhases
  <2>3. CASE Sign(c) \/ Kill(c)
    BY <2>3, SignTyped, KillTyped
  <2> QED
    BY <1>3, <2>1, <2>2, <2>3 DEF CommandStep
<1> QED
  BY <1>1, <1>2, <1>3

\* Nobody publishes beside another as long as none has come to.
LEMMA CommandKeepsOnePublisher ==
    ASSUME ReleaseInv, NEW c \in Commands, CommandStep(c), ~overlapped'
    PROVE  OnePublisherInv'
<1>1. TypeInv /\ OnePublisherInv
  BY PublishingBefore DEF ReleaseInv, WriterInv, PublishersInv
<1>2. \A d \in Commands : d # c => command'[d] = command[d]
  BY <1>1, OthersRely
<1>3. ASSUME NEW d \in Commands, d # c, Publishing(c)', Publishing(d)
      PROVE  FALSE
  BY <1>1, <1>3, PublishingBefore DEF OnePublisherInv, Publish
<1> QED
  BY <1>1, <1>2, <1>3 DEF OnePublisherInv

\* A release file is not written over while its command publishes.
LEMMA CommandKeepsPublish ==
    ASSUME ReleaseInv, NEW c \in Commands, CommandStep(c), ~overlapped'
    PROVE  PublishInv'
<1>1. TypeInv /\ OnePublisherInv /\ PublishInv
  BY PublishingBefore DEF ReleaseInv, WriterInv, PublishersInv
<1>2. SUFFICES ASSUME NEW d \in Commands, Publishing(d)',
                      NEW j \in 1..(command'[d].at - 1)
               PROVE  release'[ReleaseFiles[j]] = d
  BY DEF PublishInv
<1>3. /\ command[d].at \in Nat /\ command'[d].at \in Nat
      /\ command'[d].at \in DOMAIN ReleaseFiles
      /\ release \in [Released -> Commands \cup {"absent"}]
  BY <1>1, <1>2, StepsAreTyped DEF TypeInv, EvidenceTypeOK, CommandType
<1>4. ReleaseFiles[j] \in Released
  BY <1>3, ReleaseFilesNumbered
<1>5. CASE d # c
  <2>1. command'[d] = command[d]
    BY <1>1, <1>5, OthersRely
  <2>2. release[ReleaseFiles[j]] = d
    BY <1>1, <1>2, <2>1 DEF PublishInv
  <2>3. ~Publish(c)
    BY <1>1, <1>2, <1>5, <2>1 DEF OnePublisherInv, Publish
  <2> QED
    BY <1>1, <2>2, <2>3, ReleaseFileWritten
<1>6. CASE d = c
  <2>1. CASE Publish(c)
    <3>1. command[c].at \in DOMAIN ReleaseFiles
      BY <1>1, <2>1 DEF Publish, TypeInv, EvidenceTypeOK
    <3>2. /\ release' = [release EXCEPT ![ReleaseFiles[command[c].at]] = c]
          /\ command'[c].at = command[c].at + 1
      <4>1. ~Go(c, "failed", 1) /\ ~Go(c, "done", 1)
        BY <1>1, <1>2, <1>6, GoSets
      <4>2. command[c].at + 1 \in Nat
        BY <1>3, <1>6
      <4> QED
        BY <1>1, <2>1, <4>1, <4>2, GoSets DEF Publish, Publishes
    <3>3. j = command[c].at \/ j \in 1..(command[c].at - 1)
      BY <1>2, <1>3, <1>6, <3>2
    <3>4. j \in 1..(command[c].at - 1) => release[ReleaseFiles[j]] = c
      BY <1>1, <2>1 DEF PublishInv, Publish
    <3> QED
      BY <1>3, <1>4, <1>6, <3>2, <3>3, <3>4
  <2>2. CASE command'[c].at = 1
    BY <1>2, <1>6, <2>2
  <2> QED
    BY <1>1, <1>2, <1>6, <2>1, <2>2, PublishingBefore
<1> QED
  BY <1>5, <1>6

\* The manifest is signed when its command has written every other file.
LEMMA CommandKeepsSigned ==
    ASSUME ReleaseInv, NEW c \in Commands, CommandStep(c), ~overlapped'
    PROVE  SignedInv'
<1>1. TypeInv /\ PublishInv /\ SignedInv
  BY PublishingBefore DEF ReleaseInv, WriterInv, PublishersInv
<1>2. release \in [Released -> Commands \cup {"absent"}] /\ ReleaseManifest \in Released
  BY <1>1, ManifestReleased DEF TypeInv, EvidenceTypeOK
<1>3. CASE release' = release /\ signed' = signed
  BY <1>1, <1>3 DEF SignedInv
<1>4. ASSUME Publish(c), NEW at \in DOMAIN ReleaseFiles, at = command[c].at,
             Publishes(c, ReleaseFiles[at])
      PROVE  SignedInv'
  <2>1. release' = [release EXCEPT ![ReleaseFiles[at]] = c]
    BY <1>4 DEF Publishes
  <2>2. CASE ReleaseFiles[at] = ReleaseManifest
    <3>1. at = Len(ReleaseFiles)
      BY <1>4, <2>2, ManifestReleased
    <3>2. release'[ReleaseManifest] = c /\ signed' = [f \in Signed |-> release[f]]
      BY <1>2, <1>4, <2>1, <2>2 DEF Publishes
    <3>3. ASSUME NEW f \in Signed PROVE release[f] = c
      <4>1. PICK j \in DOMAIN ReleaseFiles : f = ReleaseFiles[j]
        BY DEF Signed, Released
      <4>2. j # at
        BY <2>2, <4>1 DEF Signed
      <4>3. j \in 1..(at - 1)
        BY <3>1, <4>1, <4>2, ReleaseFilesNumbered
      <4> QED
        BY <1>1, <1>4, <4>1, <4>3 DEF PublishInv, Publish
    <3> QED
      BY <3>2, <3>3 DEF SignedInv
  <2>3. CASE ReleaseFiles[at] # ReleaseManifest
    <3>1. release'[ReleaseManifest] = release[ReleaseManifest] /\ signed' = signed
      BY <1>2, <1>4, <2>1, <2>3 DEF Publishes
    <3> QED
      BY <1>1, <3>1 DEF SignedInv
  <2> QED
    BY <2>2, <2>3
<1> QED
  BY <1>1, <1>3, <1>4, ReleaseFileWritten

\* Whose manifest stands has come to the end of a release, and stays there.
LEMMA CommandKeepsManifest ==
    ASSUME ReleaseInv, NEW c \in Commands, CommandStep(c)
    PROVE  ManifestInv'
<1>1. TypeInv /\ BeginInv /\ ManifestInv
  BY DEF ReleaseInv, WriterInv
<1>2. SUFFICES ASSUME NEW d \in Commands, release'[ReleaseManifest] = d
               PROVE  command'[d].phase = "done" /\ command'[d].mode.release
  BY DEF ManifestInv
<1>3. release \in [Released -> Commands \cup {"absent"}] /\ ReleaseManifest \in Released
  BY <1>1, ManifestReleased DEF TypeInv, EvidenceTypeOK
<1>4. CASE release[ReleaseManifest] = d
  <2>1. command[d].phase = "done" /\ command[d].mode.release
    BY <1>1, <1>4 DEF ManifestInv
  <2>2. d # c
    BY <1>1, <2>1, StepsAreTyped DEF Ends
  <2> QED
    BY <1>1, <2>1, <2>2, OthersRely
<1>5. CASE release[ReleaseManifest] # d
  <2> DEFINE at == command[c].at
  <2>1. /\ Publish(c) /\ at \in DOMAIN ReleaseFiles
        /\ release' = [release EXCEPT ![ReleaseFiles[at]] = c]
        /\ command'[c].phase = "done" <=> at = Len(ReleaseFiles)
    BY <1>1, <1>2, <1>5, ReleaseFileWritten DEF Publishes
  <2>2. ReleaseFiles[at] = ReleaseManifest /\ d = c
    BY <1>2, <1>3, <1>5, <2>1
  <2>3. at = Len(ReleaseFiles)
    BY <2>1, <2>2, ManifestReleased
  <2>4. command'[c].mode.release
    BY <1>1, <2>1, StepsAreTyped DEF StepsTyped, BeginInv, Publish
  <2> QED
    BY <2>1, <2>2, <2>3, <2>4
<1> QED
  BY <1>4, <1>5

\* Damage to a package makes no command's claim on it false: it is harmed, and
\* does not look empty.
LEMMA DamageKeepsOwners ==
    ASSUME TypeInv, OwnersInv, NEW p \in Packages, Damage(p)
    PROVE  OwnersInv'
<1>1. /\ UNCHANGED <<command, release, raced, forgotten>>
      /\ damaged' = damaged \cup {p} /\ p \notin damaged
  BY DEF Damage
<1>2. ASSUME NEW q \in Packages, q # p
      PROVE  files'[q] = files[q] /\ manifest'[q] = manifest[q] /\ stray'[q] = stray[q]
  BY <1>2 DEF Damage, Store, TypeInv, EvidenceTypeOK
<1>3. Standing(p) => ~Empty(p)'
  <2>1. SUFFICES ASSUME manifest[p].state # "absent", files[p] # NoFile PROVE ~Empty(p)'
    BY <1>1 DEF Standing
  <2>2. CASE UNCHANGED manifest
    BY <2>1, <2>2 DEF Empty
  <2>3. CASE UNCHANGED files
    BY <2>1, <2>3 DEF Empty
  <2> QED
    BY <2>2, <2>3 DEF Damage
<1>4. \A q \in Packages : Standing(q) => Standing(q)'
  BY <1>1, <1>2, <1>3 DEF Standing, Empty
<1>5. /\ \A c \in Commands, q \in Packages : Own(c, q) => Own(c, q)'
      /\ \A q \in Packages : (q \in damaged \/ Passes(q)) => (q \in damaged \/ Passes(q))'
  BY <1>1, <1>2 DEF Own, Passes, Parses, Fresh
<1>6. \A c \in Commands : /\ Package(c) \in Packages
                          /\ \A i \in Steps(c) : Nth(c, i) \in Packages
  BY PackageTyped, ProgramsNumbered DEF Steps, Nth
<1>7. \A c \in Commands :
        /\ Relied(c)' = Relied(c) /\ Steps(c)' = Steps(c) /\ Package(c)' = Package(c)
        /\ \A i : /\ Nth(c, i)' = Nth(c, i) /\ Left(c, i)' = Left(c, i)
                  /\ Kept(c, i)' = Kept(c, i) /\ Done(c, i)' = Done(c, i)
  BY <1>1 DEF Relied, UnderWay, Steps, Nth, Left, Kept, Done, Package
<1>8. NotRewrittenInv' /\ OneOwnerInv'
  BY <1>1 DEF OwnersInv, NotRewrittenInv, OneOwnerInv, Relied, UnderWay, Steps, Nth, Left,
             Kept, Writing, Package
<1>9. LeftInv'
  <2>1. SUFFICES ASSUME NEW c \in Commands, Relied(c), NEW i \in Steps(c), Left(c, i)
                 PROVE  (Standing(Nth(c, i)) /\ Own(c, Nth(c, i)))'
    BY <1>7 DEF LeftInv
  <2>2. PICK q \in Packages : q = Nth(c, i)
    BY <1>6
  <2>3. Standing(q)' /\ Own(c, q)'
    BY <1>4, <1>5, <2>1, <2>2 DEF OwnersInv, LeftInv
  <2> QED
    BY <1>7, <2>2, <2>3 DEF Standing, Own, Empty
<1>10. KeptInv'
  <2>1. SUFFICES ASSUME NEW c \in Commands, Relied(c), command[c].mode.release,
                        NEW i \in Steps(c), Kept(c, i)
                 PROVE  (Nth(c, i) \in damaged \/ Passes(Nth(c, i)))'
    BY <1>1, <1>7 DEF KeptInv
  <2>2. PICK q \in Packages : q = Nth(c, i)
    BY <1>6
  <2>3. (q \in damaged \/ Passes(q))'
    BY <1>5, <2>1, <2>2 DEF OwnersInv, KeptInv
  <2> QED
    BY <1>7, <2>2, <2>3 DEF Passes, Parses, Fresh
<1>11. OwnInv'
  BY <1>1, <1>5, <1>6, <1>7 DEF OwnersInv, OwnInv, Own
<1> QED
  BY <1>8, <1>9, <1>10, <1>11 DEF OwnersInv

\* When either directory is cleaned no command is at work, and whoever had made a
\* release is relied on no more.
LEMMA CleanedRelease ==
    ASSUME ReleaseInv, CleanEvidence \/ CleanRelease
    PROVE  OwnersInv' /\ ManifestInv' /\ (~overlapped' => PublishersInv')
<1>1. ManifestInv /\ (~overlapped => PublishersInv) /\ command' = command
  BY DEF ReleaseInv, CleanEvidence, CleanRelease
<1>2. \A c \in Commands :
        command'[c].phase \notin WritingPhases \cup {"publish"} /\ ~UnderWay(c)'
  BY DEF CleanEvidence, CleanRelease, UnderWay, Ends, WritingPhases
<1>3. CASE CleanEvidence
  <2>1. release' = release /\ signed' = signed /\ overlapped' = overlapped
    BY <1>3 DEF CleanEvidence
  <2>2. \A c \in Commands : release'[ReleaseManifest] = c => c \in forgotten'
    BY <1>1, <1>3, <2>1 DEF CleanEvidence, ManifestInv
  <2>3. \A c \in Commands : ~Relied(c)'
    BY <1>2, <2>2 DEF Relied
  <2>4. ManifestInv' /\ (~overlapped' => SignedInv')
    BY <1>1, <2>1 DEF ManifestInv, PublishersInv, SignedInv
  <2> QED
    BY <1>2, <2>3, <2>4
    DEF OwnersInv, NotRewrittenInv, OneOwnerInv, LeftInv, KeptInv, OwnInv, PublishersInv,
        OnePublisherInv, PublishInv
<1>4. CASE CleanRelease
  <2>1. release'[ReleaseManifest] = "absent"
    BY <1>4, ManifestReleased DEF CleanRelease, ReleaseManifest, Readme
  <2>2. \A c \in Commands : ~Relied(c)' /\ release'[ReleaseManifest] # c
    BY <1>2, <2>1, EvidenceAssumption DEF Relied, Damages
  <2> QED
    BY <1>2, <2>1, <2>2
    DEF OwnersInv, NotRewrittenInv, OneOwnerInv, LeftInv, KeptInv, OwnInv, PublishersInv,
        OnePublisherInv, PublishInv, SignedInv, ManifestInv
<1> QED
  BY <1>3, <1>4

\* Every step keeps what is known of the owners of packages and release files.
LEMMA StepKeepsRelease ==
    ASSUME ReleaseInv, [Next]_evidenceVars
    PROVE  ReleaseInv'
<1>1. WriterInv' /\ TypeInv
  BY StepKeepsWriters DEF ReleaseInv, WriterInv
<1> DEFINE Rest == /\ BeginInv /\ ManifestInv
                   /\ raced = {} => OwnersInv
                   /\ ~overlapped => PublishersInv
<1>2. ASSUME NEW c \in Commands, CommandStep(c)
      PROVE  Rest'
  BY <1>2, CommandKeepsBegin, CommandKeepsManifest, CommandKeepsNotRewritten,
     CommandKeepsOneOwner, CommandKeepsLeft, CommandKeepsKept, CommandKeepsOwn,
     CommandKeepsOnePublisher, CommandKeepsPublish, CommandKeepsSigned
  DEF OwnersInv, PublishersInv
<1>3. ASSUME NEW p \in Packages, Damage(p)
      PROVE  Rest'
  <2>1. UNCHANGED <<command, release, signed, raced, overlapped>>
    BY <1>3 DEF Damage
  <2>2. (BeginInv /\ ManifestInv /\ (~overlapped => PublishersInv))'
    BY <2>1 DEF ReleaseInv, BeginInv, ManifestInv, PublishersInv, OnePublisherInv,
                PublishInv, SignedInv
  <2> QED
    BY <1>1, <1>3, <2>1, <2>2, DamageKeepsOwners DEF ReleaseInv
<1>4. CASE CleanEvidence \/ CleanRelease
  <2>1. BeginInv'
    BY <1>4 DEF ReleaseInv, BeginInv, CleanEvidence, CleanRelease
  <2> QED
    BY <1>1, <1>4, <2>1, CleanedRelease DEF ReleaseInv
<1>5. CASE UNCHANGED evidenceVars
  <2> USE <1>5 DEF evidenceVars
  <2>1. NotRewrittenInv' = NotRewrittenInv /\ OneOwnerInv' = OneOwnerInv
    BY DEF NotRewrittenInv, OneOwnerInv, Relied, UnderWay, Steps, Nth, Left, Kept, Writing,
           Package
  <2>2. LeftInv' = LeftInv
    BY DEF LeftInv, Relied, UnderWay, Steps, Nth, Left, Kept, Standing, Empty, Own
  <2>3. KeptInv' = KeptInv
    BY DEF KeptInv, Relied, UnderWay, Steps, Nth, Kept, Passes, Parses, Fresh
  <2>4. OwnInv' = OwnInv
    BY DEF OwnInv, Own, Done, Package
  <2>5. /\ BeginInv' = BeginInv /\ ManifestInv' = ManifestInv
        /\ PublishersInv' = PublishersInv
    BY DEF BeginInv, ManifestInv, PublishersInv, OnePublisherInv, PublishInv, SignedInv
  <2> QED
    BY <1>1, <2>1, <2>2, <2>3, <2>4, <2>5 DEF ReleaseInv, OwnersInv
<1> QED
  BY <1>1, <1>2, <1>3, <1>4, <1>5 DEF ReleaseInv, Next

\* Nobody owns anything at first.
LEMMA InitialRelease ==
    ASSUME Init
    PROVE  ReleaseInv
<1>1. \A c \in Commands : command[c].phase = "ready" /\ command[c].nth = 1
  BY DEF Init
<1>2. release[ReleaseManifest] = "absent"
  BY ManifestReleased DEF Init
<1>3. \A c \in Commands : release[ReleaseManifest] # c /\ ~Relied(c)
  BY <1>1, <1>2, EvidenceAssumption DEF Relied, UnderWay, Damages
<1> QED
  BY <1>1, <1>2, <1>3, InitialWriters
  DEF ReleaseInv, BeginInv, OwnersInv, NotRewrittenInv, OneOwnerInv, LeftInv, KeptInv,
      OwnInv, PublishersInv, OnePublisherInv, PublishInv, SignedInv, ManifestInv,
      WritingPhases

\* What is known of the owners is enough.
LEMMA OwnersRelease == ReleaseInv => ReleaseIsWhole
<1>1. SUFFICES ASSUME ReleaseInv, NEW c, c = release[ReleaseManifest], c # "absent"
               PROVE  /\ ~overlapped => \A f \in Signed : signed[f] = c
                      /\ raced = {} /\ c \notin forgotten =>
                            \A i \in Steps(c) :
                                \/ Nth(c, i) \in damaged
                                \/ Passes(Nth(c, i)) /\ files[Nth(c, i)][Environment] = c
  BY DEF ReleaseIsWhole, Steps, Nth
<1>2. c \in Commands
  BY <1>1, ManifestReleased DEF ReleaseInv, WriterInv, TypeInv, EvidenceTypeOK
<1>3. command[c].phase = "done" /\ command[c].mode.release
  BY <1>1, <1>2 DEF ReleaseInv, ManifestInv
<1>4. ~overlapped => \A f \in Signed : signed[f] = c
  BY <1>1 DEF ReleaseInv, PublishersInv, SignedInv
<1>5. ASSUME raced = {}, c \notin forgotten, NEW i \in Steps(c)
      PROVE  \/ Nth(c, i) \in damaged
             \/ Passes(Nth(c, i)) /\ files[Nth(c, i)][Environment] = c
  <2>1. Relied(c) /\ Kept(c, i) /\ Left(c, i)
    BY <1>1, <1>3, <1>5 DEF Relied, Kept, Left
  <2> QED
    BY <1>1, <1>2, <1>3, <1>5, <2>1 DEF ReleaseInv, OwnersInv, KeptInv, LeftInv, Own
<1> QED
  BY <1>4, <1>5

\* A release manifest signs the work of one command, unless two have written release
\* files at the same time, and the packages it was drawn from verify as that command's
\* until the evidence root is cleaned; for any number of commands, packages and
\* release files, whatever the programs have in common, and however the two
\* directories are cleaned.
THEOREM ReleasesAreWhole == Spec => []ReleaseIsWhole
<1>1. Init => ReleaseInv
  BY InitialRelease
<1>2. ReleaseInv /\ [Next]_evidenceVars => ReleaseInv'
  BY StepKeepsRelease
<1> QED
  BY <1>1, <1>2, OwnersRelease, PTL DEF Spec
=============================================================================

------------------------- MODULE MCEvidencePackage -------------------------
(* The two variants of one experiment and a package of another configuration, *)
(* the commands that write one alone or make a release of either experiment,  *)
(* and enough artifacts to have each kind once.                               *)
EXTENDS EvidencePackage, TLC

CONSTANTS off, on, other, c1, c2

MCPackages == {off, on, other}
MCCommands == {c1, c2}

MCModes ==
    {[program |-> <<off>>, release |-> FALSE],
     [program |-> <<off, on>>, release |-> TRUE],
     [program |-> <<other>>, release |-> TRUE]}

MCArtifacts ==
    <<"environment.json", "process.csv", "verification.json">>

MCReleaseFiles == <<"comparison.json", "README.md", "release-manifest.json">>

\* What becomes of a package that no command writes is of no interest.
OnlyWhatIsWritten ==
    \A p \in Packages :
        \/ \E c \in Commands : \E i \in DOMAIN command[c].mode.program :
                command[c].mode.program[i] = p
        \/ agree[p] /\ p \notin damaged

MCSymmetry == Permutations(MCCommands)
=============================================================================

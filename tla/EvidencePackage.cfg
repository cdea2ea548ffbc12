SPECIFICATION Spec
CONSTANTS
    off = off
    on = on
    other = other
    c1 = c1
    c2 = c2
    Packages <- MCPackages
    Commands <- MCCommands
    Modes <- MCModes
    Artifacts <- MCArtifacts
    ReleaseFiles <- MCReleaseFiles
    MaxDamages = 1
CONSTRAINT OnlyWhatIsWritten
SYMMETRY MCSymmetry
INVARIANT EvidenceTypeOK
INVARIANT VerifiedReproduces
INVARIANT ReleaseIsWhole
PROPERTY StoreImplemented

\* Openers of an old one-line header beside reconstruct, with failing
\* header writes and index opens: what the header file keeps.
CONSTANTS
    p1 = p1
    p2 = p2
    None = None
    Null = Null
    NoUid = NoUid
    Procs <- MCProcs
    Atoms <- MCAtoms
    NonAtoms <- MCNonAtoms
    Roots <- MCRoots
    FoundRoot = "user.fred"
    Name <- MCName
    Chars <- MCChars
    NSlots = 2
    Mult = 251
    Prime = 32771
    Width = 24
    IOFail = TRUE
    IndexFail = TRUE
    MaxOpen = 2
    MaxRecon = 1
    MaxTime = 2
SPECIFICATION Spec
SYMMETRY ProcSymmetry
INVARIANT TypeOK
INVARIANT FlagsKeepSlots
INVARIANT RepairedHeaderStays

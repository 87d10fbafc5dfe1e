\* A caller with its key, an import of two rows and a doctor, over four
\* identifiers; or the replay of up to three event files; or the plan of three work
\* units with any dependencies; or five identifiers over a clock of three milliseconds;
\* or a branch of up to three commits, and two pieces of evidence of its task; or the
\* changes of up to three files against five contracts and four ownership documents.
SPECIFICATION PartsSpec
CONSTANTS
    Caller = {alice}
    Legacy = {old1, old2}
    Importer = importer
    Doctor = {doctor}
    TaskId = {i1, i2, i3, i4}
    Nothing = Nothing
    IdemKey <- MCIdemKey
    TaskState <- MCTaskState
    None = None
    Inputs <- MCInputs
    PlanUnit = {u1, u2, u3}
    Times = 3
    Randoms = 2
    MaxIds = 5
    Content = {c1, c2}
    Claim = {"tests"}
    Level = "enforced"
    MaxCommits = 3
    MaxProof = 2
    Path <- MCPath
    FoldCase <- MCFoldCase
    Name <- MCName
    Metadata = {"task.yaml"}
    Governed = {"schemas/c"}
    Escaping = {"link"}
    Pattern = {"**", "src/**", "src/web/**", "schemas/**", "!src/**"}
    Matches <- MCMatches
    UnsafePatterns = {"!src/**"}
    Segments <- MCSegments
    Literals <- MCLiterals
    CodeOwner = {"core", "web"}
    Requests <- MCRequests
    s = s
    t = t
SYMMETRY Symmetry
VIEW View
CONSTRAINT Bounded
CHECK_DEADLOCK FALSE
INVARIANTS
    VisibleIsWhole
    OneTaskPerOrigin
    AnswersAgree
    ImportLeavesNoRow
    ReplaysExactlyOneLog
    ProjectsTheLog
    CyclesRefused
    LayersAreEarliest
    WorkFollowsDependencies
    IdsIncrease
    EvidenceBindsItsCode
    PassedIsTested
    ClosesSurviveCommit
    CleanIsWithinScope
PROPERTY ClosesOnStandingEvidence

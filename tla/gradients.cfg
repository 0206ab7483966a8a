\* Models of two to four nodes, with every policy, in one and in two phases.
SPECIFICATION Spec
CONSTANTS
    Jobs <- SmallJobs
    MaxForgets = 2
INVARIANTS
    GradientsAreRight
    ReadsAreKept
    AbortsOnlyMisfits
PROPERTY
    PlaysTheGame

\* Both schedulers on every small graph, asked for all of it or twice.
SPECIFICATION Spec
CONSTANTS
    Null = "null"
    NoNode = 0
    Jobs <- SmallJobs
INVARIANTS
    TypeOK
    CountsAreMissingInputs
    AbortIsJustified
PROPERTY
    SchedulesInOrder

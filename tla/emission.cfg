\* Every small graph, emitted as a main graph and as a body.
SPECIFICATION Spec
CONSTANTS
    Graphs <- SmallGraphs
INVARIANTS
    TypeOK
    SlotDiscipline
    LiveIsNeeded
    NothingLeaks
    CountsAreRemainingUses

\* Chains of sequence operators, If, fusion groups, Loop, and an If or a Loop
\* inside a Loop.
SPECIFICATION Spec
CONSTANTS
    Models <- OwnedModels
INVARIANTS
    TypeOK
    ResultsAreRight
    CallerKeepsInputs
    EverythingIsFreed
PROPERTIES
    RunsVerifiedCode
    NoSilentOverwrite
    RunsToTheEnd

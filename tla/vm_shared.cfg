\* Sequences that others hold are moved: the results differ from the graph's.
SPECIFICATION Spec
CONSTANTS
    Models <- SharedModels
INVARIANT
    ResultsAreRight
CHECK_DEADLOCK FALSE

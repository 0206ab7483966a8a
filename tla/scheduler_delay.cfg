\* Simple nodes are said to be delayed until they are needed.
SPECIFICATION Spec
CONSTANTS
    Null = "null"
    NoNode = 0
    Jobs <- SmallJobs
INVARIANT
    SimpleNodesWait

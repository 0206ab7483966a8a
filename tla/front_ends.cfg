\* Small methods, exported by both front ends and run.
SPECIFICATION Spec
CONSTANT
    Jobs <- MCJobs
INVARIANTS
    CanonicalMeansTheSame
    ElichikaMeansTheSame
    Ch2oMeansTheSame
    CompilerAccepts
CHECK_DEADLOCK FALSE

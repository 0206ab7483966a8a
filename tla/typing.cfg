\* Methods typed and then run, and equations between types in any order,
\* solved and refused.
SPECIFICATION TypingSpec
CONSTANTS
    Programs <- SmallPrograms
    Inputs <- SmallInputs
    Variables <- ThreeVars
    Equations <- SmallEquations
    Ground <- SmallGround
INVARIANTS
    TypesAreRight
    NoCycles
PROPERTY
    SolvesConstraints
CHECK_DEADLOCK FALSE

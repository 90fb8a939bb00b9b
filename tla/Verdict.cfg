SPECIFICATION Spec
INVARIANTS TypeOK LookalikeWarned BlockNeedsProof
PROPERTY Monotone
CHECK_DEADLOCK FALSE

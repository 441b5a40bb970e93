CONSTANT ArmHold = 2
SPECIFICATION Spec
INVARIANTS RcLossIsRaised

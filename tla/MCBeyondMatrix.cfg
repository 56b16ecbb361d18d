SPECIFICATION Spec
CONSTANT Inputs <- LowerRightCut
INVARIANT InsideMatrix
CHECK_DEADLOCK FALSE

SPECIFICATION Spec
CONSTANT Inputs <- UpperHalf
INVARIANT RowsKeptApart
CHECK_DEADLOCK FALSE

SPECIFICATION Spec
CONSTANT Inputs <- TilingInputs
INVARIANTS InsideMatrix RowsKeptApart WithinTile
CHECK_DEADLOCK FALSE

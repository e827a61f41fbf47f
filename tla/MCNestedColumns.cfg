SPECIFICATION Spec
CONSTANT Columns <- MCFixedGroups
INVARIANT NestedReadBack
CHECK_DEADLOCK FALSE

SPECIFICATION Spec
CONSTANT Grace <- MCGrace
INVARIANT SafeMeansPiGone
CHECK_DEADLOCK FALSE

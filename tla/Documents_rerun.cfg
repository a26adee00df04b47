SPECIFICATION Spec
INVARIANT FollowsStored
CHECK_DEADLOCK FALSE

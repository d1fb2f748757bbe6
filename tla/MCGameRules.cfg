\* Does the threaded game follow the rules of tic-tac-toe?
SPECIFICATION Spec
PROPERTY FollowsRules
CHECK_DEADLOCK FALSE

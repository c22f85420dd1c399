\* What POST may answer, against what its route declares.
SPECIFICATION RouteSpec
CONSTANTS
    Controllers <- Applications
INVARIANTS EveryAnswerDeclared
CHECK_DEADLOCK FALSE

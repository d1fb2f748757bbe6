\* One game played out to the end by both players' threads, with every
\* resignation and every interleaving of their steps.
SPECIFICATION Spec
INVARIANT TypeOK
INVARIANT VerifyBoardCorrect
INVARIANT MarksAlternate
INVARIANT WinnerEarned
INVARIANT DrawOnlyWhenNoLine
CHECK_DEADLOCK FALSE

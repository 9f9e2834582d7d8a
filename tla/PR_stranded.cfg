SPECIFICATION FairSpec
CONSTANTS
    Node <- MCNode
    Graphs <- MCGraphs
INVARIANTS
    NoStrandedMerge

SPECIFICATION FairSpec
CONSTANTS
    Node <- MCNode
    Graphs <- MCGraphs
INVARIANTS
    TypeOK
    
    NothingElseSkipped
    AbortIsFinal
PROPERTIES
    AllMergeWaits
    EveryRunEnds

SPECIFICATION FairSpec
INVARIANTS LocalEndIsClean
PROPERTIES KeepsContract StreamEnds MessagesTaken

SPECIFICATION FairSpec
CONSTANTS
    Nodes <- Tree
    Root = 0
    ParentOf <- ParentOfNode
    Kind <- KindOfNode
    Size <- SizeOfNode
    Extension <- ExtensionOfNode
    Other = 9
    MaxInt64 = 8
    MaxEntries = 8
    MaxDirectories = 1
    MaxExtensions = 2
    MaxGroups = 2
    MaxChildren = 2
    MaxLargest = 2
    Workers = {1, 2}
    NoDir = NoDir
INVARIANTS
    ReportAddsUp
    LargestFirst
PROPERTIES
    Terminates
CHECK_DEADLOCK FALSE

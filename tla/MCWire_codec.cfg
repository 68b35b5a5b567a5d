SPECIFICATION Spec
CONSTANTS
    U64 = 16
    U32 = 8
    kMinChunkBytes = 2
    kMaxChunkBytes = 4
    kMaxObjectBytes = 9
    kMaxChunksPerObject = 4
    Over = 10
    kMaxWireChunkBytes = 3
    kMaxEntries = 2
    kMaxResumeJournalChunks = 2
    Structs <- AllStructs
    Base <- MCBase
    Variants <- MCVariants
    MaxChanges <- MCMaxChanges
INVARIANTS
    RoundTrip
    OnlyWholeOwnMessages
    SealCoversEveryField
    DescriptorsTile
    ResumedPrefixFits
CHECK_DEADLOCK FALSE

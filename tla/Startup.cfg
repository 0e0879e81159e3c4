CONSTANTS
    Mappings <- MCMappings
    Fixed <- MCFixed
    AddressSpace = 16
    Pointers <- MCPointers
    NoMapping = NoMapping
    NoWalk = NoWalk
    Methods = {0, 1}
    ArrayAt = 40
    Ptr = 8
    Sizes = {32, 40}
    MaxApart = 4
    DecoySets <- MCDecoySets
    Null = Null
    NoOffset = NoOffset
    ResolutionStub <- MCResolutionStub
    ProbeEntries <- MCProbeEntries
    NanoTimeEntries <- MCNanoTimeEntries
    TargetEntries <- MCTargetEntries
    Runtimes <- MCRuntimes
    RuntimeScanBytes = 2
SPECIFICATION FairSpec
INVARIANTS StartupTypeOK StableMappingIsFound AotCodeIsToldApart FlagsOffsetIsAccessFlags
    StoresHitTheirFields MeasuredStubIsTheStub
    OnlyRequiredPartsCostTheLibrary RuntimeScanStaysMapped
PROPERTIES StartupAnswers

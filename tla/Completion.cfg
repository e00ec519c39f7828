CONSTANTS
    Slots = 5
    Modulus = 8
SPECIFICATION FairSpec
INVARIANTS
    DrainsOnlyWhatIsPending
    RdCondBounded
    IInv
PROPERTIES
    ReplyArrives
    DescriptorsComeBack

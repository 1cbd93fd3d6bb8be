CONSTANTS
    s1 = s1
    s2 = s2
    main = main
    NULL = NULL
    Stacks <- MCStacks
    Main <- main
    Top <- MCTop
    Platforms <- MCPlatforms
    StackSize = 2048
    MainSp = 3840
    Vps <- MCVps
SPECIFICATION Spec
INVARIANTS
    TypeOK
    EntryContract
    IntRegsRestored
    FramesInsideStacks
    InUseHasContext

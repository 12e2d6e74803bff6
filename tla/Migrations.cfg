SPECIFICATION FairSpec
CONSTANTS
    Processes = {p1, p2}
    MaxVersion = 2
    Templates = 1
    Commands <- MostCommands
    None = None
INVARIANTS
    TypeOK
    OnlyHolderMigrates
    
PROPERTIES
    
    DirtyIsLeftAlone
    

SPECIFICATION MCSpec
CONSTANTS
    Mountpoints = {"/a", "/b"}
    Vars = {x, y}
    Propagators = {p, q}
    Readonly = {"/b"}
    Images = {"image"}
    Locals = {"local"}
    Keys = {"one", "two"}
    Pulled <- MCPulled
    Kinds = {"ENV", "EXPOSE", "WORKDIR"}
    Sizes <- SmallPrograms
SYMMETRY Symmetry
INVARIANTS
    TypeOK
    LayersMatch
    HistoryTellsConfig
    BaseKept
    NoLostWrite
    SeesWrites
    Isolated
    AliasesResolve
    DocumentMatches
CHECK_DEADLOCK FALSE

SPECIFICATION Spec
SYMMETRY Symmetry
CONSTANTS
    PageSize = 2
    PagesPerHp = 2
    HugePages = {1, 2}
    Iovas = {i1, i2, i3, i4}
    NoIova = NoIova
    MaxMapping = 4
    NoMem = NoMem
    Prps = {c1}
    PrpsPerPage = 2
    NoPrp = NoPrp
    AreaSizes = {1, 4}
    AreaDirs = {"to host", "both"}
    DataSizes = {4, 6, 7}
    DataDirs = {"to host"}
    MaxLent = 1
INVARIANTS TypeOK AreasAreApart IovasAreOwn HeldCanBeFreed ControllerReachesData ListLeadsToData

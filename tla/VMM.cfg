SPECIFICATION Spec
CONSTANTS
    Index = {0, 1}
    Frames = {f1, f2, f3, f4, f5}
    BootPml4 = 1
    BootPdpt = 2
    BootPd = 3
    Boot = 0
    Phys <- MCPhys
    Physical = {11, 12}
    Virtual <- MCVirtual
    NULL = NULL
INVARIANTS TypeOK TablesTree
PROPERTY ImplementsAddressSpace
SYMMETRY Symmetry

CONSTANTS
    xsize = 3
    ysize = 2
    MAX_SHEETS = 3
    BoxOf <- BoxOfEach
    HolesOf <- HolesOfEach
    Colours = {7, 8}
    col_inv = 99
    Places <- MCPlaces
SPECIFICATION Spec
INVARIANTS
    TypeOK
    StackExact
    MapNamesTopmost
PROPERTIES
    Implements

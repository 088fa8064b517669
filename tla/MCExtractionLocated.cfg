SPECIFICATION FairSpec
CONSTANTS
    Nothing = Nothing
    img = img
    box = box
    crate = crate
    x = x
    y = y
    Blobs = {img, box, crate, x, y}
    Images = {img}
    Container = {img, box, crate}
    Opaque = {y}
    MaxDepth = 2
    MaxFiles = 3
    MaxAnalyses = 2
    Layouts <- MCLayouts
    Escaping <- MCEscaping
    Handled <- MCHandled
INVARIANTS
    LocatedWhereFound
CHECK_DEADLOCK FALSE

SPECIFICATION FairSpec
CONSTANTS
    root = root
    canvas = canvas
    text = text
    None = None
    Objects = {root, canvas, text}
    Root = root
    Local = {canvas, text}
    Through = {canvas}
    Labels = {text}
    Buttons = {canvas}
    Focusable = {canvas}
    Notifiers = {text}
    Blinking = {text}
    Places <- MCPlaces
    MaxQueue = 2
CHECK_DEADLOCK FALSE
INVARIANTS
    TypeOK
    NoChangeForgotten
    UsedIsLive
    TreeIsFreed
PROPERTIES
    ChangesAppear
    TeardownEnds

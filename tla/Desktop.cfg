\* Two instances of a program with hot keys, two windows, two presses and one
\* thing else; two drives that change twice, and one click; a keydump and two
\* keytoputtys whose devices keep two strokes, of three; three changes of the
\* controller; two circles of two turns and a quarter; four debug events of
\* foobar2000's own or waits for one that fail.
CONSTANTS
    Instance = {"a", "b"}
    Window = {"w1", "w2"}
    NoWindow = "none"
    Nobody = "Nobody"
    Other = "Other"
    MaxPresses = 2
    MaxClicks = 1
    Together <- MCTogether
    HotKeysOf <- MCHotKeysOf
    Taken <- MCTaken
    Beyond <- MCBeyond
    Texts <- MCTexts
    Directories <- MCDirectories
    MAX_PATH = 4
    Drives = 2
    MaxDriveChanges = 2
    MaxTrayClicks = 1
    Dumper = {"keydump", "keytoputty1", "keytoputty2"}
    Puttys = {"keytoputty1", "keytoputty2"}
    Stroke <- MCStroke
    Mapped = {"A", "B"}
    buffer_size = 2
    MaxStrokes = 3
    MaxPadChanges = 3
    Gesture = {"c1", "c2"}
    MaxProgress = 9
    MaxDebugEvents = 4
SPECIFICATION MCSpec
INVARIANTS
    OneInstance
    LoserHoldsNothing
    TerminalOpensInDirectory
    KeysInOrder
    TurnsAreTold
    NameOutlivesThread
PROPERTIES
    ComesBack
    PressesAreAnswered
    NewsIsTrue
    SettledIsKnown
    KeysArrive
    ButtonsFollow
    EventsAreContinued
CHECK_DEADLOCK FALSE

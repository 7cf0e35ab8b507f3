\* Two keyboards of three reports and keys, two parts, two keys at a time;
\* report maps of three fields; the three built-in keyboards, each
\* with an event lost; three USB keyboards in two slots; a panel of two rows, a
\* touch panel of six by four
SPECIFICATION AllSpec
CONSTANTS
    letter = letter
    cursor = cursor
    lock = lock
    boot = boot
    bitmap = bitmap
    usb = usb
    Keys = {letter, cursor, lock}
    Bytes <- MCBytes
    Ids = {boot, bitmap, usb}
    KeysIn <- MCKeysIn
    Boards <- MCBoards
    Wireless <- MCBle
    MaxParts = 2
    MaxHeld = 2
    None = None
    MaxReports = 2
    MaxFields = 2
    MaxKeys = 16
    StackDepth = 4
    MaxDescr = 3
    MaxEvents = 1
    MaxLost = 1
    MaxFingers = 2
    UsbKbds = {u1, u2, u3}
    UsbSlots = {1, 2}
    MaxFound = 2
    NRows = 2
    Width = 6
    Height = 4
    Fonts <- TwoFonts
INVARIANTS
    KnowsKeys
    NothingSticks
    ReportsAreRead
    ShowsTheTerminal
    TouchIsWhereItIsDrawn
    PressIsReleased
PROPERTIES
    OneStray
    HeldKeyRepeats
    RestsAndReturns
CHECK_DEADLOCK FALSE

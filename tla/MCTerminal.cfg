SPECIFICATION TerminalSpec
CONSTANTS
    w1 = w1
    w2 = w2
    w3 = w3
    nobody = nobody
    Writer <- Writers
    Text <- Texts
    Manner <- Manners
    Colour <- Colours
    default = "grey"
    WIDTH = 4
    HEIGHT = 2
    TAB = 2
    PROMPT = 6
    ARGS = 3
    Key <- Keys
    special = "8"
    promptColour = "white"
    MaxKeys = 5
INVARIANTS
    StringsAreWhole
    PromptIsOnScreen
    NoKeyTwice
    ArgsAreTheWords
CHECK_DEADLOCK FALSE

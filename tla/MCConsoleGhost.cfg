SPECIFICATION Spec
CONSTANTS
    red = red
    black = black
    a = a
    space = space
    Screens <- FullScreens
    FontW = 4
    FontH = 4
    WinPad = 1
    Chars = {a, space}
    Blank = space
    Black = black
    Colors = {black, red}
INVARIANT
    ScreenShowsCells
CHECK_DEADLOCK FALSE

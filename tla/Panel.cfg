SPECIFICATION PanelFairSpec
CONSTANTS
    Browsers = {b1, b2}
    Texts <- MCTexts
    CardPasswords <- MCCardPasswords
    Buttons = {k1, k2}
    Speeds <- MCSpeeds
INVARIANTS
    CommandsFromOwner
    GreetedIsLet
PROPERTY PressEnds

SPECIFICATION PanelSpec
CONSTANTS
    Browsers = {b1}
    Texts <- MCTexts
    CardPasswords <- MCCardPasswords
    Buttons = {k1}
    Speeds <- MCSpeeds
INVARIANT PasswordSet

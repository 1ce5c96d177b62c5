CONSTANTS
    Width = 3
    Height = 5
    KernelCell = 21
    Size = 4
    ArgSize = 2
    Echo <- EchoLetter
    Banner <- BannerText
    Char = {"e", " ", "tab"}
    MaxLines = 3
    MaxRow = 8
SPECIFICATION Spec
INVARIANTS TypeOK LineIsTyped ScreenShowsText
PROPERTY ArgsAreWords

SPECIFICATION ShellSpec
CONSTANTS
    Width = 4
    Height = 3
    ShownRows = 2
    Chars = {">", "-", "#", " "}
    Archives <- MCArchives
    Names <- MCNames
    LsLimit = 1
    Typed = {"#", " ", "del"}
    MaxLine = 2
    Texts <- MCTexts
    Contents <- MCContents
INVARIANTS
    ShellTypeOK
    LineOnScreen
    TextIsDrawn
    LsListsFiles
    CatReadsFirst
PROPERTIES
    CommandReturns

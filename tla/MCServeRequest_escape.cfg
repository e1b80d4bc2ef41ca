\* Requests while links, one out of the root among them, come and go: where the
\* file that is served comes from.
SPECIFICATION Spec
CONSTANTS
    Base = 6
    MaxPathLen = 5
    MaxHeaders = 5
    MaxCustomNameLen = 3
    MaxMessage = 21
    Table <- MCTable
    NameCells = {2, 3, 4}
    TextCells = {1, 2, 3, 4, 5}
    Statuses = {10, 11, 12, 13, 14, 15, 16, 17, 18, 19, 20, 21, 22, 23, 24, 25, 26, 27, 28, 29}
    Digits <- MCDigits
    MaxDigits = 3
    MaxInt = 5
    Slash = 1
    Dot = 4
    Trimmed = {4}
    Forbidden = {0, 5}
    Devices <- MCDevices
    Index <- i
    Up <- MCUp
    MaxLinks = 3
    Asked <- MCAsked
    Bare <- MCBare
    Messages = {}
    Payloads = {}
    Trees <- Sound
    Replacements <- MCReplacements
    Sizes <- MCSizes
    MaxChanges = 1
    Scaled <- MCScaled
INVARIANT ServedFromRoot

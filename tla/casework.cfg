SPECIFICATION Spec
CONSTANTS
    k1 = k1
    d1 = d1
    Checks = {k1}
    Docs = {d1}
    Words <- AllWords
    Cases <- BothCases
    Titles <- AnyTitles
    Edited = {"fz-ord-art8", "upk"}
    Contents <- ByHand
    Marked <- Markup
    MaxMoments = 4
    MaxFiles = 1
    None = None
INVARIANTS CaseworkInv SeededChecksResolve FilesArgueTheCheck FilesHideNothing
CHECK_DEADLOCK FALSE

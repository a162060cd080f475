CONSTANTS
    MaxLength = 4
    Starts <- FilesToParse
SPECIFICATION MCSpec
INVARIANTS TokensAreTheText BuildsTheTree RejectsNoSentence
PROPERTY EveryParseEnds

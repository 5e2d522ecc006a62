CONSTANTS
    Chars <- MCChars
    MaxTypeLen <- MCMaxTypeLen
SPECIFICATION Spec
INVARIANT FilterExactIffPlain

CONSTANTS
    LocationIds <- MCLocationIds
    Names <- MCNames
    StatusCodes <- MCStatusCodes
    NullBodyPossible = TRUE
SPECIFICATION Spec
INVARIANT GetObjectReturnsLocation

CONSTANTS
    StatusCodes <- MCStatusCodes
SPECIFICATION Spec
INVARIANT NoPartialResultOnError

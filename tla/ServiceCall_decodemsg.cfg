CONSTANTS
    StatusCodes <- MCStatusCodes
SPECIFICATION Spec
INVARIANT DecodeErrorNamesOperation

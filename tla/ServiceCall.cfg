CONSTANTS
    StatusCodes <- MCStatusCodes
SPECIFICATION Spec
INVARIANT ContractOutcome
INVARIANT HttpErrorNamesRequest

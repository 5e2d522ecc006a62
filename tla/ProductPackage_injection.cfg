CONSTANTS
    PackageIds <- MCPackageIds
    Types <- MCInjectionTypes
    QueryTypes <- MCInjectionQueryTypes
    Texts <- MCTexts
    OutletTexts <- MCOutletTexts
    Items <- MCItems
    StatusCodes <- MCStatusCodes
    NullElementsPossible = FALSE
    NullBodyPossible = FALSE
SPECIFICATION Spec
INVARIANT ReturnedPackagesOfType

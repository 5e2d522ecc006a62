CONSTANTS
    PackageIds <- MCPackageIds
    Types <- MCTypes
    QueryTypes <- MCTypes
    Texts <- MCTexts
    OutletTexts <- MCOutletTexts
    Items <- MCItems
    StatusCodes <- MCStatusCodes
    NullElementsPossible = FALSE
    NullBodyPossible = FALSE
SPECIFICATION Spec
INVARIANT TypeOK
PROPERTY ImplementsPackageLookup

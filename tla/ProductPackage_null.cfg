CONSTANTS
    PackageIds <- MCPackageIds
    Types <- MCTypes
    QueryTypes <- MCTypes
    Texts <- MCTexts
    OutletTexts <- MCOutletTexts
    Items <- MCItems
    StatusCodes <- MCStatusCodes
    NullElementsPossible = TRUE
    NullBodyPossible = FALSE
SPECIFICATION Spec
INVARIANT NoPanic

\* Catalogues of up to three of ten perfumes, candidate pools of three, pages of two.
SPECIFICATION Spec
CONSTANTS
    CatalogueSize = 3
    Row = {1, 2, 3, 4, 5, 6, 7, 8, 9, 10}
    PoolSize = 3
    FetchLimit = 2
    Term <- MCTerm
    ScenarioAccords <- MCScenarioAccords
    ScenarioNotes <- MCScenarioNotes
    FamilyTerms <- MCFamilyTerms
    AgeAccords <- MCAgeAccords
    FreshScenarios = {"gym", "summer"}
    FreshFamilies = {"citrus"}
    TopNotes = {"lemon"}
    TopAccords = {"lemon"}
    BaseNotes = {"oud"}
    BaseAccords = {"oud"}
    Details <- MCDetails
    BrandLen <- MCBrandLen
    Inside <- MCInside
    Queries <- MCQueries
    Requests <- MCRequests
    Catalogues <- MCCatalogues
    Defaults <- MCDefaults
INVARIANTS
    TypeOK
    LookupIsRight
    CeilingKept
    PageInOrder
    NegatedSinks
    HonestCard
CHECK_DEADLOCK FALSE

SPECIFICATION Spec
CONSTANTS
    Pool = 4
    Target = 20
    PageSize = 3
INVARIANTS
    TypeOK
    BudgetInv
    BudgetBound

SPECIFICATION ShopSpec
CONSTANTS
  Slots = {s1, s2}
  Users = {root, alice}
  Root = root
  Roles = {"admin", "customer"}
  Grants <- MCGrants
  Menus <- MCMenus
  Inputs <- MCInputs
  PageLimit = 4
  MaxInt = 7
  MaxQuantity = 3
SYMMETRY Symmetry
INVARIANTS
  ShopTypeOK
  AnswersAreTrue
  ActedWithPermission
  OffersOnly
  TotalsExact
  CatalogWhole
PROPERTIES
  RolesAsRequested
  ReadOnce

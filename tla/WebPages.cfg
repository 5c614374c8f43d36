SPECIFICATION Spec
CHECK_DEADLOCK FALSE
CONSTANTS
  None = None
  Names = {user, other}
  PrefersDark = TRUE
  Labels = {platinum, reserve}
  InflowCategories = {salary, gift}
  OutflowCategories = {food, home}
  Salary = salary
  Food = food
  Types = {stock}
  MaxItems = 2
  LatestMonth = 11
  MaxActs = 7
INVARIANTS
  TypeOK
  CategoryFitsType
  ThemeShown
  DraftIsSaved

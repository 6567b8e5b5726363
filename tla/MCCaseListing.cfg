\* Up to three pages of two rows, and every kind of row among them.
CONSTANTS
  Ids = {1, 2, 3, 4, 5, 6}
  PageSize = 2
SPECIFICATION Spec
INVARIANTS TypeOK Ascending Complete

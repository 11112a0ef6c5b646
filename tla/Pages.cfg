\* A stream of two bindings, over two nodes with a shared key or one with a
\* random key, pages of two rows cut from batches of three; a listing of four rows, pages of two, one
\* row without a uri.
SPECIFICATION PagesSpec
CONSTANTS
  Node = {n1, n2}
  Binding = {b1, b2}
  Malformed = Malformed
  ColumnLists <- KeyColumns
  Selected <- SelectList
  PageRows = 2
  QueryLimit = 3
  MaxRow = 3
  MaxWrites = 1
  MaxRegs = 1
  MaxRestarts = 1
  MaxMistakes = 1
  PageSize = 2
  ListRows = 4
  ListWrites = 2
  MaxLacking = 1
INVARIANTS
  NoRowTwice
  NoRowSkipped
  ListedExactly
PROPERTIES
  StreamEnds
CHECK_DEADLOCK FALSE

SPECIFICATION Spec
CONSTANTS
  Order <- MCOrder
  Kinds = {"owned", "borrowed"}
  Formats = {"ndjson", "framed"}
  Batch = 2
  Capacity = 4
  MaxEmits <- MCMaxEmits
INVARIANTS
  ImportedInOrder
  DropsFlush
PROPERTIES
  ComesDown
CHECK_DEADLOCK FALSE

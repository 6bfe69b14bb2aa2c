SPECIFICATION Spec
CONSTANTS
  Forms <- MCForms
  First <- MCFirst
  None = None
  Flows = {k1, k2}
  MaxEntries = 1
  MaxQuotes = 2
  MaxSends = 1
  MaxEdits = 1
  MaxReloads = 1
PROPERTIES
  Unlocked
CHECK_DEADLOCK FALSE

SPECIFICATION Spec
CONSTANTS
  Forms <- MCForms
  First <- MCFirst
  None = None
  Flows = {k1, k2}
  MaxEntries = 1
  MaxQuotes = 2
  MaxSends = 2
  MaxEdits = 1
  MaxReloads = 0
INVARIANT SentOnce
CHECK_DEADLOCK FALSE

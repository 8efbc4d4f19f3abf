SPECIFICATION Spec
CONSTANTS
  n1 = n1  n2 = n2  b1 = b1  b2 = b2  t1 = t1  t2 = t2
  old = old  new = new
  None = None
  Notes <- MCNotes
  Notebooks <- MCNotebooks
  Tags <- MCTags
  Values <- MCValues
  Initial = old
  Shelf <- MCShelf
  Existing <- MCExisting
  Offered <- MCOffered
  Reattach = FALSE
  JournalFails = FALSE
  JournalMax = 1
  CallBound = 2
INVARIANT RolledBackOrRecorded
SYMMETRY MCSymmetry
CHECK_DEADLOCK FALSE

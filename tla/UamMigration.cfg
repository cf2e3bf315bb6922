SPECIFICATION Spec
CONSTANTS
  t1 = t1
  t2 = t2
  a = a
  b = b
  c = c
  None = None
  Slots <- TwoSlots
  Emails <- ThreeEmails
  MaxAccounts = 4
  MaxFaults = 1
  MaxOps = 2
SYMMETRY Symmetric
INVARIANTS TypeOK  BioIsOwn  FinalisedIsComplete
PROPERTY AddressesProven
CHECK_DEADLOCK FALSE

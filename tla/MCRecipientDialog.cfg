CONSTANTS
  alice = alice  bob = bob
  p1 = p1  p2 = p2  p3 = p3  x1 = x1  x2 = x2
  Mailboxes = {alice, bob}
  Certs = {p1, p2, p3, x1, x2}
  Unusable = {p3}
  Smime = {x1, x2}
SPECIFICATION DialogSpec
INVARIANTS AutoSelectionServesEveryone KeysAreUnambiguous
CHECK_DEADLOCK FALSE

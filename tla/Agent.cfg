SPECIFICATION Spec
CONSTANTS
  Client = {c1, c2}
  Server = {s1}
  Greeting = Greeting
  None = None
  KeyKnown = {TRUE, FALSE}
  server_timeout = 1
  sum_nconn = 6
  max_msg = 3
SYMMETRY Symmetry
INVARIANTS TypeOK MessageInPlace OwnAnswer OutputHasTrigger

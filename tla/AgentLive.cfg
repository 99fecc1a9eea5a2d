SPECIFICATION Spec
CONSTANTS
  Client = {c1}
  Server = {s1}
  Greeting = Greeting
  None = None
  KeyKnown = {TRUE, FALSE}
  server_timeout = 1
  sum_nconn = 6
  max_msg = 3
PROPERTY EveryMessageEnds

SPECIFICATION Spec
CONSTANTS
  Requests = {r1, r2}
  Connections = {c1, c2}
  Records = 2
  MaxCopies = 2
PROPERTIES BehindNeedsARace CopyNeedsARace

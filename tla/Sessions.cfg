SPECIFICATION Spec
CONSTANTS
  None = None
  Handlers = {h1, h2}
  Tokens = {t1, t2, t3}
  Hashes = {p1, p2, p3}
  Resets = {k1}
SYMMETRY Symmetry
INVARIANTS
  OneLiveToken
PROPERTIES
  DeadStaysDead
  ImplementsRelay
  ReplacedStaysReplaced

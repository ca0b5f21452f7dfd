\* Two servers over two definitions that share a name, the reconciliation of the start,
\* two requests, a probe, a failing store and the shutdown, in every order.
SPECIFICATION Spec
CONSTANTS
  d1 = d1
  d2 = d2
  x = x
  y = y
  Id = {1, 2}
  Def = {d1, d2}
  Tool = {x, y}
  Offers <- MCOffers
  Builtin = {y}
  Editor = {e0, e1, e2}
  Starter = e0
  Prober = {3}
  None = None
  MaxFaults = 1
INVARIANTS
  TypeOK
  OfferedIsHeld
  EditsTakeEffect
CHECK_DEADLOCK FALSE

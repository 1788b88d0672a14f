CONSTANTS
  owner = owner
  h = h
  x1 = x1
  main = main
  encoder = encoder
  p = p
  q = q
  p1 = p1
  e = e
  Owner = owner
  Helpers = {h}
  Outsiders = {x1}
  Task = {p, q, p1, e}
  Root <- MCRoot
  Children <- MCChildren
SPECIFICATION FairSpec
INVARIANTS RunExactlyOnce NoLostWakeUp ShutdownDrains
PROPERTIES CallsReturn

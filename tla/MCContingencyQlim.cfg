CONSTANTS
  l12 = l12
  l13 = l13
  l23 = l23
  l34 = l34
  l45a = l45a
  l45b = l45b
  l56 = l56
  g1 = g1
  g2 = g2
  g2b = g2b
  g4 = g4
  g5 = g5
  NBus = 6
  Line = {l12, l13, l23, l34, l45a, l45b, l56}
  Gen = {g1, g2, g2b, g4, g5}
  Ends <- MCEnds
  GenBus <- MCGenBus
  Cap <- MCCap
  Slack = 1
  InitPV = {2, 4, 5}
  InitIsolated = {6}
  InitLineOn = {l12, l13, l23, l34, l45a, l45b, l56}
  InitGenOn = {g1, g2, g4, g5}
  Events <- MCEvents
  QlimSettings <- MCQlimUneven
  Controllers = {}

SPECIFICATION Spec

INVARIANT
  ReturnsToBase

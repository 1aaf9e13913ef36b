SPECIFICATION FairSpec
CONSTANTS
  v1 = v1  v2 = v2  c1 = c1  c2 = c2  r1 = r1  h1 = h1  h2 = h2  hBad = hBad
  n1 = n1  n2 = n2  img = img  chartA = chartA  chartB = chartB
  bundle = bundle  own = own
  d1 = d1  d2 = d2  garbage = garbage
  None = None
  Versions = {v1}
  Charts = {c1, c2, r1}
  Hosts = {}
  BadHosts = {}
  Namespaces = {n1, n2}
  Names = {}
  Contents = {d1}
  BadCerts = {}
  NoCerts = {}
  Specs <- MovedSpecs
  Configs <- SimpleConfigs
  Sources <- AllHeld
  HandMade = {}
  MaxEdits = 2
  MaxFaults = 0
PROPERTIES
  EventuallyGone
CHECK_DEADLOCK FALSE

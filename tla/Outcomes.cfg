SPECIFICATION WatchSpec
CONSTANTS
  v1 = v1  v2 = v2  c1 = c1  c2 = c2  r1 = r1  h1 = h1  h2 = h2  hBad = hBad
  n1 = n1  n2 = n2  img = img  chartA = chartA  chartB = chartB
  bundle = bundle  own = own
  d1 = d1  d2 = d2  garbage = garbage
  None = None
  Versions = {v1}
  Charts = {c1, c2, r1}
  Hosts = {h1, hBad}
  BadHosts = {hBad}
  Namespaces = {n1}
  Names = {chartA, bundle}
  Contents = {d1, garbage}
  BadCerts = {garbage}
  NoCerts = {}
  Specs <- OutcomeSpecs
  Configs <- OutcomeConfigs
  Sources <- OutcomeSources
  HandMade = {}
  MaxEdits = 1
  MaxFaults = 1
INVARIANTS
  QuietIsAnswered
PROPERTIES
  EventuallyReady AddonFollowsPolls RejectedEventually RejectedByPolls
CHECK_DEADLOCK FALSE

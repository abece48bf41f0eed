\* One stage at a time, three attempts of it (the default), two cancellations per attempt.
SPECIFICATION FairSpec
CONSTANTS
  certspotter = certspotter  crtname = crtname  crtsh = crtsh  n1 = n1  n2 = n2
  MaxCuts = 2
  MaxAttempts = 3
  DNS = "dns"
  Extraction = "javascript-extraction"
  Tools = {"subfinder", "httpx-fingerprint"}
  Probing = {"subfinder"}
  CT = "ct"
  Connectors <- MCConnectors
  Paged = {certspotter}
  MaxPages = 2
  CTNames = {n1, n2}
  DiscoveredDNS = "discovered-dns"
  DiscoveredHTTP = "discovered-http"
  Offers <- MCOffers
  Refused = {1}
  MaxNames = 3
  Slots = 2
  Directory = "directory-discovery"
  Vhost = "vhost-discovery"
  Bundles = "javascript-bundles"
  Lines <- MCLines
  OutOfScope = {"b"}
  MaxCandidates = 3
  RequestBudgets = {1, 3, 9}
  MaxLength = 5
  MaxLimit = 4
  OnCancel <- MCOnCancel
INVARIANTS
  ToolStopped AnswersCarried SweepsAccounted ConsumersAfterProducers ScanDeclared
  BoundsKept
PROPERTIES
  AttemptAsScheduled
CHECK_DEADLOCK FALSE

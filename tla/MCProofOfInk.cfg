SPECIFICATION Spec
CONSTANTS
  Accounts = {a, b}
  Inviters = {i}
  Tickets = {t1, t2}
  InviteTickets = {u}
  ElectiveDesigns = {"d"}
  MaxActiveReferrals = 2
  MaxRetryAttempts = 1
  Configs <- MCConfigs
  Offers = {{"d"}}
  ReimbursementLists <- MCLists
  InviteCounts = {1}
  PotFunds = 1
  MaxAge = 1
  MaxEntropyAge = 0
  MaxIds = 2
  MaxInvites = 1
  MaxTickets = 2
SYMMETRY MCSymmetry
INVARIANTS BooksExact IdsAndDesignsExact TicketsHonoured
PROPERTIES ProvenByOwnEvidence

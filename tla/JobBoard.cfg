SPECIFICATION FairSpec
CONSTANTS
  alice = alice
  bob = bob
  carol = carol
  eth = eth
  usdc = usdc
  Account = {alice, bob, carol}
  Contract = Contract
  Token = {eth, usdc}
  Refused <- BobTakesNoCoin
  NoAccount = NoAccount
  Hash = {h1, h2}
  NoHash = NoHash
  Wealth = 2
  MaxReward = 2
  MaxJobs = 2
  MaxTime = 2
INVARIANTS TypeOK Solvent RecordsAgree
PROPERTIES BooksBalance CompletedIsPaid
CHECK_DEADLOCK FALSE

SPECIFICATION FairSpec
CONSTANTS
  alice = alice
  bob = bob
  eth = eth
  usdc = usdc
  Account = {alice, bob}
  Contract = Contract
  Token = {eth, usdc}
  Refused <- BobTakesNoCoin
  SessionId = {s1, s2}
  NoChannel = NoChannel
  Wealth = 2
  MaxAmount = 2
  MaxReceipts = 2
  MaxBatch = 2
  MaxTime = 2
INVARIANTS TypeOK Solvent PaidIsSigned
PROPERTIES ClaimsPayGrowth ReceiptsStand DepositsReturn
CHECK_DEADLOCK FALSE

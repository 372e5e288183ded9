\* The merchant's profile is edited between two deliveries.
SPECIFICATION PipelineSpec
CONSTANTS
  payer = payer
  payee = payee
  temp = temp
  charge = charge
  commission = commission
  t1 = t1
  r1 = r1
  w1 = w1
  w2 = w2
  c1 = c1
  c2 = c2
  Wallet <- MCWallet
  TempWallet = temp
  ChargeWallet = charge
  CommissionWallet = commission
  Tx = {t1}
  MCTx = {t1}
  Purse = 8
  t2 = t2
  RefundTx = {}
  Payload <- MCPayload
  Request <- MCRequest
  InitialAmount <- MCInitialAmount
  Restrictable = {}
  Message <- MCMessage
  Worker = {w1}
  Caller = {c1}
  Channel = {"API", "KAFKA"}
  FickleMerchant = FALSE
  LostReply = FALSE
  MaxCrash = 1
  MaxFlip = 1
  MaxDispute = 0
INVARIANTS
  OneMode
CHECK_DEADLOCK FALSE

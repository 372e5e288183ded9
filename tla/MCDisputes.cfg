\* A dispute of a payment to a merchant that contradicts itself and whose profile is edited,
\* with a lost reply and a handler that dies.
SPECIFICATION PipelineSpec
CONSTANTS
  payer = payer
  payee = payee
  temp = temp
  charge = charge
  commission = commission
  t1 = t1
  r1 = r1
  w1 = w1
  w2 = w2
  c1 = c1
  c2 = c2
  Wallet <- MCWallet
  TempWallet = temp
  ChargeWallet = charge
  CommissionWallet = commission
  Tx = {t1}
  MCTx = {t1}
  Purse = 8
  t2 = t2
  RefundTx = {}
  Payload <- MCPayload
  Request <- MCRequest
  InitialAmount <- MCInitialAmount
  Restrictable = {}
  Message <- MCMessage
  Worker = {w1}
  Caller = {c1}
  Channel = {"KAFKA"}
  FickleMerchant = TRUE
  LostReply = TRUE
  MaxCrash = 1
  MaxFlip = 1
  MaxDispute = 1
INVARIANTS
  PipelineTypeOK
  AmlBehindLedger
  MoneyFollowsDecision
  RecordsTruthful
CHECK_DEADLOCK FALSE

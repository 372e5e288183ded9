\* Two consumers of one message, two confirmations at once, and a payee that may be suspended.
SPECIFICATION PipelineSpec
CONSTANTS
  payer = payer
  payee = payee
  temp = temp
  charge = charge
  commission = commission
  t1 = t1
  r1 = r1
  w1 = w1
  w2 = w2
  c1 = c1
  c2 = c2
  Wallet <- MCWallet
  TempWallet = temp
  ChargeWallet = charge
  CommissionWallet = commission
  Tx = {t1}
  MCTx = {t1}
  Purse = 4
  t2 = t2
  RefundTx = {}
  Payload <- MCPayload
  Request <- MCRequest
  InitialAmount <- MCInitialAmount
  Restrictable = {payee}
  Message <- MCMessage
  Worker = {w1, w2}
  Caller = {c1, c2}
  Channel = {"API", "KAFKA"}
  FickleMerchant = FALSE
  LostReply = FALSE
  MaxCrash = 0
  MaxFlip = 0
  MaxDispute = 0
INVARIANTS
  RetriesSafe
  ReleasedNotPaid
  CallbacksSafe
SYMMETRY MCSymmetry
CHECK_DEADLOCK FALSE

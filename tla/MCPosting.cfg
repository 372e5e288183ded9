\* Two valid transactions, one incomplete request and one refund id.
SPECIFICATION Spec
CONSTANTS
  payer = payer
  payee = payee
  temp = temp
  charge = charge
  commission = commission
  t1 = t1
  t2 = t2
  bad = bad
  r1 = r1
  Wallet <- MCWallet
  TempWallet = temp
  ChargeWallet = charge
  CommissionWallet = commission
  Tx <- MCTx
  RefundTx = {r1}
  Payload <- MCPayload
  Request <- MCRequest
  InitialAmount <- MCInitialAmount
  Restrictable = {payee}
INVARIANTS
  TypeOK
  NoOverdraft
  MoneyConserved
  ReserveBacked
  LegsAgree
  ReversalExact
PROPERTIES
  LedgerAppendOnly
  LifecycleSpec

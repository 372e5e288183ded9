------------------------------ MODULE MCPipeline ------------------------------
(* Transactions between a customer, who has Purse, and a merchant.          *)
EXTENDS TransactionPipeline, TLC

CONSTANTS payer, payee, temp, charge, commission, t1, r1, w1, w2, c1, c2, t2
CONSTANTS MCTx, Purse

MCWallet  == {payer, payee, temp, charge, commission}
MCRequest == [t \in MCTx |-> [source |-> payer, destination |-> payee, valid |-> TRUE]]

Priced == [matches |-> TRUE, sourceDebit |-> 4, destinationCredit |-> 3, chargeCredit |-> 1,
           commissionDebit |-> 1, sourceCommission |-> 0, destinationCommission |-> 1]
MCPayload == {Priced}
MCMessage == [t \in MCTx |-> Priced]

MCInitialAmount == [w \in MCWallet |->
  CASE w = payer -> Purse [] w = commission -> 1 [] OTHER -> 0]

(* Handlers are interchangeable.                                            *)
MCSymmetry == Permutations(Worker) \cup Permutations(Caller)
=============================================================================

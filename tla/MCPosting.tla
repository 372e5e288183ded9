------------------------------ MODULE MCPosting ------------------------------
(* Two transactions between the same customer and merchant, sharing the     *)
(* reserve, charge and commission wallets.  The balances cover one of them  *)
(* but not always both, so every refusal for lack of money happens.         *)
EXTENDS Posting, TLC

CONSTANTS payer, payee, temp, charge, commission, t1, t2, bad, r1

MCWallet  == {payer, payee, temp, charge, commission}
MCTx      == {t1, t2, bad}
MCRequest == [t \in MCTx |-> [source |-> payer, destination |-> payee, valid |-> t # bad]]

(* The customer pays 3 and a charge of 1, the merchant gets a commission.   *)
Priced == [matches |-> TRUE, sourceDebit |-> 4, destinationCredit |-> 3, chargeCredit |-> 1,
           commissionDebit |-> 1, sourceCommission |-> 0, destinationCommission |-> 1]
Tampered   == [Priced EXCEPT !.matches = FALSE]
Mispriced  == [Priced EXCEPT !.destinationCredit = 4]
MCPayload  == {Priced, Tampered, Mispriced}

MCInitialAmount == [w \in MCWallet |->
  CASE w = payer -> 5 [] w = commission -> 1 [] OTHER -> 0]
=============================================================================

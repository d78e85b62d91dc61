----------------------------- MODULE MCDeposits -----------------------------
(* Two customers, two invoices, one wallet and the transfers it sends. *)
EXTENDS Deposits, TLC

CONSTANTS u1, u2, i1, i2, t1, x1, a1

OneTx == [t \in Transfer |-> x1]
OneSender == [t \in Transfer |-> a1]

InvoiceSymmetry == Permutations(User) \cup Permutations(Invoice)
=============================================================================

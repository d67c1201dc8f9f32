--------------------------- MODULE MCSubscriberSync ---------------------------
(***************************************************************************)
(* SubscriberSync with two accounts, a purchased voucher and an unlimited  *)
(* campaign voucher that both may redeem until its deadline.               *)
(***************************************************************************)
EXTENDS SubscriberSync

MCDuration == [v \in Vouchers |-> IF v = "bought" THEN 2 ELSE 1]
MCQuota == [v \in Vouchers |-> IF v = "bought" THEN 1 ELSE None]
MCDeadline == [v \in Vouchers |-> IF v = "bought" THEN None ELSE 1]
=============================================================================

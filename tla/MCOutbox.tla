------------------------------ MODULE MCOutbox ------------------------------
(* An instance of Outbox for TLC.  Two rows are enough for one to become       *)
(* visible behind the other, to evict the other from a ring or from the dedupe *)
(* set, and to be published again by an instance that lags.                    *)
EXTENDS Outbox
=============================================================================

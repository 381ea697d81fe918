---------------------------- MODULE MCOrderBook ----------------------------
(* Small instances of OrderBook for TLC.                                   *)
EXTENDS OrderBookView, TLC

\* Ids are only compared for equality.
IdSymmetry == Permutations(Ids)
=============================================================================

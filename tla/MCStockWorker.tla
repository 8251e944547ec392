---------------------------- MODULE MCStockWorker ----------------------------
(***************************************************************************)
(* Two connections, a ring shorter than the packets of a binding.          *)
(***************************************************************************)
EXTENDS StockWorker

MCEvents == [nonce : 1..MaxGeneration, stamp : 1..MaxStamp]

=============================================================================

---------------------------- MODULE MCOrderReads ----------------------------
(* The instances of MCWatcher, with a reader of the tables.                *)
EXTENDS MCWatcher, OrderReads
=============================================================================

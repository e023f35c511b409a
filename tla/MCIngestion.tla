---------------------------- MODULE MCIngestion ----------------------------
(* Instances of Ingestion: two streams of two records, one malformed.      *)
EXTENDS Ingestion

CONSTANTS btc, eth

MCSymbols == {btc, eth}
MCMalformed == {<<eth, 1>>}
=============================================================================

---------------------------- MODULE MCSerialDevice ----------------------------
EXTENDS SerialDevice

CONSTANTS n1, n2

(* Every switch has a command for being switched on. *)
MCMatches == {<<n1, 1>>, <<n2, 1>>}
=============================================================================

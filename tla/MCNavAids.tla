------------------------------ MODULE MCNavAids ------------------------------
(***************************************************************************)
(* Nav aids that share a place, as an ILS and its marker may, in a tree     *)
(* with the capacity of the code.                                           *)
(***************************************************************************)
EXTENDS NavAids

MCPlaces == {<<1, 1>>, <<3, 2>>}
=============================================================================

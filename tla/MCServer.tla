------------------------------ MODULE MCServer ------------------------------
(***************************************************************************)
(* An instance of Server: connection c1 has the handlers, c2 and c3 are    *)
(* idle.  One behaviour uses c1, or c2 and c3, so that TLC sees each mix   *)
(* without the product of all.                                             *)
(***************************************************************************)
EXTENDS Server

CONSTANTS c1, c2, c3

MCConnOf == [h \in Handlers |-> c1]
MCMixes  == {{c1}, {c2, c3}}
=============================================================================

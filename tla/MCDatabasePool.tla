--------------------------- MODULE MCDatabasePool ---------------------------
(* Two transactions that write the same rows in opposite order, a single   *)
(* statement, and a query of both rows.                                    *)
EXTENDS DatabasePool

CONSTANTS a, b, save, trade, update, login

MCRows == [t \in Task |-> CASE t = save   -> <<a, b>>
                            [] t = trade  -> <<b, a>>
                            [] t = update -> <<a>>
                            [] t = login  -> <<a, b>>]
=============================================================================

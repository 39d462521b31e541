--------------------------- MODULE MCNeo4jDriver ---------------------------
(* Two asyncio tasks sharing the Neo4jDriver class; up to three drivers.  *)
EXTENDS Neo4jDriver, TLC

CONSTANTS ta, tb

MCTasks == {ta, tb}
MCMaxDrivers == 3
=============================================================================

---------------------------- MODULE StateStores -----------------------------
(* Where server.js keeps its saved state: MySQL, and the older stores, the *)
(* snapshot in Redis and the state file, that it falls back on. A process  *)
(* saves to MySQL only once its own load has read the state there          *)
(* (mysqlStateEnabled); it serves requests while that load is under way.   *)

Stores == {"mysql", "redis", "file"}
Older == Stores \ {"mysql"}

\* What a process knows of the state: it loads it, or has it from MySQL or
\* from an older store.
StateFrom == {"loading", "mysql", "older"}
LoadedFrom(s) == IF s = "mysql" THEN "mysql" ELSE "older"

\* The stores a save may end up in, and whether it took a failure to get
\* there: Redis may be off or have failed.
SavesTo(from) == IF from = "mysql" THEN Stores ELSE Older
FellBack(from, s) == from = "mysql" /\ s # "mysql"
=============================================================================

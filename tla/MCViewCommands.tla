---------------------------- MODULE MCViewCommands ----------------------------
(* The server of mount answers requests from its index while it runs, which *)
(* is until the runtime is dropped, after the cleanup process.              *)
EXTENDS ViewCommands, IndexCache

Serving == alive /\ command = "mount" /\ pc \in {"guard", "wait", "quit"}

MCInit == Init /\ CacheInit

MCNext ==
  \/ Next /\ UNCHANGED cacheVars
  \/ Serving /\ CacheNext /\ UNCHANGED vars

MCSpec == MCInit /\ [][MCNext]_<<vars, cacheVars>> /\ Fairness
===============================================================================

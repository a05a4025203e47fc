-------------------------------- MODULE MCCache --------------------------------
(* Instance of ClientCache for TLC: see cache.cfg. *)
EXTENDS ClientCache

================================================================================

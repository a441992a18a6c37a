-------------------------------- MODULE MCArena --------------------------------
(* Four processes of the eight, in the order in which the Arena ends them. *)
EXTENDS Arena

MCShutdownOrder == <<"genesis", "wire_scheduler", "heartbeat", "warden">>

===============================================================================

-------------------------------- MODULE Clock --------------------------------
(***************************************************************************)
(* The clock the components of the platform read: time.monotonic, or       *)
(* datetime.now in UTC.  Its unit is the coarsest that tells the moments   *)
(* of a component apart.                                                   *)
(***************************************************************************)
EXTENDS Platform, Integers

CONSTANT MaxNow     \* bound: the last moment

VARIABLE now

Tick == now < MaxNow /\ now' = now + 1
=============================================================================

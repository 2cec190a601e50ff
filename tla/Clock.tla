-------------------------------- MODULE Clock --------------------------------
(* The wall clock the components compare their rows with: time.Now() in the  *)
(* server and now() in PostgreSQL, taken to be one clock.  Horizon bounds it. *)
EXTENDS Integers

CONSTANTS Horizon,      \* the last moment looked at
          None          \* no value

ASSUME ClockAssumption == Horizon \in Nat /\ None \notin Int

VARIABLE now

Moment == 0 .. Horizon

Tick == now < Horizon /\ now' = now + 1
=============================================================================

------------------------ MODULE MCInterruptHandlers ------------------------
(***************************************************************************)
(* Two devices and the profiler, registering and removing their handlers   *)
(* in any order.                                                           *)
(***************************************************************************)
EXTENDS InterruptHandlers

CONSTANTS uart, pin, profiler

MCClients == {uart, pin, profiler}
MCDevices == {uart, pin}

=============================================================================

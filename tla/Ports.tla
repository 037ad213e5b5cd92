------------------------------- MODULE Ports --------------------------------
(***************************************************************************)
(* The two ports to the outside, side by side: they share nothing but the  *)
(* interrupt flag, each with a bit of its own.                             *)
(***************************************************************************)
EXTENDS Joypad, Serial

(***************************************************************************)
(* The joypad hears every press of a selected button and requests nothing  *)
(* else; the serial port passes on every byte once and in order.           *)
(***************************************************************************)
PortsHold ==
  /\ [](JoypadTypeOK /\ SerialTypeOK /\ PeerInOrder /\ LogIsExact)
  /\ PressHeard /\ NoIdleRequest
=============================================================================

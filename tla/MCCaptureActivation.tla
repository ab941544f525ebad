------------------------ MODULE MCCaptureActivation ------------------------
(***************************************************************************)
(* The instances of CaptureActivation that TLC checks.                     *)
(***************************************************************************)
EXTENDS CaptureActivation

CONSTANTS s1, s2

MCInventory == <<s1, s2>>
MCInventoryOne == <<s1>>
=============================================================================

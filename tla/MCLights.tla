------------------------------ MODULE MCLights ------------------------------
(* Lights for TLC: the battery and one of the notification lights. *)
EXTENDS Lights, TLC

CONSTANTS notification, red, panel

MCNotifiers == {notification}
OneColor == {red}
OnePlain == {panel}
MayFail == BOOLEAN
=============================================================================

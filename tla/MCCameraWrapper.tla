-------------------------- MODULE MCCameraWrapper --------------------------
(* CameraWrapper for TLC: the two cameras, one limit with two values. *)
EXTENDS CameraWrapper, TLC

CONSTANTS back, front, contrast, low, high

MCCameras == {back, front}
MCLimits == {contrast}
MCValues == {low, high}
=============================================================================

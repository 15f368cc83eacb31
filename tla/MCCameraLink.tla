---------------------------- MODULE MCCameraLink ----------------------------
(* Instances of CameraLink for TLC. *)
EXTENDS CameraLink

CONSTANTS boot, login

\* The manager of App.Run's own loop over the babies.
OneManager == {boot}

\* A second manager of the same baby, started by OnLogin.
TwoManagers == {boot, login}
=============================================================================

----------------------------- MODULE MCDesktopApp -----------------------------
(* A small instance of DesktopApp: a development build, which loads twice. *)
EXTENDS DesktopApp

MCLoads == {1, 2}
=============================================================================

----------------------- MODULE MCElectronServerRuntime -----------------------
(* Three children: an old one, its replacement, and one more. *)
EXTENDS ElectronServerRuntime
CONSTANTS c1, c2, c3
MCChildren == {c1, c2, c3}
=============================================================================

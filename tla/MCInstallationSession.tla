------------------------ MODULE MCInstallationSession ------------------------
(* This installation, another one, and three sessions among them.            *)
EXTENDS InstallationSession
CONSTANTS i1, i2
MCInstallations == {i1, i2}
=============================================================================

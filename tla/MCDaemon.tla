------------------------------ MODULE MCDaemon ------------------------------
(* Instances of Daemon for TLC: the registration orders of main.c:116-120,  *)
(* cut down to the modules a run is about.                                  *)
EXTENDS DaemonInvariant

AIAndFiles == <<"AIEngine", "FileIntegrity">>
OneModule == <<"AIEngine">>
FilesOnly == <<"FileIntegrity">>
=============================================================================

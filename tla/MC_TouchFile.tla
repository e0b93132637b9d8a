---------------------------- MODULE MC_TouchFile ----------------------------
(* Model-checking instances of TouchFile: the permissions 0600, 0644 and  *)
(* 01000 (a bit outside 0777).                                            *)
EXTENDS TouchFile

MCPermInputs == {384, 420, 512}
=============================================================================

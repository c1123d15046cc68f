------------------------------ MODULE MCFleet ------------------------------
(***************************************************************************)
(* Small instances of Fleet for TLC.                                       *)
(***************************************************************************)
EXTENDS Fleet
CONSTANT A

Makers1 == [makers |-> TRUE, profiles |-> 0, window |-> 1]
Makers2 == [makers |-> TRUE, profiles |-> 0, window |-> 2]
Aggressors2 == [makers |-> FALSE, profiles |-> 2, window |-> 2]
OneOfTwo == {Makers1, Aggressors2}
MakersOnly == {Makers2}
=============================================================================

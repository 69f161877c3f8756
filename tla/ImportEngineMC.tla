--------------------------- MODULE ImportEngineMC ---------------------------
(* Addons whose folders have the same name, so that they land on the same    *)
(* place of the library.                                                     *)
EXTENDS ImportEngine
CONSTANTS own, theirs, other, place

MCTargetOf == [r \in Request |-> place]
=============================================================================

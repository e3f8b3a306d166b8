--------------------------- MODULE NearbySessionsMC ---------------------------
(***************************************************************************)
(* The instance of NearbySessions that TLC checks: of three files the last *)
(* drops the table, as the eleventh of the repository does.                *)
(***************************************************************************)
EXTENDS NearbySessions

LastFile == {NumFiles}

=============================================================================

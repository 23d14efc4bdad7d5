---------------------------- MODULE MCCreatePage ----------------------------
(* CreatePage with values on and around every boundary of the ttl rules    *)
(* and of the note sizes.                                                  *)
EXTENDS CreatePage

(* Below the minimum, between two whole seconds, a preset, and over 7 days. *)
MCMaxTTLValues == {59999, 60500, 3600000, 604800001}

(* Invalid, the shortest, and one minute over an hour.                     *)
MCMinuteValues == {0, 1, 61}

MCRequestTTLs == {-1, 0, 59, 60, 61, 3600, 604800, 604801}

(* A short note, the largest one whose link has a QR code at OriginLength  *)
(* 21, the smallest whose link has none, the smallest with a size warning. *)
MCNoteSizes == {3, 1153, 1154, 102401}

(* The values that matter to the size warning.                             *)
FewMaxTTLValues == {3600000}
FewMinuteValues == {1}
FewRequestTTLs  == {0}
FewNoteSizes    == {1, 102401}
=============================================================================

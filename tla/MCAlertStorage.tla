--------------------------- MODULE MCAlertStorage ---------------------------
(***************************************************************************)
(* A small instance of AlertStorage: months of two days, a retention that   *)
(* ends inside a month, and a map that fails on one alert.                  *)
(***************************************************************************)
EXTENDS AlertStorage

MCIds    == 1 .. 3
MCBroken == {<<1, 2>>}
MCRanges == {<<1, 2, 2>>, <<1, 2, 1>>}

MCJobsAlike == Permutations(Jobs)
=============================================================================

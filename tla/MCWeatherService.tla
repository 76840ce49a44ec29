--------------------------- MODULE MCWeatherService ---------------------------
(* Instances of WeatherService for TLC.                                      *)
EXTENDS WeatherService, TLC

CONSTANTS r1, r2, r3   \* requests

ThreeCalls == {r1, r2, r3}

At(latitude, longitude) == [lat |-> latitude, lon |-> longitude]

\* Two points of one cell, at a longitude that prints as minus zero, one of the
\* next cell in each direction, one off the globe and one nowhere.
Nearby == {At(40711, -2), At(40714, -4), At(40721, -2), At(40711, 14),
           At(90001, -2), At(NaN, -2)}

Symmetry == Permutations(Calls)
=============================================================================

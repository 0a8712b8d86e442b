--------------------------- MODULE MCStartup ---------------------------
(* Startup with the signing keys around every boundary of the checks.        *)
EXTENDS Startup

SigningKey(length, unique) ==
  [length |-> length, unique |-> unique, forbidden |-> FALSE, padded |-> FALSE]

Plain ==
  {SigningKey(0, 0), SigningKey(31, 16), SigningKey(32, 7), SigningKey(32, 8),
   SigningKey(63, 8), SigningKey(64, 15), SigningKey(64, 16)}

BoundaryKeys ==
  Plain \cup {[key EXCEPT !.padded = TRUE] : key \in {SigningKey(0, 0), SigningKey(31, 16)}}
        \cup {[SigningKey(8, 8) EXCEPT !.forbidden = TRUE]}
========================================================================

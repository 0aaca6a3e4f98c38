------------------------------- MODULE WaterLaw -------------------------------
(***************************************************************************)
(* The heating water law as the dashboard computes it (store.js): the      *)
(* water outlet target between two outdoor temperatures, for any settings  *)
(* of the heat pump.  Temperatures are integers (tenths of a degree), the  *)
(* interpolated target is a fraction.                                      *)
(***************************************************************************)
EXTENDS Integers

CONSTANT None   \* null: a value that has not come yet

Fraction(n, d) == [n |-> n, d |-> d]

p \preceq q == p.n * q.d <= q.n * p.d

(* FSV 2011, 2012 and the two water temperatures of the zone.              *)
Settings == [tCold : Int, tWarm : Int, wCold : Int, wWarm : Int]

(* The target without the offset.                                          *)
Curve(outdoor, s) ==
  IF outdoor <= s.tCold \/ s.tWarm <= s.tCold THEN Fraction(s.wCold, 1)
  ELSE IF outdoor >= s.tWarm THEN Fraction(s.wWarm, 1)
  ELSE Fraction(s.wCold * (s.tWarm - s.tCold) + (outdoor - s.tCold) * (s.wWarm - s.wCold),
                s.tWarm - s.tCold)

Shifted(p, offset) == Fraction(p.n + offset * p.d, p.d)

(* waterLawTarget: nothing before all five values have come; a missing     *)
(* offset counts as none.                                                  *)
WaterLawTarget(outdoor, s, offset) ==
  IF None \in {outdoor, s.tCold, s.tWarm, s.wCold, s.wWarm} THEN None
  ELSE Shifted(Curve(outdoor, s), IF offset = None THEN 0 ELSE offset)

(* outletTarget: the law in mode AUTO, else the target that was set.       *)
OutletTarget(mode, set, outdoor, s, offset) ==
  IF mode = "AUTO" THEN WaterLawTarget(outdoor, s, offset) ELSE set

=============================================================================

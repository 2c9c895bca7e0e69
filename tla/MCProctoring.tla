------------------------------ MODULE MCProctoring ------------------------------
EXTENDS Proctoring

\* A ranged event longer than the clamp, an instantaneous one, and an unknown type.
Types == [e \in Event |-> IF e = "e1" THEN "gaze_away" ELSE IF e = "e2" THEN "tab_blur" ELSE "new"]
Durations == [e \in Event |-> IF e = "e1" THEN 1000 ELSE 0]
PerSecond == [t \in {"gaze_away"} |-> 1]
PerEvent == [t \in {"tab_blur"} |-> 6]
================================================================================

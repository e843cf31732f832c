--------------------------- MODULE RecoveryPoints ---------------------------
(***************************************************************************)
(* What a repository promises to the people who back up into it: a set of  *)
(* recovery points that can all be restored.  A backup adds the newest one;*)
(* retention may forget a point only while KeepLast newer points of the    *)
(* same tag remain.  Nothing else ever takes a recovery point away.        *)
(***************************************************************************)
EXTENDS Integers, FiniteSets

CONSTANTS Tag, KeepLast

VARIABLE points         \* recovery points: a tag, a time, and what is in it

Newer(s, S) == {t \in S : t.tag = s.tag /\ t.time > s.time}

PointsInit == points = {}

Add ==
    \E s \in points' :
        /\ \A t \in points : t.time < s.time
        /\ points' = points \cup {s}

Drop ==
    \E s \in points :
        /\ points' = points \ {s}
        /\ Cardinality(Newer(s, points')) >= KeepLast

PointsNext == Add \/ Drop

PointsSpec == PointsInit /\ [][PointsNext]_points
=============================================================================

------------------------------- MODULE MCSizing -------------------------------
(* Sizing of two collections.  The samples lie on both sides of a page, of   *)
(* two pages and of the ratio 1 : 20; one has an empty collection.           *)
EXTENDS Sizing

MCColls == {"a", "b"}
Holding(a, m, b, n) == [c \in MCColls |-> IF c = "a" THEN [count |-> a, size |-> m]
                                           ELSE [count |-> b, size |-> n]]
MCSamples == {Holding(2, 3, 0, 0), Holding(2, 60, 1, 2)}
Counts(m, n) == [c \in MCColls |-> IF c = "a" THEN m ELSE n]
MCInputs == {[given |-> Missing, prod |-> Counts(4, 2)],
             [given |-> 6, prod |-> Counts(6, 0)],
             [given |-> Missing, prod |-> Counts(3, Missing)]}
===============================================================================

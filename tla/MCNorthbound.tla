---- MODULE MCNorthbound ----
(* Two connections; c1 comes before c2 in every list. *)
EXTENDS Northbound
CONSTANTS c1, c2
MCOrder == <<c1, c2>>
====

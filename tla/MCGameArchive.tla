---------------------------- MODULE MCGameArchive -----------------------------
(* Two games of different sizes on a drive that holds either, but not quite *)
(* both.                                                                    *)
EXTENDS GameArchive

CONSTANTS big, small

MCGames == {big, small}
MCSize  == [g \in MCGames |-> IF g = big THEN 800 ELSE 400]
MCUnlucky == {small}
=============================================================================

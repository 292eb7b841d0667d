---------------------------- MODULE MCLiveReload ----------------------------
(* Two tabs of one browser, interchangeable, and three builds.             *)
EXTENDS LiveReload, TLC

CONSTANTS left, right

MCTabs == {left, right}
=============================================================================

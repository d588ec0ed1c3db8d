----------------------------- MODULE MCBrowser ------------------------------
(* Instances of BrowserSession for TLC.                                       *)
EXTENDS BrowserSession

(* The first tab navigates twice, the second once.                            *)
TwoThenOne == {[c \in ContextId |-> IF c = 1 THEN 2 ELSE 1]}
=============================================================================

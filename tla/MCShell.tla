------------------------------ MODULE MCShell -------------------------------
(* Instances of BrowserShell for TLC.                                         *)
EXTENDS BrowserShell

(* Two tabs navigate once each, or the first twice beside a blank one.        *)
TwoInAll == {<<1, 1>>, <<2, 0>>}

(* The first tab navigates twice, the second stays blank.                     *)
TwoOfOne == {<<2, 0>>}
=============================================================================

-------------------------- MODULE MCEngineProtocol --------------------------
(* Instances of EngineProtocol for TLC.                                       *)
EXTENDS EngineProtocol

OneNode == {[nodes |-> 1, payload |-> 1]}
=============================================================================

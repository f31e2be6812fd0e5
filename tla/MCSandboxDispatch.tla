-------------------------- MODULE MCSandboxDispatch --------------------------
(***************************************************************************)
(* A small instance of SandboxDispatch for TLC.                            *)
(***************************************************************************)
EXTENDS SandboxDispatch

CONSTANTS office, h1, j1

OneRole == {office}
OnePeer == {h1}
OneJob  == {j1}

PeerRoles == [h \in Peers |-> office]
JobRoles  == [j \in Jobs |-> office]
=============================================================================

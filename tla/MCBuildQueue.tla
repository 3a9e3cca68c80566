---------------------------- MODULE MCBuildQueue ----------------------------
(* Two workers on two hosts, two jobs of which one is pinned to the first. *)
EXTENDS BuildQueue

CONSTANTS p1, p2, h1, h2, pinned, open

\* The first worker may hear twice of the open job; nobody tells the second of
\* the pinned one.
MCTask   == {<<p1, open, 1>>, <<p1, open, 2>>, <<p2, open, 1>>, <<p1, pinned, 1>>}
MCProcOf == [t \in MCTask |-> t[1]]
MCJobOf  == [t \in MCTask |-> t[2]]
MCHostOf == [p \in Proc |-> IF p = p1 THEN h1 ELSE h2]
MCPin    == [j \in Job |-> IF j = pinned THEN h1 ELSE None]
=============================================================================

----------------------------- MODULE MCMfeHost -----------------------------
(* Two deployments of a remote for model checking MfeHost, and a manifest  *)
(* that declares a tag its script does not register.                       *)
EXTENDS MfeHost

CONSTANTS t1, t2, e1, e2

TwoEntries == {e1, e2}
TwoTags == [e \in TwoEntries |-> IF e = e1 THEN t1 ELSE t2]
SomeManifests == {[tag |-> t1, entry |-> e1], [tag |-> t2, entry |-> e2], [tag |-> t2, entry |-> e1]}
=============================================================================

------------------------------ MODULE MCArtifact ------------------------------
(* The inputs that bring out each finding of ArtifactFindings.cfg;             *)
(* Evidence.cfg checks the whole component.                                    *)
EXTENDS Artifact, TLC

CONSTANTS x, y, z

Brief == [retain |-> 0, archive |-> 0, delete |-> 1, allow |-> TRUE]
Unordered == [retain |-> 1, archive |-> Never, delete |-> 0, allow |-> TRUE]

Input(content, label, key, source, authoritative, retention) ==
  [content |-> content, label |-> label, key |-> key, source |-> source,
   authoritative |-> authoritative, retention |-> retention]

\* The same content with and without authority.
Shared == {Input(y, "a", 1, "s1", FALSE, Brief), Input(y, "a", 2, "s2", TRUE, Brief)}

\* The standard outputs of two tool runs that printed the same.
ToolOutputs == {Input(x, "run1", 5, "run1", TRUE, Brief), Input(x, "run2", 6, "run2", TRUE, Brief)}

\* All of these, under keys of their own.
Mixed == Shared \cup ToolOutputs \cup {Input(z, "a", 3, "s3", FALSE, Unordered)}

NoItems == <<>>
==============================================================================

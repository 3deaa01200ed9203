----------------------------- MODULE MCArtifact -----------------------------
(* Instances of the staging protocol for TLC. *)
EXTENDS Artifact

CONSTANTS i1, i2

MCInode == {i1, i2}
MCOutside == {i2}
\* A digest tells contents apart by their bytes, not by their inode.
MCHash(c) == <<"sha256", c>>
MCDigest == MCHash(<<"b1", "b2">>)
=============================================================================

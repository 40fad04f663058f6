------------------------ MODULE MCSegmentMembership ------------------------
(* Instances of SegmentMembership for TLC. *)
EXTENDS SegmentMembership
=============================================================================

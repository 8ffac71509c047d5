---------------------------- MODULE MCSegmentFile ----------------------------
(* Model values and small bounds for SegmentFile. *)
EXTENDS SegmentFile

\* Bound: what a read that another overlapped has decoded.  Such reads move each
\* other's cursor and may go on for ever.
SharedBound == \A r \in Readers : shared[r] => Len(got[r]) <= 1
==============================================================================

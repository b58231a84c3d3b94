------------------------ MODULE MCStructuredTimeline ------------------------
(* Two approvals, a provider file that grows and is rewritten, one restart. *)
EXTENDS StructuredTimeline

CONSTANTS a1, a2, p1, p2

MCApprovals == {a1, a2}
MCProviderViews == {{p1}, {p1, p2}, {p2}}
=============================================================================

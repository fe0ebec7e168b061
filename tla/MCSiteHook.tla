----------------------------- MODULE MCSiteHook -----------------------------
(* Two copies and two logins; a page to spare for an install that failed. *)
EXTENDS SiteHook

CONSTANTS c1, c2, p1, p2, p3, t1, t2
=============================================================================

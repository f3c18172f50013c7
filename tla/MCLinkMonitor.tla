--------------------------- MODULE MCLinkMonitor ---------------------------
(* LinkMonitor for TLC: one link, a buffer for two messages about it.  The *)
(* traffic of other links is what makes announcements get lost at any time.*)
EXTENDS LinkMonitor

(* What the handlers do is checked with the table of factories that        *)
(* NetLink_Module makes (TCL_NetLink.cc:876).  It is not the one that      *)
(* receive reads: that one stays empty, which is what MCLinkMonitorTable   *)
(* is about.                                                               *)
AllTypes == {"NewLink", "DelLink", "DelPort", "DelAddress"}

=============================================================================

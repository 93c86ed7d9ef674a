--------------------------- MODULE MCPortalSession ---------------------------
\* Two tabs and two logins, in the same or in different tabs.
EXTENDS PortalSession
=============================================================================

--------------------------- MODULE MCSessionStatus ---------------------------
\* SessionStatus with two logins, each of which may fail or connect.
EXTENDS SessionStatus
=============================================================================

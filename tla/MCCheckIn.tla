----------------------------- MODULE MCCheckIn -----------------------------
EXTENDS CheckIn
=============================================================================

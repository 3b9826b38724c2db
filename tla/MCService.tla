----------------------------- MODULE MCService ------------------------------
EXTENDS Service
Durations == {1}
=============================================================================

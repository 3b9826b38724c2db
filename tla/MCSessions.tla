----------------------------- MODULE MCSessions -----------------------------
EXTENDS Sessions
\* 3600 seconds to the hour; instants in UTC and two hours east of it.
Hour == 3600
Times == [at : {0, Hour}, zone : {0, 2 * Hour}]
Limits == {0, 1}
=============================================================================

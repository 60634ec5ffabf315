---------------------------- MODULE MCEdgeOperate ----------------------------
\* Two hosts that are, in turn, edges and users of the other's road.  Three
\* addresses in the inner network: one for the edges, two for the central router.
EXTENDS EdgeOperate

MCVips == {11, 12}
==============================================================================

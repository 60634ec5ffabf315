---------------------------- MODULE MCLinkMaster ----------------------------
EXTENDS LinkMaster

\* A behaviour that has hit a loss window satisfies every property of the
\* run from then on, so its continuations are not explored.
NothingLost == lostBy = {}
=============================================================================

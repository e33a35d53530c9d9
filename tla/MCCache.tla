------------------------------ MODULE MCCache ------------------------------
(* Values of Cache's constants for TLC: two keys, ttls that never expire, that *)
(* expire after one or two units, and one whose deadline overflows once the    *)
(* clock has moved.                                                            *)
EXTENDS Cache

CONSTANTS k1, k2, v1, i1, i2, i3

TwoKeys == {k1, k2}
ThreeIds == {i1, i2, i3}
MCTTLs == {0, 1, 2, 7}

\* Clients that only take and drop leases, as the rate limiting and the lock
\* examples of docs/COMMANDS.md do, with a ttl of two units.
LeaseTTLs == {2}
LeaseNext == SomeSetNX \/ (\E k \in Keys : Delete(k)) \/ Cleanup \/ Tick
LeaseSpec == Init /\ [][LeaseNext]_vars
=============================================================================

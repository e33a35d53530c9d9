----------------------------- MODULE MCSession -----------------------------
(* Session for TLC: one key, two values, a ttl of one unit and one whose product *)
(* with its unit overflows, and clients that send two of four scripts.           *)
EXTENDS Session

CONSTANTS k1, v1, v2, s1, pwA, pwB

MCIds == 1 .. 4
Arg(n, u) == [num |-> n, unit |-> u]
MCTtlArgs == {Arg(1, 1), Arg(3, 4)}
MCTTLs == {0, 1, -4}

Auth_(p) == [cmd |-> "AUTH", password |-> p]
Put_(cmd, v, ttl) == [cmd |-> cmd, key |-> k1, value |-> v, ttl |-> ttl]
On(cmd) == [cmd |-> cmd, key |-> k1]
Just(cmd) == [cmd |-> cmd]

\* A lease; a value whose ttl overflows; a read, a line that is too long and one
\* behind it; a client that lists and removes.  Whether a client may is left to what came before.
MCBursts ==
    {<<Auth_(pwA), Put_("SETNX", v1, Arg(1, 1))>>,
     <<Auth_(pwB), Put_("SET", v2, Arg(3, 4))>>,
     <<Just("EMPTY"), On("GET"), Just("TOOLONG"), On("GET")>>,
     <<Just("KEYS"), On("DEL"), Just("FLUSHALL")>>}
=============================================================================

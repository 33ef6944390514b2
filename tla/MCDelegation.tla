---------------------------- MODULE MCDelegation ----------------------------
EXTENDS Delegation, TLC

Policy(interval, percent, max, mode) ==
    [min_interval |-> interval, lifetime_percent |-> percent,
     max_connection_ttl |-> max, failure_mode |-> mode]

Mixed == {Policy(2, 100, None, "FailClosed"), Policy(3, 50, 3, "FailOpen"),
          Policy(0, 0, None, "FailClosed"), Policy(2, 50, 0, "FailClosed"),
          Policy(2, None, None, "FailClosed")}

Symmetry == Permutations(Grants)
=============================================================================

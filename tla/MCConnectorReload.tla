------------------------- MODULE MCConnectorReload -------------------------
(* Addresses are the integers 1..3.  The configurations are chosen so      *)
(* that a reload can keep, re-create, reject (changed addresses under the  *)
(* same single-host name) and collide with the primary's address set.     *)
EXTENDS ConnectorReload

\* Primary: the cluster {1,2} listed unsorted, with two settings; the
\* cluster {1,3} (an address change).
MCMainCfgs ==
    { [mode |-> "cluster", addrs |-> <<2, 1>>, db |-> 0, param |-> 0],
      [mode |-> "cluster", addrs |-> <<2, 1>>, db |-> 0, param |-> 1],
      [mode |-> "cluster", addrs |-> <<1, 3>>, db |-> 0, param |-> 0] }

\* Shadows: single host named 2 with addresses {1,2} and two settings, the
\* single host named 2 with addresses {2,3}, the cluster {1,2}, a single
\* host with no address (init gives it defaultHostAndPort, address 4) and
\* an invalid client mode.
MCShadowCfgs ==
    { [mode |-> "singleHost", addrs |-> <<2, 1>>, db |-> 0, param |-> 0],
      [mode |-> "singleHost", addrs |-> <<2, 1>>, db |-> 0, param |-> 1],
      [mode |-> "singleHost", addrs |-> <<2, 3>>, db |-> 0, param |-> 0],
      [mode |-> "cluster",    addrs |-> <<1, 2>>, db |-> 0, param |-> 0],
      [mode |-> "singleHost", addrs |-> <<>>,     db |-> 0, param |-> 0],
      [mode |-> "bogus",      addrs |-> <<3>>,    db |-> 0, param |-> 0] }
MCSchedValues == {0, -1}
=============================================================================

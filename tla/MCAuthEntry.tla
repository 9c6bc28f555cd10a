---------------------------- MODULE MCAuthEntry ----------------------------
(***************************************************************************)
(* Two deployments: one with a provider and no limiter, where OIDC logins  *)
(* start, and one with the limiter, where attempts overlap.                *)
(***************************************************************************)
EXTENDS AuthEntry, TLC

CONSTANTS r1, r2, ip1, ip2, b1, b2

MCCallers == {r1, r2}
MCBrowsers == {b1, b2}
MCIps == {ip1, ip2}
MCSites == {[callers |-> {r1}, ips |-> {ip1}, accounts |-> {}, browsers |-> Browsers, oidc |-> TRUE,
             limited |-> FALSE, attempts |-> 2, horizon |-> 3],
            [callers |-> {r1, r2}, ips |-> {ip1, ip2}, accounts |-> Accounts, browsers |-> {b1}, oidc |-> FALSE,
             limited |-> TRUE, attempts |-> 3, horizon |-> 4]}

Symmetry == Permutations(Callbacks)
=============================================================================

---------------------------- MODULE MCRateLimiter ----------------------------
(* Small instances of RateLimiter. *)
EXTENDS RateLimiter

CONSTANT k

Entry(enabled, ip, ipWindow, key, keyWindow) ==
  [enabled |-> enabled, by_ip |-> [requests |-> ip, window |-> ipWindow],
   by_key |-> [requests |-> key, window |-> keyWindow], keys |-> {k}]

\* A reload lowers the client's limit and makes its window longer than twice any that
\* the limiter may have started with, raises the key's limit, or switches all off.
MCConfigs ==
  { Entry(TRUE, 2, 0, 1, 1), Entry(TRUE, 1, 3, 2, 1), Entry(FALSE, 1, 0, 1, 1) }
===============================================================================

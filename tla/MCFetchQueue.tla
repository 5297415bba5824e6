---------------------------- MODULE MCFetchQueue ----------------------------
(***************************************************************************)
(* Instances of FetchQueue for TLC.                                        *)
(***************************************************************************)
EXTENDS FetchQueue, TLC

CONSTANTS a, b, c

\* a and b share a domain and a outranks b; c is on a site of its own
MCPriority == [u \in Urls |-> IF u = a THEN 2 ELSE 1]
MCDomain == [u \in Urls |-> IF u = c THEN "other" ELSE "site"]
=============================================================================

----------------------------- MODULE MCPageFlow -----------------------------
(***************************************************************************)
(* Instances of PageFlow for TLC: two pages a and b of one product that    *)
(* link to each other, the seed a and what it leads to, which outranks it. *)
(***************************************************************************)
EXTENDS PageFlow, TLC

CONSTANTS a, b

MCPriority == [u \in Urls |-> IF u = a THEN 1 ELSE 2]
MCDomain == [u \in Urls |-> "site"]

\* A sitemap lists b, and b says it is the sameAs of a: by those, the URL counts. From
\* the links, product_url_pattern captures the same id for a and for b.
Sitemap(u) == [url |-> u, fingerprint |-> u, confidence |-> 60]
SameAs(u) == [url |-> u, fingerprint |-> u, confidence |-> 45]
Link(u) == [url |-> u, fingerprint |-> "product", confidence |-> 40]

MCFindings == {Sitemap(b), SameAs(a), Link(a), Link(b)}
MCFound == {Sitemap(b)}
MCLinks == [u \in Urls |-> IF u = a THEN {Link(b)} ELSE {Link(a), SameAs(a)}]
=============================================================================

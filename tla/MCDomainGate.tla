---------------------------- MODULE MCDomainGate ----------------------------
(***************************************************************************)
(* Instances of DomainGate for TLC.                                        *)
(***************************************************************************)
EXTENDS DomainGate

CONSTANTS w1, w2, d1

\* two jobs that do not agree on how fast their common domain may be asked
MCRateLimit == [w \in Workers |-> IF w = w1 THEN 2 ELSE 3]

\* w1's job waits for the domain up to two pages long; w2's, as by default, never does
MCMaxPages == [w \in Workers |-> IF w = w1 THEN 2 ELSE 1]
MCBudget == [w \in Workers |-> IF w = w1 THEN 4 ELSE 0]

\* up to two rows of the common domain; w1's job alone reaches the others
MCQueues == {[d \in Domains |-> IF d = d1 THEN n ELSE 1] : n \in {2}}

Plain == [fault |-> "none", status |-> 200, retryAfter |-> 0, form |-> "none", body |-> "page"]

MCResponses ==
    {Plain, [Plain EXCEPT !.fault = "timeout"], [Plain EXCEPT !.fault = "robots"],
     [Plain EXCEPT !.body = "captcha"],
     [Plain EXCEPT !.status = 429, !.form = "number", !.retryAfter = 3],
     [Plain EXCEPT !.status = 429, !.form = "date", !.retryAfter = -2]}
=============================================================================

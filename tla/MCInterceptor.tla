---------------------------- MODULE MCInterceptor ----------------------------
(* The rules and requests of the Interceptor's instances.                  *)
EXTENDS Interceptor, TLC

CONSTANTS q1, q2, p1, a1, a2, i1, i2, i3

\* A list whose first rule is disabled, so that the second one decides for q1.
MCRuleLists ==
    {<<[enabled |-> FALSE, block |-> FALSE, hits |-> {q1}],
       [enabled |-> TRUE,  block |-> TRUE,  hits |-> {q1}],
       [enabled |-> TRUE,  block |-> FALSE, hits |-> Requests]>>}
=============================================================================

----------------------------- MODULE MCWarmPath -----------------------------
EXTENDS WarmPath

MCCheckout == [rule |-> 1, src |-> 1]

MCMakes(rule, environment, stamps, src) == <<rule, environment, stamps, src>>
=============================================================================

------------------------------- MODULE MCConsent -------------------------------
EXTENDS Consent

\* Every request comes through two proxies, the first one of the caller's making.
OneHop == [r \in Caller |-> "load balancer"]
TwoForwarded == [r \in Caller |-> <<"invented", "candidate">>]
================================================================================

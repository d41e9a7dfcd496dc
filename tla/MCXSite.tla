------------------------------ MODULE MCXSite ------------------------------
EXTENDS XSite
Routed   == [sites |-> TRUE, expose |-> "Route", router |-> TRUE,
             tls |-> TRUE, up |-> TRUE, remote |-> "api"]
Balanced == [Routed EXCEPT !.expose = "LoadBalancer"]
NoRouter == [Routed EXCEPT !.router = FALSE, !.remote = "static"]
Stopped  == [Routed EXCEPT !.expose = "NodePort", !.tls = FALSE, !.up = FALSE]
Single   == [Routed EXCEPT !.sites = FALSE]
SomeEdits == {Routed, NoRouter, Stopped, Single}
TwoPods   == {<<"LON", 0>>, <<"LON", 1>>}
OneStart  == {[s \in Site |-> IF s \in Routes THEN Routed ELSE Balanced]}
=============================================================================

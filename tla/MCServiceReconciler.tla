------------------------ MODULE MCServiceReconciler ------------------------
(* Instances of ServiceReconciler for TLC. *)
EXTENDS ServiceReconciler

TheDefault == [name |-> "a", tls |-> "", headless |-> FALSE, ports |-> "metrics", etcd |-> "e1"]

\* Another name and no metrics; no metrics alone; TLS and another etcd; headless and
\* an etcd secret that refers to a key it does not have.
TheConfigMaps == {[name |-> "b", ports |-> "rest"], [ports |-> "rest"],
                  [tls |-> "t", etcd |-> "e2"], [headless |-> TRUE, etcd |-> "e3"]}

Plain == [connection |-> TRUE, keys |-> {}, embedded |-> {}, files |-> <<>>]

TheSecrets ==
    [e1 |-> Plain,
     e2 |-> [Plain EXCEPT !.embedded = {"certificate", "client_key"}, !.keys = {"crt"},
                          !.files = [client_certificate |-> "crt"]],
     e3 |-> [Plain EXCEPT !.files = [certificate |-> "ca"]]]
=============================================================================

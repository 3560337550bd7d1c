--------------------------- MODULE MCKubeResolver ---------------------------
(* Instances of KubeResolver for TLC. *)
EXTENDS KubeResolver

Port(name, number) == [name |-> name, number |-> number]

\* A pod that is not ready, or two, one of which has only the other port.
TheEndpoints ==
    LET ready == [ips |-> {"i1"}, ports |-> {Port("grpc", "8033"), Port("rest", "8008")}]
        other == [ips |-> {"i2"}, ports |-> {Port("rest", "8008")}]
    IN {{}, {ready, other}}

\* Clients of two names, by number and by name of the port.
TheTargets == {[name |-> "a", port |-> "8033"], [name |-> "b", port |-> "grpc"]}
=============================================================================

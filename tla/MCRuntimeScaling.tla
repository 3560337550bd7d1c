-------------------------- MODULE MCRuntimeScaling --------------------------
(* Small instances of RuntimeScaling for TLC. *)
EXTENDS RuntimeScaling, TLC

RuntimeSpec(class, max, mode) == [class |-> class, max |-> max, mode |-> mode]

\* Autoscaled or not, with annotations that differ, switched off, and invalid.
AllRuntimes ==
    {RuntimeSpec("none", 0, "on"), RuntimeSpec("hpa", 2, "on"),
     RuntimeSpec("none", 0, "off"), RuntimeSpec("none", 0, "invalid")}

=============================================================================

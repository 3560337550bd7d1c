------------------------ MODULE MCControllerProcess ------------------------
(* Instances of ControllerProcess for TLC. *)
EXTENDS ControllerProcess

Watch(var, access) == [var |-> var, access |-> access]

Usual ==
    [config |-> TRUE, clusterScope |-> TRUE, clusterAccess |-> TRUE, election |-> "lease", setup |-> TRUE,
     watches |-> [isvc |-> Watch("", "nomatch"), csr |-> Watch("", "ok"),
                  secret |-> Watch("false", "denied")],
     sourceId |-> "plug"]

\* One for each reason to exit, and two with which the process runs.
TheEnvironments ==
    {Usual,
     [Usual EXCEPT !.election = "life", !.clusterScope = FALSE, !.clusterAccess = FALSE,
                   !.watches.isvc = Watch("true", "ok")],
     [Usual EXCEPT !.config = FALSE], [Usual EXCEPT !.setup = FALSE], [Usual EXCEPT !.clusterAccess = FALSE],
     [Usual EXCEPT !.election = "unknown"], [Usual EXCEPT !.watches.csr = Watch("true", "denied")],
     [Usual EXCEPT !.sourceId = "isvc"]}

=============================================================================

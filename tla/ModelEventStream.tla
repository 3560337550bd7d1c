-------------------------- MODULE ModelEventStream --------------------------
(***************************************************************************)
(* pkg/mmesh/modelmesh_events.go: the watches on model-mesh's registries   *)
(* in etcd, one per namespace, which tell the predictor reconciler of      *)
(* changed models.  Only the service reconciler calls it, from its one     *)
(* worker.  What a watch then delivers is EtcdRangeWatcher.                *)
(*                                                                         *)
(* A watch is told by the etcd secret it reads with: on is "" when it is   *)
(* cancelled or was started with a client that is closed.                  *)
(***************************************************************************)
CONSTANTS
    Namespaces, ControllerNamespace,
    EtcdSecrets     \* of each etcd secret of the controller's namespace, its content:
                    \* connection (the connection JSON is there and parses), keys (the
                    \* other keys), embedded (of EtcdParts, those in the JSON) and files
                    \* (of EtcdParts, those in a key, and in which)

EtcdParts == {"certificate", "client_key", "client_certificate"}

ASSUME StreamAssumption ==
    \A s \in DOMAIN EtcdSecrets :
        /\ EtcdSecrets[s].connection \in BOOLEAN
        /\ EtcdSecrets[s].embedded \subseteq EtcdParts
        /\ DOMAIN EtcdSecrets[s].files \subseteq EtcdParts

VARIABLE
    stream      \* secretName, whether etcdClient is open, and watchedServices

NoWatch == [name |-> "none", on |-> ""]

\* NewModelEventStream: an entry for the controller's namespace, not watching.
StreamInit ==
    stream = [secret |-> "", open |-> FALSE,
              watches |-> [n \in Namespaces |->
                              IF n = ControllerNamespace THEN [name |-> "", on |-> ""]
                                                         ELSE NoWatch]]

Watched(n) == stream.watches[n]

\* RemoveWatchedService, if the entry is for that service.
RemoveWatchedService(name, n) ==
    IF Watched(n).name = name THEN [stream EXCEPT !.watches[n] = NoWatch] ELSE stream

\* refreshWatches for entry w.
Refreshed(w, name) == [name |-> name, on |-> IF stream.open THEN stream.secret ELSE ""]

\* UpdateWatchedService with the secret in use: a new name restarts the watch.
WatchName(name, n) ==
    IF Watched(n).name = name THEN stream
    ELSE [stream EXCEPT !.watches[n] = Refreshed(@, name)]

\* With another secret, all watches are cancelled and the client is closed ...
Cancelled(n) ==
    [stream EXCEPT !.open = FALSE,
                   !.watches = [m \in Namespaces |->
                       IF Watched(m) # NoWatch THEN [Watched(m) EXCEPT !.on = ""]
                       ELSE IF m = n THEN [name |-> "", on |-> ""] ELSE NoWatch]]

\* ... a client is made of the secret, unless a key that it refers to is missing,
\* or a client key has no certificate or a certificate no key ...
getEtcdClientConfig(c) ==
    LET given == c.embedded \cup DOMAIN c.files
    IN  /\ \A part \in DOMAIN c.files : c.files[part] \in c.keys
        /\ "client_key" \in given <=> "client_certificate" \in given

connectToEtcd(secret) ==
    /\ secret \in DOMAIN EtcdSecrets
    /\ EtcdSecrets[secret].connection
    /\ getEtcdClientConfig(EtcdSecrets[secret])

\* A slip: only the namespace at hand is watched anew.
RestartedOne(secret, name, n) ==
    [Cancelled(n) EXCEPT !.secret = secret, !.open = TRUE,
                         !.watches[n] = [name |-> name, on |-> secret]]

\* ... and if etcd can be reached with it, all are watched anew.
Restarted(secret, name, n) ==
    [secret |-> secret, open |-> TRUE,
     watches |-> [m \in Namespaces |->
                     IF m = n THEN [name |-> name, on |-> secret]
                     ELSE IF Watched(m) = NoWatch THEN NoWatch
                     ELSE [Watched(m) EXCEPT !.on = secret]]]
=============================================================================

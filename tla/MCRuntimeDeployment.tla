------------------------- MODULE MCRuntimeDeployment -------------------------
(***************************************************************************)
(* Instances of RuntimeDeployment.  Four families of runtimes, each varies *)
(* one aspect of a plain runtime, and three of configurations: the product *)
(* of all aspects would be too large, and aspects of different families do *)
(* not meet in the code except where a family combines them.               *)
(***************************************************************************)
EXTENDS RuntimeDeployment

Port == [kind |-> "port", dir |-> "-"]
Unix(d) == [kind |-> "unix", dir |-> d]
Other == [kind |-> "other", dir |-> "other"]

Number(n) == [given |-> TRUE, ok |-> TRUE, n |-> n]
NotANumber == [given |-> TRUE, ok |-> FALSE, n |-> 0]
NoNumber == [given |-> FALSE, ok |-> TRUE, n |-> 0]

C(n, ms) == [name |-> n, mounts |-> ms, flaw |-> FALSE]

Plain ==
    [containers |-> <<C("srv", <<>>)>>, volumes |-> <<>>, adapter |-> "", helper |-> TRUE,
     data |-> Port, mgmt |-> Port, terms |-> <<>>, labels |-> {}, pullSecrets |-> <<"s2", "s1">>,
     adapterEnv |-> <<>>, productConfig |-> "none", multiModel |-> TRUE, disabled |-> FALSE,
     replicas |-> {},
     ann |-> [class |-> "absent", metric |-> "absent", target |-> NoNumber, min |-> NoNumber, max |-> NoNumber]]

MCPVCOrder == <<"pvc-a", "pvc-b", "pvc-c", "pvc-d">>

\* Containers, their mounts, sockets, sidecars.
Endings == {NoEndpoint, Port, Unix("d1"), Unix("d2"), Other}

ContainerLists ==
    {<<>>, <<C("srv", <<>>)>>, <<C("srv", <<"data">>)>>, <<C("srv", <<>>), C("aux", <<"data">>)>>,
     <<C("srv", <<"data">>), C("aux", <<"data", "more">>)>>, <<C("srv", <<"data">>), C("srv", <<>>)>>,
     <<C("srv", <<"data", "more">>), C("aux", <<"more">>)>>}

Shapes ==
    {[Plain EXCEPT !.containers = cs, !.volumes = <<"data", "more">>, !.adapter = a, !.helper = h,
                   !.data = d, !.mgmt = m] :
       cs \in ContainerLists, a \in {"", "srv"}, h \in BOOLEAN, d \in Endings \ {Unix("d2")}, m \in Endings}

\* What the validator looks at.
Invalid ==
    {[Plain EXCEPT !.containers = <<C(n, <<v>>)>>, !.volumes = <<w, "data">>] :
       n \in {"srv", "mm", "mm-reserved"}, v \in {"data", "etcd-config", "models-dir"},
       w \in {"more", "models-dir", "tls-certs"}}
    \cup {[Plain EXCEPT !.adapter = "aux"], [Plain EXCEPT !.containers[1].flaw = TRUE],
          [Plain EXCEPT !.disabled = TRUE], [Plain EXCEPT !.multiModel = FALSE],
          [Plain EXCEPT !.productConfig = "missing"], [Plain EXCEPT !.productConfig = "found"],
          [Plain EXCEPT !.terms = <<"gpu">>, !.labels = {"team"}], [Plain EXCEPT !.labels = {"name"}],
          [Plain EXCEPT !.volumes = <<"data", "data">>], [Plain EXCEPT !.containers[1].mounts = <<"more">>],
          [Plain EXCEPT !.adapter = "srv", !.adapterEnv = <<"RUNTIME_PORT", "EXTRA">>]}

\* Annotations of the autoscaler.
Numbers == {NoNumber, NotANumber, Number(0), Number(1), Number(2), Number(3), Number(Int32Max + 1)}

Scaled ==
    {[Plain EXCEPT !.ann = [class |-> c, metric |-> m, target |-> t, min |-> lo, max |-> hi], !.replicas = r] :
       c \in {"absent", "hpa", "none"}, m \in {"absent", "memory", "other"},
       t \in {NoNumber, Number(101)}, lo \in Numbers, hi \in Numbers,
       r \in {{}, {1}}}

Base ==
    [proxy |-> FALSE, tls |-> "off", clientAuth |-> FALSE, extraEnv |-> <<>>, renders |-> TRUE,
     labels |-> {}, pullSecrets |-> <<"s1">>, allowAnyPVC |-> TRUE, storage |-> {},
     predictorPVCs |-> {}, existing |-> {"pvc-b", "pvc-c"}, builtInTypes |-> {"srv"}]

PVC(n) == [type |-> "pvc", name |-> n]

\* Volume claims: none and up to four of them, from the secret and from Predictors.
Claimed ==
    {[Base EXCEPT !.storage = s, !.predictorPVCs = p] :
       s \in {{}, {PVC("pvc-a"), PVC("pvc-b")}, {PVC("pvc-a"), [type |-> "s3", name |-> ""]},
              {PVC("pvc-c"), [type |-> "pvc", name |-> ""], [type |-> "", name |-> "pvc-a"]}},
       p \in {{}, {"pvc-b"}, {"pvc-a", "pvc-b", "pvc-c"}}}
    \cup {[Base EXCEPT !.predictorPVCs = Range(MCPVCOrder), !.existing = Range(MCPVCOrder)]}

\* The rest of the configuration.
Served ==
    {[Base EXCEPT !.proxy = r, !.tls = t, !.clientAuth = a, !.extraEnv = e] :
       r \in BOOLEAN, t \in {"off", "missing", "cert"}, a \in BOOLEAN,
       e \in {<<>>, <<"MM_LABELS", "KV_STORE", "INTERNAL_GRPC_PORT", "MM_KVSTORE_PREFIX">>}}

Clusters ==
    Claimed \cup Served
    \cup {[Base EXCEPT !.renders = FALSE], [Base EXCEPT !.allowAnyPVC = FALSE, !.predictorPVCs = {"pvc-b"}],
          [Base EXCEPT !.builtInTypes = {}], [Base EXCEPT !.labels = {"team"}]}

\* Claims meet the shapes of runtimes in the containers' mounts; sidecars and certificates meet
\* sockets only.
Sockets == {r \in Shapes : r.containers = <<C("srv", <<"data">>)>>}

MCCases == (Shapes \X Claimed) \cup (Sockets \X Clusters) \cup (Invalid \X Served) \cup (Scaled \X {Base})
=============================================================================

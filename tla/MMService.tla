----------------------------- MODULE MMService -----------------------------
(***************************************************************************)
(* pkg/mmesh/modelmesh_service.go: what the controller keeps about the     *)
(* model-mesh service of a namespace: the settings it was last given,      *)
(* whether its client has to be replaced, and the client, which is told by *)
(* the settings it was made with.  Settings are name, tls, headless and    *)
(* ports; of ports (REST proxy and metrics) the client only takes the REST *)
(* endpoint it reports.                                                    *)
(***************************************************************************)

NoClient == [name |-> "none"]

\* MMServiceMap has no entry.
NoService == [name |-> "none"]

\* The fields of configuration c that an MMService takes over.
Settings(c) == [name |-> c.name, tls |-> c.tls, headless |-> c.headless, ports |-> c.ports]

\* NewMMService.
NewMMService ==
    [settings |-> [name |-> "", tls |-> "", headless |-> FALSE, ports |-> "none"],
     reconnect |-> FALSE, client |-> NoClient]

\* UpdateConfig: which changes need a new client.
ClientChange(old, new) ==
    old.name # new.name \/ old.tls # new.tls \/ old.headless # new.headless

UpdateConfig(mms, c) ==
    [mms EXCEPT !.settings = Settings(c),
                !.reconnect = @ \/ ClientChange(mms.settings, Settings(c))]

\* UpdateConfig's second result.
Changed(mms, c) == mms.settings # Settings(c)

Connected(mms) == mms.client # NoClient

Disconnect(mms) == [mms EXCEPT !.client = NoClient]

\* ConnectIfNeeded: the settings are taken in one critical section ...
ConnectNeeded(mms) == ~ Connected(mms) \/ mms.reconnect
TakeSettings(mms) == [mms EXCEPT !.reconnect = FALSE]

\* A slip: the mark stays cleared.
DialForgotten(mms) == mms

\* ... and a failed call to dial sets the mark again, which a TLS secret that
\* cannot be read does not.
DialFailed(mms) == [mms EXCEPT !.reconnect = TRUE]
TLSFailed(mms) == mms

\* A client for settings s takes the place of the old one.
Dialled(mms, s) == [Disconnect(mms) EXCEPT !.client = s]
=============================================================================

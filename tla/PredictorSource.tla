-------------------------- MODULE PredictorSource --------------------------
(***************************************************************************)
(* pkg/predictor_source/predictor_source.go: what the interfaces           *)
(* PredictorSource and PredictorRegistry promise to the controllers, from  *)
(* the start of the process on.  "An event should be produced for every    *)
(* Predictor upon starting, and subsequently each time any Predictor is    *)
(* added, has its Spec modified, or is deleted."                           *)
(***************************************************************************)
EXTENDS Naturals

CONSTANT Names

VARIABLES
    known,      \* name -> the version of the spec that Get answers, 0 for no Predictor
    seen,       \* name -> what Get answered when the name was last reconciled
    events      \* the names for which an event is on its way

svars == <<known, seen, events>>

Init ==
    /\ known = [n \in Names |-> 0]
    /\ seen = known
    /\ events = {}

\* Get's answer changes: the event follows.
Change(n) ==
    /\ known'[n] \in Nat \ {known[n]}
    /\ known' = [known EXCEPT ![n] = known'[n]]
    /\ events' = events \cup {n}
    /\ UNCHANGED seen

\* There may be more events than changes.
Announce(n) ==
    /\ events' = events \cup {n}
    /\ UNCHANGED <<known, seen>>

\* An event arrives and the name is reconciled; another may be behind it.
Deliver(n) ==
    /\ n \in events
    /\ seen' = [seen EXCEPT ![n] = known[n]]
    /\ \/ events' = events \ {n}
       \/ UNCHANGED events
    /\ UNCHANGED known

\* The process starts again, with nothing known.
Restart ==
    /\ known' = [n \in Names |-> 0]
    /\ seen' = known'
    /\ events' = {}

Next ==
    \/ \E n \in Names : Change(n) \/ Announce(n) \/ Deliver(n)
    \/ Restart

Spec == Init /\ [][Next]_svars
=============================================================================

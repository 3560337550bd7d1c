------------------------ MODULE PredictorRepository ------------------------
(***************************************************************************)
(* The remote repository of Predictors behind a plugin predictor source,   *)
(* as the PredictorWatcher and PredictorStatusUpdater interfaces of        *)
(* pkg/predictor_source describe it: every committed change gets the next  *)
(* resource version, a watch replays the changes in that order, a status   *)
(* update is conditional on the resource version.  The repository itself   *)
(* is not part of the program; only its contract is modelled here.         *)
(***************************************************************************)
EXTENDS Naturals, Sequences

CONSTANTS
    Names,          \* the namespaced names of Predictors
    MaxRev,         \* bound: how many changes the repository commits
    Finalizers,     \* a deletion is announced by an UPDATE with a DeletionTimestamp first
    DeleteStamps    \* may a DELETE event's object carry a DeletionTimestamp (subset of BOOLEAN)

ASSUME RepositoryAssumption ==
    /\ MaxRev \in Nat
    /\ Finalizers \in BOOLEAN
    /\ DeleteStamps \in SUBSET BOOLEAN

VARIABLES
    log,        \* the committed changes; the index is the resource version
    registry    \* the current objects, Absent where there is none

repositoryVars == <<log, registry>>

-----------------------------------------------------------------------------
\* A Predictor: its resource version, the version its spec was last written at,
\* and whether its DeletionTimestamp is set.
Object == [rv : Nat, gen : Nat, del : BOOLEAN]

\* No Predictor: a nil pointer, or a name that a map does not hold.
Absent == [rv |-> 0, gen |-> 0, del |-> FALSE]

Present(o) == o.rv # 0

\* deletedPredictor(): what stands for a name found missing at version rv.
Tombstone(rv) == [rv |-> rv, gen |-> 0, del |-> TRUE]

\* o rewritten at version rv with its spec as it is, stamped as deleted or not.
Rewritten(o, rv, stamped) == [rv |-> rv, gen |-> o.gen, del |-> o.del \/ stamped]

Rev == Len(log)

Change == [name : Names, kind : {"UPDATE", "DELETE"}, obj : Object]

RepositoryTypeOK ==
    /\ log \in Seq(Change)
    /\ registry \in [Names -> Object]

-----------------------------------------------------------------------------
RepositoryInit ==
    /\ log = <<>>
    /\ registry = [n \in Names |-> Absent]

Commit(n, kind, o) ==
    /\ Rev < MaxRev
    /\ log' = Append(log, [name |-> n, kind |-> kind, obj |-> o])
    /\ registry' = [registry EXCEPT ![n] = IF kind = "DELETE" THEN Absent ELSE o]

\* Somebody creates the Predictor or modifies its spec.
SetPredictor(n) ==
    Commit(n, "UPDATE", [rv |-> Rev + 1, gen |-> Rev + 1, del |-> registry[n].del])

\* Somebody asks to delete a Predictor that has finalizers: it stays, stamped.
MarkDeleted(n) ==
    /\ Finalizers
    /\ Present(registry[n])
    /\ ~ registry[n].del
    /\ Commit(n, "UPDATE", Rewritten(registry[n], Rev + 1, TRUE))

\* The Predictor goes away.
DeletePredictor(n) ==
    /\ Present(registry[n])
    /\ Finalizers => registry[n].del
    /\ \E stamped \in DeleteStamps :
         Commit(n, "DELETE", Rewritten(registry[n], Rev + 1, stamped))

\* The status write of a conditional update that succeeds: the spec is unchanged.
WriteStatus(n) ==
    Commit(n, "UPDATE", Rewritten(registry[n], Rev + 1, FALSE))

RepositoryStep ==
    \E n \in Names : SetPredictor(n) \/ MarkDeleted(n) \/ DeletePredictor(n)
=============================================================================

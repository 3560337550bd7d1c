----------------------- MODULE StreamPredictorSource -----------------------
(***************************************************************************)
(* pkg/predictor_source/stream_predictor_source.go: a predictor source     *)
(* whose repository sends every change into a channel.  When a stream is   *)
(* opened it sends every Predictor there is.  StartWatch takes events      *)
(* until none has come for half a second; a goroutine goes on from there.  *)
(***************************************************************************)
EXTENDS CachedPredictorSource, FiniteSets

VARIABLES
    inChan,     \* the changes that the repository has to send
    pc,         \* what the goroutine, or StartWatch before it, does
    initial,    \* initialEvents: those that outChan had no room for
    event       \* the event to be written

streamVars == <<inChan, pc, initial, event>>

StreamInit ==
    /\ inChan = << >>
    /\ pc = "none"
    /\ initial = << >>
    /\ event = NoName

StreamTypeOK ==
    /\ inChan \in Seq(Change)
    /\ pc \in {"none", "start", "initial", "read", "write"}
    /\ initial \in Seq(Names \cup {NoName})
    /\ event \in Names \cup {NoName}

-----------------------------------------------------------------------------
(* The repository's end *)

\* A new stream for StartWatch: the Predictors that there are, in any order.
OpenStream ==
    LET there == {n \in Names : Present(registry[n])} IN
    \E order \in [1 .. Cardinality(there) -> there] :
        /\ \A i, j \in DOMAIN order : i # j => order[i] # order[j]
        /\ inChan' = [i \in DOMAIN order |->
                         [name |-> order[i], kind |-> "UPDATE", obj |-> registry[order[i]]]]

\* What has been committed is sent.
Sent == IF pc = "none" THEN inChan ELSE Append(inChan, log'[Len(log')])

-----------------------------------------------------------------------------
\* processEvent: the lock is taken, and kept.  It yields an event if the cache
\* takes the object.
ProcessEvent(c) ==
    /\ Offer(c.name, c.obj)
    /\ lockHeld' = TRUE

Taken(c) == Newer(cache[c.name], c.obj)

\* StartWatch takes an event.  The first that finds outChan full is put behind
\* as many blank ones as outChan holds, and all later ones behind it.
InitialEvent ==
    /\ pc = "start"
    /\ inChan # << >>
    /\ inChan' = Tail(inChan)
    /\ ProcessEvent(Head(inChan))
    /\ \/ /\ ~ Taken(Head(inChan))
          /\ UNCHANGED <<outChan, initial>>
       \/ /\ Taken(Head(inChan))
          /\ initial = << >> /\ Len(outChan) < Cap
          /\ outChan' = Append(outChan, Head(inChan).name)
          /\ UNCHANGED initial
       \/ /\ Taken(Head(inChan))
          /\ initial = << >> /\ Len(outChan) = Cap
          /\ initial' = Append([i \in 1 .. Cap |-> NoName], Head(inChan).name)
          /\ UNCHANGED outChan
       \/ /\ Taken(Head(inChan))
          /\ initial # << >>
          /\ initial' = Append(initial, Head(inChan).name)
          /\ UNCHANGED outChan
    /\ UNCHANGED <<pc, event>>

\* Half a second without an event: StartWatch returns, the goroutine begins.
InitialQuiet ==
    /\ pc = "start"
    /\ inChan = << >>
    /\ pc' = "initial"
    /\ UNCHANGED <<inChan, initial, event, cacheVars, lockHeld, outChan>>

\* It sends the initial events, which blocks as long as outChan is full: with
\* the lock held, if an event has been processed at all.
SendInitial ==
    /\ pc = "initial"
    /\ IF initial = << >>
         THEN pc' = "read" /\ UNCHANGED <<outChan, initial>>
         ELSE /\ Len(outChan) < Cap
              /\ outChan' = Append(outChan, Head(initial))
              /\ initial' = Tail(initial)
              /\ UNCHANGED pc
    /\ UNCHANGED <<inChan, event, cacheVars, lockHeld>>

\* readEvent finds one, and it is processed.
ReadEvent ==
    /\ pc = "read"
    /\ inChan # << >>
    /\ inChan' = Tail(inChan)
    /\ ProcessEvent(Head(inChan))
    /\ IF Taken(Head(inChan)) THEN pc' = "write" /\ event' = Head(inChan).name
                              ELSE UNCHANGED <<pc, event>>
    /\ UNCHANGED <<initial, outChan>>

\* readEvent finds none: deletions are pruned and the lock is given up.
ReadNothing ==
    /\ pc = "read"
    /\ inChan = << >>
    /\ lockHeld
    /\ PruneDeletions
    /\ lockHeld' = FALSE
    /\ UNCHANGED <<streamVars, outChan>>

\* writeEvent.
WriteEvent ==
    /\ pc = "write"
    /\ Len(outChan) < Cap
    /\ outChan' = Append(outChan, event)
    /\ pc' = "read"
    /\ event' = NoName
    /\ UNCHANGED <<inChan, initial, cacheVars, lockHeld>>

\* A slip: an event that finds the channel full is dropped.
WriteDrops ==
    /\ pc = "write"
    /\ Len(outChan) = Cap
    /\ lockHeld
    /\ pc' = "read"
    /\ event' = NoName
    /\ UNCHANGED <<inChan, initial, cacheVars, lockHeld, outChan>>

\* A slip: the lock is kept while the write waits.
WriteWaits ==
    /\ pc = "write"
    /\ Len(outChan) = Cap
    /\ lockHeld
    /\ UNCHANGED <<streamVars, cacheVars, lockHeld, outChan>>

\* The channel is full: the lock is given up to wait.
WriteBlocks ==
    /\ pc = "write"
    /\ Len(outChan) = Cap
    /\ lockHeld
    /\ lockHeld' = FALSE
    /\ UNCHANGED <<streamVars, cacheVars, outChan>>

SourceStep ==
    \/ InitialEvent \/ InitialQuiet \/ SendInitial
    \/ ReadEvent \/ ReadNothing \/ WriteEvent \/ WriteBlocks
=============================================================================

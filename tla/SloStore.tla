------------------------------ MODULE SloStore ------------------------------
(* The cache of SLO CRs of slo_store.py and the watch thread that keeps it. *)
(* A session lists what the API server holds and then streams what changes; *)
(* it ends on its own after five minutes, on an ERROR event or on an        *)
(* exception, and whatever it had not delivered is lost with it.            *)
(*                                                                          *)
(* The API server, its authors and the watch client are external: they are  *)
(* modelled by what SLOStore asks of them.  An id stands for the pair       *)
(* (namespace, spec.serviceId); NoId for a CR that lacks either.            *)
EXTENDS Naturals, Sequences, FiniteSets

CONSTANTS
  Objects,        \* the names a CR may have in the cluster
  IdsOf,          \* the ids an author may write into each of them
  NoId,
  None,
  BackoffInitial, \* _BACKOFF_INITIAL
  BackoffMax,     \* _BACKOFF_MAX
  MaxEdits,       \* bound: what authors do to the CRs in one behaviour
  MaxFaults       \* bound: the sessions that end with an exception

Keys == (UNION {IdsOf[o] : o \in Objects}) \ {NoId}

ASSUME StoreAssumption ==
  /\ None \notin [id : Keys \cup {NoId}, rev : Nat]
  /\ BackoffInitial \in Nat \ {0} /\ BackoffMax \in Nat
  /\ BackoffInitial <= BackoffMax
  /\ MaxEdits \in Nat /\ MaxFaults \in Nat

Specs == [id : Keys \cup {NoId}, rev : 0 .. MaxEdits]
Events == [type : {"ADDED", "MODIFIED", "DELETED"}, spec : Specs]

VARIABLES
  api,      \* what the API server holds under each name; None: no such CR
  edits,    \* how many edits the authors have made
  listing,  \* what the open session has still to deliver of its initial list
  feed,     \* the changes it has still to deliver, in their order
  pc,       \* where the watch thread is
  crs,      \* _crs: the spec cached under each id
  synced,   \* _synced
  backoff,  \* the local variable of _run
  stopping, \* _stop
  faults    \* how many sessions ended with an exception

apiVars == <<api, edits>>
session == <<listing, feed>>
vars == <<apiVars, session, pc, crs, synced, backoff, stopping, faults>>

Init ==
  /\ api \in [Objects -> {None} \cup {sp \in Specs : sp.rev = 0}]
  /\ \A o \in Objects : api[o] # None => api[o].id \in IdsOf[o]
  /\ edits = 0 /\ listing = {} /\ feed = <<>>
  /\ pc = "connecting"
  /\ crs = [k \in Keys |-> None]
  /\ synced = FALSE /\ stopping = FALSE
  /\ backoff = BackoffInitial /\ faults = 0

-----------------------------------------------------------------------------
(* The cluster.                                                             *)

Happens(event) ==
  /\ edits' = edits + 1
  /\ feed' = IF pc = "streaming" THEN Append(feed, event) ELSE feed
  /\ UNCHANGED <<listing, pc, crs, synced, backoff, stopping, faults>>

\* An author applies a CR; the id of an existing one may change.
Write(o) ==
  /\ edits < MaxEdits
  /\ \E id \in IdsOf[o] :
       LET spec == [id |-> id, rev |-> edits + 1]
       IN  /\ api' = [api EXCEPT ![o] = spec]
           /\ Happens([type |-> IF api[o] = None THEN "ADDED" ELSE "MODIFIED",
                       spec |-> spec])

Delete(o) ==
  /\ edits < MaxEdits
  /\ api[o] # None
  /\ api' = [api EXCEPT ![o] = None]
  /\ Happens([type |-> "DELETED", spec |-> api[o]])

-----------------------------------------------------------------------------
(* The watch thread.                                                        *)

\* A new session starts from an empty cache.
FaultyConnectClears ==
  /\ pc = "connecting" /\ ~stopping
  /\ pc' = "streaming"
  /\ listing' = {api[o] : o \in {p \in Objects : api[p] # None}}
  /\ feed' = <<>>
  /\ crs' = [k \in Keys |-> None]
  /\ UNCHANGED <<apiVars, synced, backoff, stopping, faults>>

\* A synced store resumes with what happens next, without a list.
FaultyConnectResumes ==
  /\ pc = "connecting" /\ ~stopping
  /\ pc' = "streaming"
  /\ listing' = {api[o] : o \in {p \in Objects : api[p] # None /\ ~synced}}
  /\ feed' = <<>>
  /\ UNCHANGED <<apiVars, crs, synced, backoff, stopping, faults>>

\* The stream call: no resourceVersion is passed, so that the server opens it
\* with an ADDED for whatever exists.
Connect ==
  /\ pc = "connecting" /\ ~stopping
  /\ pc' = "streaming"
  /\ listing' = {api[o] : o \in {p \in Objects : api[p] # None}}
  /\ feed' = <<>>
  /\ UNCHANGED <<apiVars, crs, synced, backoff, stopping, faults>>

\* A change is taken for a repetition of what is cached.
FaultyUpdatedKeepsFirst(event) ==
  LET k == event.spec.id
  IN  IF k = NoId \/ (event.type = "MODIFIED" /\ crs[k] # None) THEN crs
      ELSE [crs EXCEPT ![k] = IF event.type = "DELETED" THEN None
                                                        ELSE event.spec]

\* The effect of an event on the cache.
Updated(event) ==
  LET k == event.spec.id
  IN  IF k = NoId THEN crs
      ELSE [crs EXCEPT ![k] = IF event.type = "DELETED" THEN None
                                                        ELSE event.spec]

\* Any event, the first of the list included, is taken for contact.
FaultyApplySyncsOnAny(event) ==
  /\ pc = "streaming" /\ ~stopping
  /\ synced' = TRUE
  /\ crs' = Updated(event)
  /\ UNCHANGED <<apiVars, pc, backoff, stopping, faults>>

Apply(event) ==
  /\ pc = "streaming" /\ ~stopping
  /\ synced' = (synced \/ event.type # "ADDED")
  /\ crs' = Updated(event)
  /\ UNCHANGED <<apiVars, pc, backoff, stopping, faults>>

DeliverListed ==
  \E spec \in listing :
    /\ Apply([type |-> "ADDED", spec |-> spec])
    /\ listing' = listing \ {spec}
    /\ UNCHANGED feed

DeliverChange ==
  /\ listing = {} /\ feed # <<>>
  /\ Apply(Head(feed))
  /\ feed' = Tail(feed)
  /\ UNCHANGED listing

\* The server sends bookmarks when it likes, after the list.
Bookmark ==
  /\ pc = "streaming" /\ ~stopping
  /\ listing = {}
  /\ synced' = TRUE
  /\ UNCHANGED <<apiVars, session, pc, crs, backoff, stopping, faults>>

SessionOver == pc' = "waiting" /\ listing' = {} /\ feed' = <<>>

\* timeout_seconds: five minutes, far longer than a list takes.
SessionEnds ==
  /\ pc = "streaming" /\ listing = {}
  /\ SessionOver
  /\ backoff' = BackoffInitial
  /\ UNCHANGED <<apiVars, crs, synced, stopping, faults>>

Fails ==
  /\ faults < MaxFaults
  /\ SessionOver
  /\ faults' = faults + 1
  /\ UNCHANGED <<apiVars, crs, backoff, stopping>>

\* An ERROR event can only follow the list: it syncs, then raises.
ErrorEvent ==
  /\ pc = "streaming" /\ ~stopping
  /\ listing = {}
  /\ synced' = TRUE
  /\ Fails

\* The stream raises: no server, no CRD, a broken connection, at any point.
StreamRaises ==
  /\ pc \in {"connecting", "streaming"}
  /\ Fails
  /\ UNCHANGED synced

\* The wait doubles without end.
FaultyRetryUncapped ==
  /\ pc = "waiting" /\ ~stopping
  /\ pc' = "connecting"
  /\ backoff' = 2 * backoff
  /\ UNCHANGED <<apiVars, session, crs, synced, stopping, faults>>

\* The end of the wait between two sessions.
Retry ==
  /\ pc = "waiting" /\ ~stopping
  /\ pc' = "connecting"
  /\ backoff' = IF 2 * backoff < BackoffMax THEN 2 * backoff ELSE BackoffMax
  /\ UNCHANGED <<apiVars, session, crs, synced, stopping, faults>>

Stop ==
  /\ ~stopping
  /\ stopping' = TRUE
  /\ UNCHANGED <<apiVars, session, pc, crs, synced, backoff, faults>>

\* A stopping thread leaves at its next event, or at the loop's next test.
Exit ==
  /\ stopping /\ pc # "stopped"
  /\ pc' = "stopped" /\ listing' = {} /\ feed' = <<>>
  /\ UNCHANGED <<apiVars, crs, synced, backoff, stopping, faults>>

-----------------------------------------------------------------------------
Next ==
  \/ \E o \in Objects : Write(o) \/ Delete(o)
  \/ Connect
  \/ DeliverListed
  \/ DeliverChange
  \/ Bookmark
  \/ SessionEnds
  \/ ErrorEvent
  \/ StreamRaises
  \/ Retry
  \/ Stop
  \/ Exit

\* The thread runs, the server answers with its list, and no session outlives
\* its timeout.  Nothing obliges the server to send a bookmark or a change.
Fairness ==
  /\ WF_vars(Connect) /\ WF_vars(DeliverListed)
  /\ WF_vars(SessionEnds) /\ WF_vars(Retry)

Spec == Init /\ [][Next]_vars /\ Fairness

-----------------------------------------------------------------------------
(* Properties.                                                              *)

Holders(k) == {o \in Objects : api[o] # None /\ api[o].id = k}

\* CRs whose id no other name may carry; two CRs under one id overwrite and
\* delete each other's entry, so that they are told apart.
Owners ==
  {o \in Objects :
     /\ api[o] # None
     /\ api[o].id \in Keys
     /\ \A p \in Objects \ {o} : api[o].id \notin IdsOf[p]}

Cached(o) == crs[api[o].id] = api[o]

TypeOK ==
  /\ api \in [Objects -> Specs \cup {None}] /\ edits \in 0 .. MaxEdits
  /\ listing \subseteq Specs /\ feed \in Seq(Events)
  /\ pc \in {"connecting", "streaming", "waiting", "stopped"}
  /\ crs \in [Keys -> Specs \cup {None}]
  /\ synced \in BOOLEAN /\ stopping \in BOOLEAN
  /\ backoff \in BackoffInitial .. BackoffMax
  /\ faults \in 0 .. MaxFaults

\* Once an open session has nothing left to deliver, the cache holds the
\* current spec of every CR: whatever was written while no session was open,
\* or was in flight when one broke, has been caught up with (slo_store.py:126-186).
CacheKeepsUp ==
  pc = "streaming" /\ listing = {} /\ feed = <<>>
    => \A o \in Owners : Cached(o)

\* When synced turns on, and with it the first tick, the cache is not half a
\* list: only a CR whose own change is still in flight may be missing
\* (slo_store.py:149-165, and tests/test_slo_store.py:84).  Two older
\* sentences of the file contradict this and the code: synced is "set after
\* first watch event of any kind" (:48) and for wait_synced "Any event counts"
\* (:86), which is what FaultyApplySyncsOnAny does.
FirstSyncIsComplete ==
  [][~synced /\ synced' =>
       \A o \in Owners :
         \/ Cached(o)
         \/ \E i \in DOMAIN feed : feed[i].spec.id = api[o].id]_vars

\* "Cached CRs stay usable across reconnects": a spec once cached stays while
\* the CR is not edited, through lost sessions, new lists and late events.
StaysUsable ==
  [][\A o \in Owners : Cached(o) /\ api'[o] = api[o] => Cached(o)']_vars

\* Once the authors leave the CRs alone, every id in use is cached for good
\* with the spec of a CR that carries it, even where several CRs shared it and
\* the deletion of one emptied the entry: the next session lists the others.
EveryLiveKeyCached ==
  <>[](\/ stopping
       \/ \A k \in Keys :
            Holders(k) # {} => crs[k] \in {api[o] : o \in Holders(k)})

\* openapi.yaml: "Deleting the CR removes the service from the next list."
\* An id that no CR carries any more leaves the cache for good.
DeletedCRsLeave ==
  \A k \in Keys :
    <>[](Holders(k) = {}) => <>[](stopping \/ crs[k] = None)

=============================================================================

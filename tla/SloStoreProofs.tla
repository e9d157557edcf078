--------------------------- MODULE SloStoreProofs ---------------------------
(***************************************************************************)
(* The CR cache against its watch sessions, for any CRs, ids, edits and    *)
(* faults.  The inductive invariant says what an open session still owes   *)
(* the cache of a CR whose id is its own.                                  *)
(***************************************************************************)
EXTENDS SloStore, SequenceTheorems, TLAPS

\* What is left in the feed of an owner's id, a deletion of it included.
Mine(o) == {i \in DOMAIN feed : feed[i].spec.id = api[o].id}

\* An edit gets a number that no spec has yet.
Numbered ==
  /\ \A o \in Objects : api[o] # None => api[o].id \in IdsOf[o] /\ api[o].rev <= edits
  /\ \A sp \in listing : sp.rev <= edits
  /\ \A i \in DOMAIN feed : feed[i].spec.rev <= edits
  /\ \A k \in Keys : crs[k] # None => crs[k].rev <= edits

\* With the current spec cached, or about to be listed, nothing else is under
\* way to the owner's id.
Quiet(o) ==
  Cached(o) \/ api[o] \in listing =>
    Mine(o) = {} /\ \A sp \in listing : sp.id = api[o].id => sp = api[o]

\* The current spec is the last that the feed says of the id.
Latest(o) ==
  \A i \in Mine(o) :
    feed[i].spec = api[o] => feed[i].type # "DELETED" /\ \A j \in Mine(o) : j <= i

\* An open session still has the current spec, when the cache does not.
Owed(o) ==
  pc = "streaming" =>
    \/ Cached(o) \/ api[o] \in listing
    \/ \E i \in DOMAIN feed : feed[i].spec = api[o]

Settling(o) == Quiet(o) /\ Latest(o) /\ Owed(o)

IInv == TypeOK /\ Numbered /\ \A o \in Owners : Settling(o)

(***************************************************************************)
(* Types.                                                                  *)
(***************************************************************************)
LEMMA InitType == Init => TypeOK
<1> SUFFICES ASSUME Init PROVE TypeOK
  OBVIOUS
<1>1. api \in [Objects -> Specs \cup {None}]
  BY DEF Init
<1>2. feed \in Seq(Events)
  BY EmptySeq DEF Init
<1>3. backoff \in BackoffInitial .. BackoffMax /\ faults \in 0..MaxFaults /\ edits \in 0..MaxEdits
  BY StoreAssumption DEF Init
<1> QED BY <1>1, <1>2, <1>3 DEF Init, TypeOK

LEMMA UpdatedType ==
  ASSUME TypeOK, NEW event \in Events
  PROVE  Updated(event) \in [Keys -> Specs \cup {None}]
<1>1. event.spec \in Specs /\ event.spec.id \in Keys \cup {NoId} /\ NoId \notin Keys
  BY DEF Events, Specs, Keys
<1> QED BY <1>1 DEF Updated, TypeOK

LEMMA ListedEvent ==
  ASSUME TypeOK, NEW spec \in listing
  PROVE  [type |-> "ADDED", spec |-> spec] \in Events
BY DEF TypeOK, Events

LEMMA FeedFacts ==
  ASSUME TypeOK
  PROVE  /\ DOMAIN feed = 1..Len(feed) /\ Len(feed) \in Nat
         /\ \A i \in DOMAIN feed : feed[i] \in Events /\ feed[i].spec \in Specs
         /\ feed # <<>> => /\ Head(feed) = feed[1] /\ 1 \in DOMAIN feed
                           /\ Tail(feed) \in Seq(Events)
                           /\ DOMAIN Tail(feed) = 1..(Len(feed) - 1)
                           /\ \A i \in DOMAIN Tail(feed) :
                                i + 1 \in DOMAIN feed /\ Tail(feed)[i] = feed[i + 1]
<1>1. feed \in Seq(Events)
  BY DEF TypeOK
<1>2. DOMAIN feed = 1..Len(feed) /\ Len(feed) \in Nat /\ \A i \in DOMAIN feed : feed[i] \in Events
  BY <1>1
<1>3. ASSUME feed # <<>>
      PROVE  /\ Head(feed) = feed[1] /\ Len(feed) >= 1 /\ Tail(feed) \in Seq(Events)
             /\ Len(Tail(feed)) = Len(feed) - 1
             /\ \A i \in 1..(Len(feed) - 1) : Tail(feed)[i] = feed[i + 1]
  BY <1>1, <1>3, HeadTailProperties, EmptySeq
<1> QED BY <1>1, <1>2, <1>3 DEF Events

LEMMA AppendFacts ==
  ASSUME TypeOK, NEW event \in Events, Happens(event)
  PROVE  /\ feed' \in Seq(Events)
         /\ DOMAIN feed \subseteq DOMAIN feed'
         /\ \A i \in DOMAIN feed : feed'[i] = feed[i]
         /\ \A i \in DOMAIN feed' \ DOMAIN feed : feed'[i] = event
         /\ \A i \in DOMAIN feed' \ DOMAIN feed : \A j \in DOMAIN feed' : j <= i
         /\ pc = "streaming" => \E i \in DOMAIN feed' : feed'[i] = event
<1>1. feed \in Seq(Events)
  BY DEF TypeOK
<1>2. CASE pc = "streaming"
  <2>1. feed' = Append(feed, event)
    BY <1>2 DEF Happens
  <2>2. /\ feed' \in Seq(Events) /\ Len(feed') = Len(feed) + 1 /\ Len(feed) \in Nat
        /\ \A i \in 1..Len(feed) : feed'[i] = feed[i]
        /\ feed'[Len(feed) + 1] = event
    BY <1>1, <2>1, AppendProperties
  <2>3. DOMAIN feed = 1..Len(feed) /\ DOMAIN feed' = 1..(Len(feed) + 1)
    BY <1>1, <2>2
  <2> QED BY <2>2, <2>3
<1>3. CASE pc # "streaming"
  BY <1>1, <1>3 DEF Happens
<1> QED BY <1>2, <1>3

LEMMA OwnerFacts ==
  ASSUME TypeOK, NEW o \in Owners
  PROVE  /\ o \in Objects /\ api[o] \in Specs /\ api[o] # None
         /\ api[o].id \in Keys /\ api[o].id # NoId
         /\ \A p \in Objects \ {o} : api[o].id \notin IdsOf[p]
BY DEF Owners, TypeOK, Keys

(***************************************************************************)
(* The authors.                                                            *)
(***************************************************************************)

\* An edit of one CR: its name, what it holds now and the event it causes.
Edit(p, x, event) ==
  /\ p \in Objects /\ edits < MaxEdits
  /\ x \in Specs \cup {None} /\ event \in Events /\ event.spec.id \in IdsOf[p]
  /\ event.spec.rev <= edits + 1
  /\ x # None => x.id \in IdsOf[p] /\ x.rev = edits + 1
                 /\ event.spec = x /\ event.type # "DELETED"
  /\ api' = [api EXCEPT ![p] = x]
  /\ Happens(event)

LEMMA EditCases ==
  ASSUME TypeOK, Numbered, NEW p \in Objects, Write(p) \/ Delete(p)
  PROVE  \E x, event : Edit(p, x, event)
<1>1. edits \in 0..MaxEdits /\ MaxEdits \in Nat
  BY StoreAssumption DEF TypeOK
<1>2. CASE Write(p)
  <2>1. PICK id \in IdsOf[p] :
          LET spec == [id |-> id, rev |-> edits + 1]
          IN  /\ api' = [api EXCEPT ![p] = spec]
              /\ Happens([type |-> IF api[p] = None THEN "ADDED" ELSE "MODIFIED",
                          spec |-> spec])
    BY <1>2 DEF Write
  <2> DEFINE spec == [id |-> id, rev |-> edits + 1]
             event == [type |-> IF api[p] = None THEN "ADDED" ELSE "MODIFIED",
                       spec |-> spec]
  <2>2. id \in Keys \cup {NoId} /\ edits + 1 \in 0..MaxEdits
    BY <1>1, <1>2 DEF Keys, Write
  <2>3. spec \in Specs
    BY <2>2 DEF Specs
  <2>4. event \in Events /\ event.type # "DELETED" /\ event.spec = spec
    BY <2>3 DEF Events
  <2>5. spec.id = id /\ spec.rev = edits + 1 /\ edits < MaxEdits
        /\ api' = [api EXCEPT ![p] = spec] /\ Happens(event)
    BY <1>2, <2>1 DEF Write
  <2> HIDE DEF spec, event
  <2>6. Edit(p, spec, event)
    BY <1>1, <2>3, <2>4, <2>5 DEF Edit
  <2> QED BY <2>6
<1>3. CASE Delete(p)
  <2> DEFINE event == [type |-> "DELETED", spec |-> api[p]]
  <2>1. api[p] \in Specs /\ api[p].id \in IdsOf[p] /\ api[p].rev <= edits /\ api[p].rev \in Int
    BY <1>3 DEF Delete, TypeOK, Numbered, Specs
  <2>2. event \in Events /\ event.spec = api[p]
    BY <2>1 DEF Events
  <2>3. Edit(p, None, event)
    BY <1>1, <1>3, <2>1, <2>2 DEF Edit, Delete
  <2> QED BY <2>3
<1> QED BY <1>2, <1>3

LEMMA EditKeeps ==
  ASSUME IInv, NEW p, NEW x, NEW event, Edit(p, x, event)
  PROVE  IInv'
<1>1. /\ TypeOK /\ Numbered /\ edits \in 0..MaxEdits /\ MaxEdits \in Nat
      /\ edits' = edits + 1 /\ UNCHANGED <<listing, pc, crs, synced, backoff, stopping, faults>>
      /\ p \in Objects /\ event \in Events /\ Happens(event)
      /\ api \in [Objects -> Specs \cup {None}] /\ api' = [api EXCEPT ![p] = x]
  BY StoreAssumption DEF IInv, Edit, Happens, TypeOK
<1>2. /\ feed' \in Seq(Events) /\ DOMAIN feed \subseteq DOMAIN feed'
      /\ \A i \in DOMAIN feed : feed'[i] = feed[i]
      /\ \A i \in DOMAIN feed' \ DOMAIN feed : feed'[i] = event
      /\ \A i \in DOMAIN feed' \ DOMAIN feed : \A j \in DOMAIN feed' : j <= i
      /\ pc = "streaming" => \E i \in DOMAIN feed' : feed'[i] = event
  BY <1>1, AppendFacts
<1>3. TypeOK'
  <2>1. edits' \in 0..MaxEdits /\ x \in Specs \cup {None}
    BY <1>1 DEF Edit
  <2>2. api' \in [Objects -> Specs \cup {None}]
    BY <1>1, <2>1
  <2> QED BY <1>1, <1>2, <2>1, <2>2 DEF TypeOK
<1>4. /\ \A sp \in Specs : sp.rev \in Int
      /\ \A q \in Objects : api[q] # None => api[q] \in Specs
      /\ \A k \in Keys : crs[k] # None => crs[k] \in Specs
      /\ listing \subseteq Specs
      /\ \A i \in DOMAIN feed : feed[i].spec \in Specs
  BY <1>1, FeedFacts DEF TypeOK, Specs
<1>5. Numbered'
  <2>1. ASSUME NEW q \in Objects, api'[q] # None
        PROVE  api'[q].id \in IdsOf[q] /\ api'[q].rev <= edits'
    BY <1>1, <1>4, <2>1 DEF Edit, Numbered
  <2>2. ASSUME NEW i \in DOMAIN feed' PROVE feed'[i].spec.rev <= edits'
    BY <1>1, <1>2, <1>4 DEF Edit, Numbered
  <2>3. /\ \A sp \in listing : sp.rev <= edits'
        /\ \A k \in Keys : crs[k] # None => crs[k].rev <= edits'
    BY <1>1, <1>4 DEF Numbered
  <2> QED BY <1>1, <2>1, <2>2, <2>3 DEF Numbered
<1>6. ASSUME NEW o \in Owners', o # p PROVE Settling(o)'
  <2>1. o \in Owners /\ api'[o] = api[o]
    BY <1>1, <1>6 DEF Owners
  <2>2. Settling(o) /\ event.spec.id # api[o].id /\ event.spec # api[o]
    BY <1>1, <1>6, <2>1, OwnerFacts DEF IInv, Edit
  <2>3. Mine(o)' = Mine(o) /\ Mine(o) \subseteq DOMAIN feed
    BY <1>2, <2>1, <2>2 DEF Mine
  <2>4. Cached(o)' <=> Cached(o)
    BY <1>1, <2>1 DEF Cached
  <2>5. Quiet(o)'
    BY <1>1, <2>1, <2>2, <2>3, <2>4 DEF Settling, Quiet
  <2>6. Latest(o)'
    BY <1>2, <2>1, <2>2, <2>3 DEF Settling, Latest
  <2>7. Owed(o)'
    BY <1>1, <1>2, <2>1, <2>2, <2>4 DEF Settling, Owed
  <2> QED BY <2>5, <2>6, <2>7 DEF Settling
<1>7. ASSUME p \in Owners' PROVE Settling(p)'
  <2>1. /\ x # None /\ api'[p] = x /\ x.rev = edits + 1 /\ x.id \in Keys
        /\ event.spec = x /\ event.type # "DELETED"
    BY <1>1, <1>7 DEF Owners, Edit
  <2>2. /\ x \notin listing /\ crs[x.id] # x
        /\ \A i \in DOMAIN feed : feed[i].spec # x
    BY <1>1, <1>4, <2>1 DEF Numbered
  <2>3. Quiet(p)'
    BY <1>1, <2>1, <2>2 DEF Quiet, Cached
  <2>4. ASSUME NEW i \in Mine(p)', feed'[i].spec = x
        PROVE  feed'[i].type # "DELETED" /\ \A j \in Mine(p)' : j <= i
    <3>1. i \in DOMAIN feed' \ DOMAIN feed /\ Mine(p)' \subseteq DOMAIN feed'
      BY <1>2, <2>2, <2>4 DEF Mine
    <3> QED BY <1>2, <2>1, <3>1
  <2>5. Latest(p)'
    BY <2>1, <2>4 DEF Latest
  <2>6. Owed(p)'
    BY <1>1, <1>2, <2>1 DEF Owed
  <2> QED BY <2>3, <2>5, <2>6 DEF Settling
<1> QED BY <1>3, <1>5, <1>6, <1>7 DEF IInv

(***************************************************************************)
(* The session.                                                            *)
(***************************************************************************)

\* Steps that leave the CRs and the cache alone and open no session; "still"
\* ones leave what is under way alone as well.
LEMMA SettledKept ==
  ASSUME IInv, TypeOK', UNCHANGED <<apiVars, crs>>,
         \/ UNCHANGED session /\ pc' = pc
         \/ UNCHANGED session /\ pc' # "streaming"
         \/ listing' = {} /\ feed' = <<>> /\ pc' # "streaming"
  PROVE  IInv'
<1>1. DOMAIN <<>> = {}
  OBVIOUS
<1>2. Numbered'
  BY <1>1 DEF IInv, Numbered, apiVars, session
<1>3. ASSUME NEW o \in Owners' PROVE Settling(o)'
  <2>1. o \in Owners /\ Settling(o)
    BY DEF IInv, Owners, apiVars
  <2>2. CASE UNCHANGED session /\ (pc' = pc \/ pc' # "streaming")
    BY <2>1, <2>2 DEF Settling, Quiet, Latest, Owed, Mine, Cached, apiVars, session
  <2>3. CASE listing' = {} /\ feed' = <<>> /\ pc' # "streaming"
    BY <1>1, <2>3 DEF Settling, Quiet, Latest, Owed, Mine
  <2> QED BY <2>2, <2>3
<1> QED BY <1>2, <1>3 DEF IInv

LEMMA ConnectKeeps ==
  ASSUME IInv, Connect
  PROVE  IInv'
<1>1. /\ UNCHANGED <<api, edits, crs, synced, backoff, stopping, faults>>
      /\ pc' = "streaming" /\ feed' = <<>> /\ DOMAIN feed' = {}
      /\ listing' = {api[o] : o \in {p \in Objects : api[p] # None}}
  BY DEF Connect, apiVars
<1>2. TypeOK'
  BY <1>1, EmptySeq DEF IInv, TypeOK
<1>3. Numbered'
  BY <1>1 DEF IInv, Numbered
<1>4. ASSUME NEW o \in Owners' PROVE Settling(o)'
  <2>1. o \in Owners
    BY <1>1 DEF Owners
  <2>2. /\ o \in Objects /\ api[o] # None
        /\ \A p \in Objects \ {o} : api[o].id \notin IdsOf[p]
    BY <2>1, OwnerFacts DEF IInv
  <2>3. \A sp \in listing' : sp.id = api[o].id => sp = api[o]
    BY <1>1, <2>2 DEF IInv, Numbered
  <2>4. api[o] \in listing'
    BY <1>1, <2>2
  <2> QED BY <1>1, <2>3, <2>4 DEF Settling, Quiet, Latest, Owed, Mine
<1> QED BY <1>2, <1>3, <1>4 DEF IInv

\* An event of another id leaves an owner's entry alone, one of its own puts
\* the event's spec there.
LEMMA ApplyFacts ==
  ASSUME TypeOK, NEW event \in Events, Apply(event)
  PROVE  /\ \A k \in Keys :
              crs'[k] = IF k # event.spec.id THEN crs[k]
                        ELSE IF event.type = "DELETED" THEN None ELSE event.spec
         /\ crs' \in [Keys -> Specs \cup {None}]
         /\ UNCHANGED <<api, edits, pc, backoff, stopping, faults>>
         /\ synced' \in BOOLEAN
         /\ Owners' = Owners
<1>1. crs' \in [Keys -> Specs \cup {None}]
  BY UpdatedType DEF Apply
<1>2. NoId \notin Keys /\ crs \in [Keys -> Specs \cup {None}]
  BY DEF Keys, TypeOK
<1>3. UNCHANGED <<api, edits, pc, backoff, stopping, faults>> /\ synced' \in BOOLEAN
  BY DEF Apply, apiVars, TypeOK
<1> QED BY <1>1, <1>2, <1>3 DEF Apply, Updated, Owners

LEMMA DeliverListedKeeps ==
  ASSUME IInv, DeliverListed
  PROVE  IInv'
<1>1. PICK spec \in listing :
        /\ Apply([type |-> "ADDED", spec |-> spec])
        /\ listing' = listing \ {spec} /\ feed' = feed
  BY DEF DeliverListed
<1>2. /\ \A k \in Keys : crs'[k] = IF k # spec.id THEN crs[k] ELSE spec
      /\ crs' \in [Keys -> Specs \cup {None}]
      /\ UNCHANGED <<api, edits, pc, backoff, stopping, faults>>
      /\ synced' \in BOOLEAN /\ Owners' = Owners
  BY <1>1, ListedEvent, ApplyFacts DEF IInv
<1>3. TypeOK'
  BY <1>1, <1>2 DEF IInv, TypeOK
<1>4. Numbered'
  BY <1>1, <1>2 DEF IInv, Numbered
<1>5. ASSUME NEW o \in Owners PROVE Settling(o)'
  <2>1. api[o].id \in Keys /\ Settling(o) /\ api' = api
    BY <1>2, OwnerFacts DEF IInv
  <2>2. Mine(o)' = Mine(o) /\ (Latest(o) => Latest(o)')
    BY <1>1, <2>1 DEF Mine, Latest
  <2>3. CASE spec.id # api[o].id
    <3>1. (Cached(o)' <=> Cached(o)) /\ spec # api[o]
      BY <1>2, <2>1, <2>3 DEF Cached
    <3> QED BY <1>1, <1>2, <2>1, <2>2, <3>1 DEF Settling, Quiet, Owed
  <2>4. CASE spec = api[o]
    <3>1. Cached(o)' /\ api[o] \in listing
      BY <1>1, <1>2, <2>1, <2>4 DEF Cached
    <3> QED BY <1>1, <1>2, <2>1, <2>2, <3>1 DEF Settling, Quiet, Owed
  <2>5. CASE spec.id = api[o].id /\ spec # api[o]
    <3>1. ~Cached(o) /\ api[o] \notin listing
      BY <1>1, <2>1, <2>5 DEF Settling, Quiet
    <3>2. ~Cached(o)'
      BY <1>2, <2>1, <2>5 DEF Cached
    <3> QED BY <1>1, <1>2, <2>1, <2>2, <3>1, <3>2 DEF Settling, Quiet, Owed
  <2> QED BY <2>3, <2>4, <2>5
<1> QED BY <1>2, <1>3, <1>4, <1>5 DEF IInv

LEMMA DeliverChangeKeeps ==
  ASSUME IInv, DeliverChange
  PROVE  IInv'
<1> DEFINE event == feed[1]
<1>1. /\ Head(feed) = feed[1] /\ 1 \in DOMAIN feed /\ event \in Events
      /\ feed' \in Seq(Events) /\ DOMAIN feed = 1..Len(feed) /\ Len(feed) \in Nat
      /\ DOMAIN feed' = 1..(Len(feed) - 1)
      /\ \A i \in DOMAIN feed' : i + 1 \in DOMAIN feed /\ feed'[i] = feed[i + 1]
      /\ Apply(event) /\ listing = {} /\ listing' = {}
  BY FeedFacts DEF DeliverChange, IInv
<1>2. /\ \A k \in Keys :
           crs'[k] = IF k # event.spec.id THEN crs[k]
                     ELSE IF event.type = "DELETED" THEN None ELSE event.spec
      /\ crs' \in [Keys -> Specs \cup {None}]
      /\ UNCHANGED <<api, edits, pc, backoff, stopping, faults>>
      /\ synced' \in BOOLEAN /\ Owners' = Owners
  BY <1>1, ApplyFacts DEF IInv
<1>3. TypeOK'
  BY <1>1, <1>2 DEF IInv, TypeOK
<1>4. Numbered'
  <2>1. \A i \in DOMAIN feed' : feed'[i].spec.rev <= edits
    BY <1>1 DEF IInv, Numbered
  <2>2. \A k \in Keys : crs'[k] # None => crs'[k].rev <= edits
    BY <1>1, <1>2 DEF IInv, Numbered
  <2> QED BY <1>1, <1>2, <2>1, <2>2 DEF IInv, Numbered
<1> HIDE DEF event
<1>5. ASSUME NEW o \in Owners PROVE Settling(o)'
  <2>1. /\ api[o].id \in Keys /\ Settling(o) /\ api' = api /\ api[o] # None
    BY <1>2, OwnerFacts DEF IInv
  <2>2. /\ \A i \in Mine(o)' : i + 1 \in Mine(o) /\ feed'[i] = feed[i + 1]
        /\ Mine(o) \subseteq 1..Len(feed)
        /\ Mine(o)' \subseteq 1..(Len(feed) - 1)
    BY <1>1, <2>1 DEF Mine
  <2>3. Latest(o)'
    <3>1. Latest(o)
      BY <2>1 DEF Settling
    <3>2. ASSUME NEW i \in Mine(o)', feed'[i].spec = api[o]
          PROVE  feed'[i].type # "DELETED" /\ \A j \in Mine(o)' : j <= i
      <4>1. feed[i + 1].spec = api[o] /\ i + 1 \in Mine(o)
        BY <2>2, <3>2
      <4>2. feed[i + 1].type # "DELETED" /\ \A j \in Mine(o) : j <= i + 1
        BY <3>1, <4>1 DEF Latest
      <4>3. ASSUME NEW j \in Mine(o)' PROVE j <= i
        <5>1. j + 1 <= i + 1 /\ j \in Int /\ i \in Int
          BY <1>1, <2>2, <4>2
        <5> QED BY <5>1
      <4> QED BY <2>2, <4>2, <4>3
    <3> QED BY <2>1, <3>2 DEF Latest
  <2>4. \A i \in DOMAIN feed : i # 1 => i - 1 \in DOMAIN feed' /\ feed'[i - 1] = feed[i]
    BY <1>1
  <2>5. CASE event.spec.id # api[o].id
    <3>1. (Cached(o)' <=> Cached(o)) /\ event.spec # api[o]
      BY <1>2, <2>1, <2>5 DEF Cached
    <3>2. Quiet(o)'
      BY <1>1, <2>1, <2>2, <3>1 DEF Settling, Quiet
    <3>3. Owed(o)'
      BY <1>1, <1>2, <2>1, <2>4, <3>1 DEF Settling, Owed, event
    <3> QED BY <2>3, <3>2, <3>3 DEF Settling
  <2>6. CASE event.spec = api[o]
    <3>1. 1 \in Mine(o)
      BY <1>1, <2>6 DEF Mine, event
    <3>2. event.type # "DELETED" /\ \A j \in Mine(o) : j <= 1
      BY <2>1, <2>6, <3>1 DEF Settling, Latest, event
    <3>3. Mine(o)' = {}
      <4>1. ASSUME NEW i \in Mine(o)' PROVE FALSE
        <5>1. i + 1 <= 1 /\ i \in 1..(Len(feed) - 1)
          BY <2>2, <3>2
        <5> QED BY <1>1, <5>1
      <4> QED BY <4>1
    <3>4. Cached(o)'
      BY <1>2, <2>1, <2>6, <3>2 DEF Cached
    <3> QED BY <1>1, <2>3, <3>3, <3>4 DEF Settling, Quiet, Owed
  <2>7. CASE event.spec.id = api[o].id /\ event.spec # api[o]
    <3>1. 1 \in Mine(o)
      BY <1>1, <2>7 DEF Mine, event
    <3>2. ~Cached(o) /\ ~Cached(o)'
      BY <1>2, <2>1, <2>7, <3>1 DEF Settling, Quiet, Cached
    <3>3. Owed(o)'
      BY <1>1, <1>2, <2>1, <2>4, <2>7, <3>2 DEF Settling, Owed, event
    <3> QED BY <1>1, <2>1, <2>3, <3>2, <3>3 DEF Settling, Quiet
  <2> QED BY <2>5, <2>6, <2>7
<1> QED BY <1>2, <1>3, <1>4, <1>5 DEF IInv

LEMMA InitIInv == Init => IInv
<1> SUFFICES ASSUME Init PROVE IInv
  OBVIOUS
<1>1. TypeOK
  BY InitType
<1>2. DOMAIN feed = {} /\ listing = {} /\ edits = 0 /\ pc = "connecting"
  BY DEF Init
<1>3. Numbered
  BY <1>2 DEF Init, Numbered
<1>4. \A o \in Owners : Settling(o)
  <2>1. ASSUME NEW o \in Owners PROVE Settling(o)
    BY <1>2 DEF Settling, Quiet, Latest, Owed, Mine
  <2> QED BY <2>1
<1> QED BY <1>1, <1>3, <1>4 DEF IInv

LEMMA NextIInv == IInv /\ [Next]_vars => IInv'
<1> SUFFICES ASSUME IInv, [Next]_vars PROVE IInv'
  OBVIOUS
<1>1. TypeOK /\ BackoffInitial \in Nat \ {0} /\ BackoffMax \in Nat /\ BackoffInitial <= BackoffMax
      /\ MaxFaults \in Nat
  BY StoreAssumption DEF IInv
<1>2. <<>> \in Seq(Events)
  BY EmptySeq
<1>3. ASSUME NEW o \in Objects, Write(o) \/ Delete(o) PROVE IInv'
  BY <1>1, <1>3, EditCases, EditKeeps DEF IInv
<1>4. CASE Bookmark
  <2>1. TypeOK'
    BY <1>1, <1>4 DEF Bookmark, TypeOK, apiVars, session
  <2> QED BY <1>4, <2>1, SettledKept DEF Bookmark
<1>5. CASE SessionEnds
  <2>1. TypeOK'
    BY <1>1, <1>2, <1>5 DEF SessionEnds, SessionOver, TypeOK, apiVars
  <2> QED BY <1>5, <2>1, SettledKept DEF SessionEnds, SessionOver
<1>6. CASE ErrorEvent \/ StreamRaises
  <2>1. Fails /\ synced' \in BOOLEAN
    BY <1>1, <1>6 DEF ErrorEvent, StreamRaises, TypeOK
  <2>2. faults' \in 0..MaxFaults
    BY <1>1, <2>1 DEF Fails, TypeOK
  <2>3. TypeOK'
    BY <1>1, <1>2, <2>1, <2>2 DEF Fails, SessionOver, TypeOK, apiVars
  <2> QED BY <2>1, <2>3, SettledKept DEF Fails, SessionOver
<1>7. CASE Retry
  <2>1. backoff' \in BackoffInitial .. BackoffMax
    BY <1>1, <1>7 DEF Retry, TypeOK
  <2>2. TypeOK'
    BY <1>1, <1>7, <2>1 DEF Retry, TypeOK, apiVars, session
  <2> QED BY <1>7, <2>2, SettledKept DEF Retry
<1>8. CASE Stop
  <2>1. TypeOK'
    BY <1>1, <1>8 DEF Stop, TypeOK, apiVars, session
  <2> QED BY <1>8, <2>1, SettledKept DEF Stop
<1>9. CASE Exit
  <2>1. TypeOK'
    BY <1>1, <1>2, <1>9 DEF Exit, TypeOK, apiVars
  <2> QED BY <1>9, <2>1, SettledKept DEF Exit
<1>10. CASE UNCHANGED vars
  <2>1. UNCHANGED <<apiVars, crs, session, pc>> /\ TypeOK'
    BY <1>1, <1>10 DEF vars, TypeOK, apiVars, session
  <2> QED BY <2>1, SettledKept
<1> QED
  BY <1>3, <1>4, <1>5, <1>6, <1>7, <1>8, <1>9, <1>10, ConnectKeeps, DeliverListedKeeps,
     DeliverChangeKeeps
  DEF Next

\* The steps that touch the cache or turn synced on.
LEMMA CacheSteps ==
  ASSUME Next
  PROVE  /\ crs' = crs \/ DeliverListed \/ DeliverChange
         /\ ~synced /\ synced' => listing = {} /\ pc = "streaming"
<1>1. ASSUME NEW o \in Objects, Write(o) \/ Delete(o) PROVE UNCHANGED <<crs, synced>>
  BY <1>1 DEF Write, Delete, Happens
<1>2. ASSUME DeliverListed PROVE synced' => synced
  <2>1. PICK spec \in listing : synced' = (synced \/ "ADDED" # "ADDED")
    BY <1>2 DEF DeliverListed, Apply
  <2> QED BY <2>1
<1>3. ASSUME DeliverChange PROVE listing = {} /\ pc = "streaming"
  BY <1>3 DEF DeliverChange, Apply
<1>4. ASSUME Bookmark \/ ErrorEvent PROVE crs' = crs /\ listing = {} /\ pc = "streaming"
  BY <1>4 DEF Bookmark, ErrorEvent, Fails
<1>5. ASSUME Connect \/ SessionEnds \/ StreamRaises \/ Retry \/ Stop \/ Exit
      PROVE  UNCHANGED <<crs, synced>>
  BY <1>5 DEF Connect, SessionEnds, StreamRaises, Fails, Retry, Stop, Exit
<1> QED BY <1>1, <1>2, <1>3, <1>4, <1>5 DEF Next

(***************************************************************************)
(* The theorems.                                                           *)
(***************************************************************************)

\* The cache stays one spec or none under each id, and the wait between two
\* sessions within its bounds (slo_store.py:105-117 and :167-186).
THEOREM StoreTyped == Spec => []TypeOK
<1>1. IInv => TypeOK
  BY DEF IInv
<1> QED BY <1>1, InitIInv, NextIInv, PTL DEF Spec

\* However many sessions broke and whatever was lost with them, a session that
\* has delivered everything leaves the current spec of every CR in the cache
\* (slo_store.py:126-186).
THEOREM StoreKeepsUp == Spec => []CacheKeepsUp
<1>1. IInv => CacheKeepsUp
  BY DEF IInv, Settling, Owed, CacheKeepsUp
<1> QED BY <1>1, InitIInv, NextIInv, PTL DEF Spec

\* Readiness is not half a list: when synced turns on, a CR is cached or its
\* change is in flight (slo_store.py:149-165).
THEOREM FirstSyncComplete == Spec => FirstSyncIsComplete
<1>1. IInv /\ [Next]_vars =>
        [~synced /\ synced' =>
           \A o \in Owners :
             \/ Cached(o)
             \/ \E i \in DOMAIN feed : feed[i].spec.id = api[o].id]_vars
  <2> SUFFICES ASSUME IInv, Next, ~synced, synced', NEW o \in Owners
               PROVE  Cached(o) \/ \E i \in DOMAIN feed : feed[i].spec.id = api[o].id
    OBVIOUS
  <2>1. listing = {} /\ pc = "streaming"
    BY CacheSteps
  <2>2. Cached(o) \/ \E i \in DOMAIN feed : feed[i].spec = api[o]
    BY <2>1 DEF IInv, Settling, Owed
  <2> QED BY <2>2
<1> QED BY <1>1, InitIInv, NextIInv, PTL DEF Spec, FirstSyncIsComplete

\* A reconnect, a new list and events still in flight never take a cached spec
\* away or put an older one in its place while the CR is as it is
\* (slo_store.py:126-139 and :167-186).
THEOREM CacheStaysUsable == Spec => StaysUsable
<1>1. IInv /\ [Next]_vars =>
        [\A o \in Owners : Cached(o) /\ api'[o] = api[o] => Cached(o)']_vars
  <2> SUFFICES ASSUME IInv, Next, NEW o \in Owners, Cached(o), api'[o] = api[o]
               PROVE  Cached(o)'
    OBVIOUS
  <2>1. Settling(o) /\ TypeOK /\ api[o].id \in Keys
    BY OwnerFacts DEF IInv
  <2>2. CASE crs' = crs
    BY <2>2 DEF Cached
  <2>3. CASE DeliverListed
    <3>1. PICK spec \in listing : Apply([type |-> "ADDED", spec |-> spec])
      BY <2>3 DEF DeliverListed
    <3>2. \A k \in Keys : crs'[k] = IF k # spec.id THEN crs[k] ELSE spec
      BY <2>1, <3>1, ListedEvent, ApplyFacts
    <3>3. spec.id = api[o].id => spec = api[o]
      BY <2>1 DEF Settling, Quiet
    <3> QED BY <2>1, <3>2, <3>3 DEF Cached
  <2>4. CASE DeliverChange
    <3>1. feed[1] \in Events /\ Apply(feed[1]) /\ 1 \in DOMAIN feed
      BY <2>1, <2>4, FeedFacts DEF DeliverChange
    <3>2. feed[1].spec.id # api[o].id
      BY <2>1, <3>1 DEF Settling, Quiet, Mine
    <3>3. crs'[api[o].id] = crs[api[o].id]
      BY <2>1, <3>1, <3>2, ApplyFacts
    <3> QED BY <3>3 DEF Cached
  <2> QED BY <2>2, <2>3, <2>4, CacheSteps
<1> QED BY <1>1, InitIInv, NextIInv, PTL DEF Spec, StaysUsable
=============================================================================

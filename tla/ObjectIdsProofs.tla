--------------------------- MODULE ObjectIdsProofs ---------------------------
(* Proofs about ObjectIds, for any range of ids and any set of objects. *)
EXTENDS ObjectIds, TLAPS

-----------------------------------------------------------------------------
(* The operators of IdTable. *)

\* An entry made by MapCreate is the only one that changes.
LEMMA MapCreateLemma ==
  ASSUME NEW m, NEW i, NEW x
  PROVE  /\ DOMAIN MapCreate(m, i, x) = DOMAIN m \cup {i}
         /\ MapCreate(m, i, x)[i] = x
         /\ \A j \in DOMAIN m : j # i => MapCreate(m, i, x)[j] = m[j]
  BY DEF MapCreate

\* MapDestroy removes one entry and keeps the others as they are.
LEMMA MapDestroyLemma ==
  ASSUME NEW m, NEW i
  PROVE  /\ DOMAIN MapDestroy(m, i) = DOMAIN m \ {i}
         /\ \A j \in DOMAIN m : j # i => MapDestroy(m, i)[j] = m[j]
  BY DEF MapDestroy

\* An id is not NULL_OBJ_ID.
LEMMA IdsLemma == NULL_OBJ_ID \notin Ids
  BY IdRangeAssumption DEF Ids, NULL_OBJ_ID, DISPLAY_OBJ_ID

-----------------------------------------------------------------------------
(* Type correctness. *)

LEMMA AppendLemma ==
  ASSUME NEW S, NEW s \in Seq(S), NEW e \in S
  PROVE  /\ Append(s, e) \in Seq(S)
         /\ Len(Append(s, e)) = Len(s) + 1
         /\ Append(s, e)[Len(s) + 1] = e
         /\ \A k \in 1 .. Len(s) : Append(s, e)[k] = s[k]
         /\ DOMAIN Append(s, e) = 1 .. Len(s) + 1
         /\ DOMAIN s = 1 .. Len(s)
         /\ Len(s) \in Nat
  OBVIOUS

LEMMA TailLemma ==
  ASSUME NEW S, NEW s \in Seq(S), s # <<>>
  PROVE  /\ Tail(s) \in Seq(S)
         /\ Head(s) \in S
         /\ Head(s) = s[1]
         /\ Len(s) \in Nat \ {0}
         /\ DOMAIN s = 1 .. Len(s)
         /\ DOMAIN Tail(s) = 1 .. Len(s) - 1
         /\ \A k \in 1 .. Len(s) - 1 : Tail(s)[k] = s[k + 1]
  OBVIOUS

\* The queues hold messages and nothing else.
LEMMA QueuesLemma ==
  ASSUME TypeOK
  PROVE  /\ \A k \in DOMAIN requests : requests[k] \in Request
         /\ \A k \in DOMAIN events : events[k] \in Event
  BY DEF TypeOK

LEMMA TypeStep == TypeOK /\ [Next]_vars => TypeOK'
<1> SUFFICES ASSUME TypeOK, [Next]_vars PROVE TypeOK'
  OBVIOUS
<1> USE DEF TypeOK
<1>1. ASSUME NEW p \in Proxies, Construct(p) PROVE TypeOK'
  <2>1. PICK i \in Ids :
          /\ RequestId(ids, i)
          /\ ids' = ids \cup {i}
          /\ oid' = [oid EXCEPT ![p] = i]
          /\ objects' = IF p \in Registered THEN MapCreate(objects, i, p) ELSE objects
          /\ requests' = Append(requests, [op |-> "new", id |-> i, proxy |-> p])
    BY <1>1 DEF Construct
  <2>2. [op |-> "new", id |-> i, proxy |-> p] \in Request
    BY DEF Request
  <2>3. requests' \in Seq(Request)
    BY <2>1, <2>2, AppendLemma
  <2>4. DOMAIN objects' \subseteq Ids /\ objects' \in [DOMAIN objects' -> Proxies]
    BY <2>1 DEF MapCreate
  <2>5. QED
    BY <1>1, <2>1, <2>3, <2>4 DEF Construct
<1>2. ASSUME NEW p \in Proxies, Destroy(p) PROVE TypeOK'
  <2>1. oid[p] \in Ids
    BY <1>2 DEF Destroy, Held
  <2>2. [op |-> "destroy", id |-> oid[p], proxy |-> p] \in Request
    BY <2>1 DEF Request
  <2>3. requests' \in Seq(Request)
    BY <1>2, <2>2, AppendLemma DEF Destroy
  <2>4. QED
    BY <1>2, <2>3 DEF Destroy
<1>3. CASE ConstructThrows
  BY <1>3 DEF ConstructThrows
<1>4. CASE ReadDeleteId
  <2>1. events' \in Seq(Event) /\ Head(events) \in Event
    BY <1>4, TailLemma DEF ReadDeleteId
  <2>2. CASE Head(events).id \in ids
    <3>1. DOMAIN objects' \subseteq Ids /\ objects' \in [DOMAIN objects' -> Proxies]
      BY <1>4, <2>2 DEF ReadDeleteId, MapDestroy
    <3>2. QED
      BY <1>4, <2>1, <2>2, <3>1 DEF ReadDeleteId, ReleaseId
  <2>3. CASE Head(events).id \notin ids
    BY <1>4, <2>1, <2>3 DEF ReadDeleteId
  <2>4. QED
    BY <2>2, <2>3
<1>5. CASE ReadEvent
  BY <1>5, TailLemma DEF ReadEvent
<1>6. CASE AcceptNew
  <2>1. requests' \in Seq(Request) /\ Head(requests) \in Request
    BY <1>6, TailLemma DEF AcceptNew
  <2>2. DOMAIN resources' \subseteq Ids /\ resources' \in [DOMAIN resources' -> Proxies]
    BY <1>6, <2>1 DEF AcceptNew, MapCreate, Request
  <2>3. QED
    BY <1>6, <2>1, <2>2 DEF AcceptNew
<1>7. CASE AcceptDestroy
  <2>1. requests' \in Seq(Request) /\ Head(requests) \in Request
    BY <1>7, TailLemma DEF AcceptDestroy
  <2>2. DOMAIN resources' \subseteq Ids /\ resources' \in [DOMAIN resources' -> Proxies]
    BY <1>7, <2>1 DEF AcceptDestroy, MapDestroy, Request
  <2>3. events' \in Seq(Event)
    <3>1. CASE Head(requests).id \in DOMAIN resources
      <4>1. [ev |-> "delete_id", id |-> Head(requests).id,
             proxy |-> resources[Head(requests).id]] \in Event
        BY <3>1, <2>1 DEF Event, Request
      <4>2. events' = Append(events, [ev |-> "delete_id", id |-> Head(requests).id,
                                     proxy |-> resources[Head(requests).id]])
        BY <1>7, <3>1 DEF AcceptDestroy
      <4>3. QED
        BY <4>1, <4>2, AppendLemma
    <3>2. QED
      BY <1>7, <3>1 DEF AcceptDestroy
  <2>4. QED
    BY <1>7, <2>1, <2>2, <2>3 DEF AcceptDestroy
<1>8. ASSUME NEW i \in DOMAIN resources, Emit(i) PROVE TypeOK'
  <2>1. [ev |-> "event", id |-> i, proxy |-> resources[i]] \in Event
    BY DEF Event
  <2>2. events' \in Seq(Event)
    BY <1>8, <2>1, AppendLemma DEF Emit
  <2>3. QED
    BY <1>8, <2>2 DEF Emit
<1>9. CASE UNCHANGED vars
  BY <1>9 DEF vars
<1>10. QED
  BY <1>1, <1>2, <1>3, <1>4, <1>5, <1>6, <1>7, <1>8, <1>9 DEF Next, Read, Accept

\* Every variable keeps its type, for any constants that meet the assumptions.
THEOREM TypeCorrect == Spec => []TypeOK
<1>1. Init => TypeOK
  BY DEF Init, TypeOK
<1>2. QED
  BY <1>1, TypeStep, PTL DEF Spec

-----------------------------------------------------------------------------
(* The inductive invariant, one lemma per action. *)

LEMMA ConstructStep ==
  ASSUME IInv, NEW p \in Proxies, Construct(p)
  PROVE  (IdsInv /\ MapInv /\ RequestsInv /\ ResourcesInv /\ EventsInv)'
<1> USE DEF IInv
<1>1. PICK i \in Ids :
        /\ i \notin ids
        /\ ids' = ids \cup {i}
        /\ oid' = [oid EXCEPT ![p] = i]
        /\ objects' = IF p \in Registered THEN MapCreate(objects, i, p) ELSE objects
        /\ requests' = Append(requests, [op |-> "new", id |-> i, proxy |-> p])
  BY DEF Construct, RequestId
<1>2. UNCHANGED <<destroyed, events, resources>> /\ p \notin Held
  BY DEF Construct
<1> DEFINE r == [op |-> "new", id |-> i, proxy |-> p]
<1>3. /\ Held' = Held \cup {p}
      /\ oid'[p] = i
      /\ \A q \in Held : oid'[q] = oid[q]
  BY <1>1, <1>2, IdsLemma DEF Held, TypeOK
<1>4. IdsInv'
  BY <1>1, <1>2, <1>3 DEF IdsInv
<1>5. MapInv'
  <2>1. i \notin DOMAIN objects
    BY <1>1 DEF MapInv, IdsInv
  <2>2. CASE p \in Registered
    <3>1. /\ DOMAIN objects' = DOMAIN objects \cup {i}
          /\ objects'[i] = p
          /\ \A j \in DOMAIN objects : objects'[j] = objects[j]
      <4>1. objects' = MapCreate(objects, i, p)
        BY <1>1, <2>2
      <4>2. QED
        BY <2>1, <4>1 DEF MapCreate
    <3>2. \A q \in Held' \cap Registered :
            oid'[q] \in DOMAIN objects' /\ objects'[oid'[q]] = q
      BY <1>3, <3>1 DEF MapInv
    <3>3. \A j \in DOMAIN objects' :
            /\ objects'[j] \in Held' \cap Registered
            /\ oid'[objects'[j]] = j
      BY <1>3, <2>2, <3>1 DEF MapInv
    <3>4. QED
      BY <3>2, <3>3 DEF MapInv
  <2>3. CASE p \notin Registered
    BY <1>1, <1>3, <2>3 DEF MapInv
  <2>4. QED
    BY <2>2, <2>3
<1>6. /\ DOMAIN requests' = 1 .. Len(requests) + 1
      /\ DOMAIN requests = 1 .. Len(requests)
      /\ Len(requests) \in Nat
      /\ requests'[Len(requests) + 1] = r
      /\ \A k \in 1 .. Len(requests) : requests'[k] = requests[k]
  <2>1. r \in Request
    BY DEF Request
  <2>2. requests \in Seq(Request)
    BY DEF TypeOK
  <2>3. QED
    BY <1>1, <2>1, <2>2, AppendLemma
<1>7. i \notin DOMAIN resources
  BY <1>1 DEF ResourcesInv, IdsInv
<1>8. \A k \in 1 .. Len(requests) : requests[k].proxy \in Held
  BY <1>6 DEF RequestsInv, RequestPlaced
<1>9. RequestsInv'
  <2> SUFFICES ASSUME NEW k \in DOMAIN requests'
               PROVE  RequestPlaced(k)'
    BY DEF RequestsInv
  <2>1. CASE k = Len(requests) + 1
    BY <1>2, <1>3, <1>6, <1>7, <1>8, <2>1 DEF RequestPlaced
  <2>2. CASE k \in 1 .. Len(requests)
    BY <1>2, <1>3, <1>6, <1>8, <2>2 DEF RequestsInv, RequestPlaced
  <2>3. QED
    BY <1>6, <2>1, <2>2
<1>10. ResourcesInv'
  <2>1. \A j \in DOMAIN resources' : resources'[j] \in Held' /\ oid'[resources'[j]] = j
    BY <1>2, <1>3 DEF ResourcesInv
  <2>2. ASSUME NEW q \in Held' \ destroyed'
        PROVE  \/ oid'[q] \in DOMAIN resources'
               \/ \E k \in DOMAIN requests' :
                    requests'[k].proxy = q /\ requests'[k].op = "new"
    <3>1. CASE q = p
      BY <1>6, <3>1
    <3>2. CASE q # p
      BY <1>2, <1>3, <1>6, <3>2 DEF ResourcesInv
    <3>3. QED
      BY <3>1, <3>2
  <2>3. QED
    BY <2>1, <2>2 DEF ResourcesInv
<1>11. EventsInv'
  BY <1>2, <1>3, <1>6 DEF EventsInv, EventPlaced
<1>12. QED
  BY <1>4, <1>5, <1>9, <1>10, <1>11

LEMMA DestroyStep ==
  ASSUME IInv, NEW p \in Proxies, Destroy(p)
  PROVE  (IdsInv /\ MapInv /\ RequestsInv /\ ResourcesInv /\ EventsInv)'
<1> USE DEF IInv
<1> DEFINE r == [op |-> "destroy", id |-> oid[p], proxy |-> p]
<1>1. /\ p \in Held \ destroyed
      /\ destroyed' = destroyed \cup {p}
      /\ requests' = Append(requests, r)
      /\ UNCHANGED <<ids, objects, oid, events, resources>>
      /\ Held' = Held
  BY DEF Destroy, Held
<1>2. IdsInv'
  BY <1>1 DEF IdsInv
<1>3. MapInv'
  BY <1>1 DEF MapInv
<1>4. /\ DOMAIN requests' = 1 .. Len(requests) + 1
      /\ DOMAIN requests = 1 .. Len(requests)
      /\ Len(requests) \in Nat
      /\ requests'[Len(requests) + 1] = r
      /\ \A k \in 1 .. Len(requests) : requests'[k] = requests[k]
  <2>1. r \in Request
    BY <1>1 DEF Request, Held, TypeOK
  <2>2. requests \in Seq(Request)
    BY DEF TypeOK
  <2>3. QED
    BY <1>1, <2>1, <2>2, AppendLemma
<1>5. ResourcesInv'
  BY <1>1, <1>4 DEF ResourcesInv
\* No destroy request was queued before, and no delete_id can be in flight.
<1>6. \A k \in 1 .. Len(requests) :
        requests[k].proxy = p => requests[k].op = "new"
  <2>1. \A k \in 1 .. Len(requests) : requests[k].op \in {"new", "destroy"}
    BY <1>4, QueuesLemma DEF Request
  <2>2. \A k \in 1 .. Len(requests) :
          requests[k].op = "destroy" => requests[k].proxy \in destroyed
    BY <1>4 DEF RequestsInv, RequestPlaced
  <2>3. QED
    BY <1>1, <2>1, <2>2
<1>7. \A k \in DOMAIN events : events[k].ev = "delete_id" => events[k].proxy # p
  BY <1>1 DEF EventsInv, EventPlaced
<1>8. oid[p] \in DOMAIN resources
      \/ \E k \in 1 .. Len(requests) : requests[k].proxy = p /\ requests[k].op = "new"
  BY <1>1, <1>4 DEF ResourcesInv
<1>9. RequestsInv'
  <2> SUFFICES ASSUME NEW k \in DOMAIN requests'
               PROVE  RequestPlaced(k)'
    BY DEF RequestsInv
  <2>1. CASE k = Len(requests) + 1
    BY <1>1, <1>4, <1>6, <1>8, <2>1 DEF RequestPlaced
  <2>2. CASE k \in 1 .. Len(requests)
    BY <1>1, <1>4, <1>6, <2>2 DEF RequestsInv, RequestPlaced
  <2>3. QED
    BY <1>4, <2>1, <2>2
<1>10. EventsInv'
  BY <1>1, <1>4, <1>7 DEF EventsInv, EventPlaced
<1>11. QED
  BY <1>2, <1>3, <1>5, <1>9, <1>10

LEMMA ReadDeleteIdStep ==
  ASSUME IInv, ReadDeleteId
  PROVE  (IdsInv /\ MapInv /\ RequestsInv /\ ResourcesInv /\ EventsInv)'
<1> USE DEF IInv
<1> DEFINE e == Head(events)
           p == e.proxy
<1>1. /\ events # <<>> /\ e.ev = "delete_id"
      /\ events' = Tail(events)
      /\ UNCHANGED <<requests, resources>>
  BY DEF ReadDeleteId
<1>2. /\ DOMAIN events = 1 .. Len(events)
      /\ Len(events) \in Nat \ {0}
      /\ e = events[1]
      /\ DOMAIN events' = 1 .. Len(events) - 1
      /\ \A k \in 1 .. Len(events) - 1 : events'[k] = events[k + 1]
  BY <1>1, TailLemma DEF TypeOK
<1>3. /\ p \in Held \cap destroyed /\ e.id = oid[p]
      /\ e.id \notin DOMAIN resources
      /\ \A j \in DOMAIN events : j > 1 => events[j].proxy # p
      /\ \A j \in DOMAIN requests : requests[j].proxy # p
  <2>1. EventPlaced(1)
    BY <1>2 DEF EventsInv
  <2>2. QED
    BY <1>1, <1>2, <2>1 DEF EventPlaced
<1>4. /\ e.id \in ids
      /\ ids' = ids \ {e.id}
      /\ objects' = MapDestroy(objects, e.id)
      /\ oid' = [oid EXCEPT ![p] = NULL_OBJ_ID]
      /\ destroyed' = destroyed \ {p}
  BY <1>3 DEF ReadDeleteId, ReleaseId, IdsInv
<1>5. /\ Held' = Held \ {p}
      /\ \A q \in Held' : oid'[q] = oid[q] /\ oid[q] # e.id
  BY <1>3, <1>4 DEF Held, TypeOK, IdsInv
<1>6. IdsInv'
  BY <1>3, <1>4, <1>5 DEF IdsInv
<1>7. MapInv'
  <2>1. /\ DOMAIN objects' = DOMAIN objects \ {e.id}
        /\ \A j \in DOMAIN objects' : objects'[j] = objects[j]
    BY <1>4 DEF MapDestroy
  <2>2. \A q \in Held' \cap Registered :
          oid'[q] \in DOMAIN objects' /\ objects'[oid'[q]] = q
    BY <1>5, <2>1 DEF MapInv
  <2>3. \A j \in DOMAIN objects' :
          objects'[j] \in Held' \cap Registered /\ oid'[objects'[j]] = j
    BY <1>3, <1>5, <2>1 DEF MapInv
  <2>4. QED
    BY <2>2, <2>3 DEF MapInv
<1>8. RequestsInv'
  BY <1>1, <1>3, <1>4, <1>5 DEF RequestsInv, RequestPlaced
<1>9. ResourcesInv'
  BY <1>1, <1>3, <1>4, <1>5 DEF ResourcesInv
<1>10. EventsInv'
  <2> SUFFICES ASSUME NEW k \in DOMAIN events'
               PROVE  EventPlaced(k)'
    BY DEF EventsInv
  <2>1. k + 1 \in DOMAIN events /\ events'[k] = events[k + 1]
    BY <1>2
  <2>2. EventPlaced(k + 1) /\ events[k + 1].proxy # p
    BY <1>2, <1>3, <2>1 DEF EventsInv
  <2>3. \A j \in DOMAIN events' : j > k =>
          j + 1 \in DOMAIN events /\ j + 1 > k + 1 /\ events'[j] = events[j + 1]
    BY <1>2
  <2>4. QED
    BY <1>1, <1>4, <1>5, <2>1, <2>2, <2>3 DEF EventPlaced
<1>11. QED
  BY <1>6, <1>7, <1>8, <1>9, <1>10

LEMMA ReadEventStep ==
  ASSUME IInv, ReadEvent
  PROVE  (IdsInv /\ MapInv /\ RequestsInv /\ ResourcesInv /\ EventsInv)'
<1> USE DEF IInv
<1>1. /\ events # <<>> /\ events' = Tail(events)
      /\ UNCHANGED <<ids, objects, oid, destroyed, requests, resources>>
      /\ Held' = Held
  BY DEF ReadEvent, Held
<1>2. /\ DOMAIN events = 1 .. Len(events)
      /\ Len(events) \in Nat \ {0}
      /\ DOMAIN events' = 1 .. Len(events) - 1
      /\ \A k \in 1 .. Len(events) - 1 : events'[k] = events[k + 1]
  BY <1>1, TailLemma DEF TypeOK
<1>3. IdsInv' /\ MapInv' /\ ResourcesInv'
  BY <1>1 DEF IdsInv, MapInv, ResourcesInv
<1>4. RequestsInv'
  BY <1>1 DEF RequestsInv, RequestPlaced
<1>5. EventsInv'
  <2> SUFFICES ASSUME NEW k \in DOMAIN events'
               PROVE  EventPlaced(k)'
    BY DEF EventsInv
  <2>1. EventPlaced(k + 1) /\ events'[k] = events[k + 1]
    BY <1>2 DEF EventsInv
  <2>2. \A j \in DOMAIN events' : j > k =>
          j + 1 \in DOMAIN events /\ j + 1 > k + 1 /\ events'[j] = events[j + 1]
    BY <1>2
  <2>3. QED
    BY <1>1, <2>1, <2>2 DEF EventPlaced
<1>6. QED
  BY <1>3, <1>4, <1>5

LEMMA AcceptNewStep ==
  ASSUME IInv, AcceptNew
  PROVE  (IdsInv /\ MapInv /\ RequestsInv /\ ResourcesInv /\ EventsInv)'
<1> USE DEF IInv
<1> DEFINE r == Head(requests)
           p == r.proxy
<1>1. /\ requests # <<>> /\ r.op = "new"
      /\ requests' = Tail(requests)
      /\ UNCHANGED <<ids, objects, oid, destroyed, events>>
      /\ Held' = Held
  BY DEF AcceptNew, Held
<1>2. /\ DOMAIN requests = 1 .. Len(requests)
      /\ Len(requests) \in Nat \ {0}
      /\ r = requests[1]
      /\ DOMAIN requests' = 1 .. Len(requests) - 1
      /\ \A k \in 1 .. Len(requests) - 1 : requests'[k] = requests[k + 1]
  BY <1>1, TailLemma DEF TypeOK
<1>3. /\ p \in Held /\ r.id = oid[p]
      /\ r.id \notin DOMAIN resources
      /\ \A j \in DOMAIN requests :
            requests[j].proxy = p /\ requests[j].op = "new" => j = 1
  <2>1. RequestPlaced(1)
    BY <1>2 DEF RequestsInv
  <2>2. QED
    BY <1>1, <1>2, <2>1 DEF RequestPlaced
<1>4. /\ DOMAIN resources' = DOMAIN resources \cup {r.id}
      /\ resources'[r.id] = p
      /\ \A i \in DOMAIN resources : resources'[i] = resources[i]
  BY <1>1, <1>3 DEF AcceptNew, MapCreate
<1>5. IdsInv' /\ MapInv'
  BY <1>1 DEF IdsInv, MapInv
<1>6. \A q \in Held : oid[q] = oid[p] => q = p
  BY <1>3 DEF IdsInv
<1>7. ResourcesInv'
  <2>1. \A i \in DOMAIN resources' : resources'[i] \in Held' /\ oid'[resources'[i]] = i
    BY <1>1, <1>3, <1>4 DEF ResourcesInv
  <2>2. ASSUME NEW q \in Held' \ destroyed', oid'[q] \notin DOMAIN resources'
        PROVE  \E k \in DOMAIN requests' :
                 requests'[k].proxy = q /\ requests'[k].op = "new"
    <3>1. PICK k \in DOMAIN requests : requests[k].proxy = q /\ requests[k].op = "new"
      BY <1>1, <1>4, <2>2 DEF ResourcesInv
    <3>2. k # 1
      BY <1>1, <1>2, <1>3, <1>4, <2>2, <3>1
    <3>3. k - 1 \in DOMAIN requests' /\ requests'[k - 1] = requests[k]
      BY <1>2, <3>2
    <3>4. QED
      BY <3>1, <3>3
  <2>3. QED
    BY <2>1, <2>2 DEF ResourcesInv
<1>8. RequestsInv'
  <2> SUFFICES ASSUME NEW k \in DOMAIN requests'
               PROVE  RequestPlaced(k)'
    BY DEF RequestsInv
  <2>1. k + 1 \in DOMAIN requests /\ requests'[k] = requests[k + 1] /\ k + 1 # 1
    BY <1>2
  <2>2. RequestPlaced(k + 1)
    BY <2>1 DEF RequestsInv
  <2>3. \A j \in DOMAIN requests' :
          j + 1 \in DOMAIN requests /\ requests'[j] = requests[j + 1]
    BY <1>2
  <2> DEFINE s == requests[k + 1]
  <2>4. /\ s.proxy \in Held' /\ s.id = oid'[s.proxy]
        /\ \A j \in DOMAIN requests' :
             requests'[j].proxy = s.proxy /\ requests'[j].op = s.op => j = k
    BY <1>1, <1>2, <2>1, <2>2, <2>3 DEF RequestPlaced
  <2>5. s.op = "new" => s.id \notin DOMAIN resources'
    BY <1>3, <1>4, <1>6, <2>1, <2>2 DEF RequestPlaced
  <2>6. ASSUME s.op = "destroy"
        PROVE  /\ s.proxy \in destroyed'
               /\ \/ s.id \in DOMAIN resources'
                  \/ \E j \in DOMAIN requests' :
                       /\ j < k /\ requests'[j].proxy = s.proxy
                       /\ requests'[j].op = "new"
               /\ \A j \in DOMAIN requests' : requests'[j].proxy = s.proxy => j <= k
    <3>1. s.proxy \in destroyed'
      BY <1>1, <2>2, <2>6 DEF RequestPlaced
    <3>2. \A j \in DOMAIN requests' : requests'[j].proxy = s.proxy => j <= k
      BY <1>2, <2>2, <2>3, <2>6 DEF RequestPlaced
    <3>3. ASSUME s.id \notin DOMAIN resources'
          PROVE  \E j \in DOMAIN requests' :
                   /\ j < k /\ requests'[j].proxy = s.proxy
                   /\ requests'[j].op = "new"
      <4>1. PICK j \in DOMAIN requests :
              j < k + 1 /\ requests[j].proxy = s.proxy /\ requests[j].op = "new"
        BY <1>4, <2>2, <2>6, <3>3 DEF RequestPlaced
      <4>2. j # 1
        BY <1>2, <1>3, <1>4, <2>2, <3>3, <4>1 DEF RequestPlaced
      <4>3. /\ j - 1 \in DOMAIN requests' /\ j - 1 < k
            /\ requests'[j - 1] = requests[j]
        BY <1>2, <4>1, <4>2
      <4>4. QED
        BY <4>1, <4>3
    <3>4. QED
      BY <3>1, <3>2, <3>3
  <2>7. QED
    BY <2>1, <2>4, <2>5, <2>6 DEF RequestPlaced
<1>9. EventsInv'
  <2> SUFFICES ASSUME NEW k \in DOMAIN events'
               PROVE  EventPlaced(k)'
    BY DEF EventsInv
  <2>1. EventPlaced(k)
    BY <1>1 DEF EventsInv
  <2>2. events[k].ev = "delete_id" => events[k].proxy # p
    BY <1>2, <2>1 DEF EventPlaced
  <2>3. \A j \in DOMAIN requests' :
          j + 1 \in DOMAIN requests /\ requests'[j] = requests[j + 1]
    BY <1>2
  <2>4. QED
    BY <1>1, <1>3, <1>4, <1>6, <2>1, <2>2, <2>3 DEF EventPlaced
<1>10. QED
  BY <1>5, <1>7, <1>8, <1>9

LEMMA AcceptDestroyStep ==
  ASSUME IInv, AcceptDestroy
  PROVE  (IdsInv /\ MapInv /\ RequestsInv /\ ResourcesInv /\ EventsInv)'
<1> USE DEF IInv
<1> DEFINE r == Head(requests)
           p == r.proxy
           d == [ev |-> "delete_id", id |-> r.id, proxy |-> p]
<1>1. /\ requests # <<>> /\ r.op = "destroy"
      /\ requests' = Tail(requests)
      /\ UNCHANGED <<ids, objects, oid, destroyed>>
      /\ Held' = Held
  BY DEF AcceptDestroy, Held
<1>2. /\ DOMAIN requests = 1 .. Len(requests)
      /\ Len(requests) \in Nat \ {0}
      /\ r = requests[1] /\ r \in Request
      /\ DOMAIN requests' = 1 .. Len(requests) - 1
      /\ \A k \in 1 .. Len(requests) - 1 : requests'[k] = requests[k + 1]
  BY <1>1, TailLemma DEF TypeOK
\* The request is the only one left about its object, which is still known.
<1>3. /\ p \in Held \cap destroyed /\ r.id = oid[p]
      /\ r.id \in DOMAIN resources
      /\ \A j \in DOMAIN requests : requests[j].proxy = p => j = 1
  <2>1. RequestPlaced(1)
    BY <1>2 DEF RequestsInv
  <2>2. \A j \in DOMAIN requests : ~(j < 1) /\ (j <= 1 => j = 1)
    BY <1>2
  <2>3. QED
    BY <1>1, <1>2, <2>1, <2>2 DEF RequestPlaced
<1>4. \A q \in Held : oid[q] = oid[p] => q = p
  BY <1>3 DEF IdsInv
<1>5. resources[r.id] = p
  BY <1>3, <1>4 DEF ResourcesInv
<1>6. /\ resources' = MapDestroy(resources, r.id)
      /\ events' = Append(events, d)
  BY <1>3, <1>5 DEF AcceptDestroy
<1>7. /\ DOMAIN resources' = DOMAIN resources \ {r.id}
      /\ \A i \in DOMAIN resources' : resources'[i] = resources[i]
  BY <1>6 DEF MapDestroy
<1>8. /\ DOMAIN events' = 1 .. Len(events) + 1
      /\ DOMAIN events = 1 .. Len(events)
      /\ Len(events) \in Nat
      /\ events'[Len(events) + 1] = d
      /\ \A k \in 1 .. Len(events) : events'[k] = events[k]
  <2>1. d \in Event
    BY <1>2 DEF Event, Request
  <2>2. events \in Seq(Event)
    BY DEF TypeOK
  <2>3. QED
    BY <1>6, <2>1, <2>2, AppendLemma
<1>9. IdsInv' /\ MapInv'
  BY <1>1 DEF IdsInv, MapInv
<1>10. \A j \in DOMAIN requests' :
         j + 1 \in DOMAIN requests /\ requests'[j] = requests[j + 1]
                                  /\ requests'[j].proxy # p
  BY <1>2, <1>3
<1>11. ResourcesInv'
  <2>1. \A i \in DOMAIN resources' : resources'[i] \in Held' /\ oid'[resources'[i]] = i
    BY <1>1, <1>7 DEF ResourcesInv
  <2>2. ASSUME NEW q \in Held' \ destroyed', oid'[q] \notin DOMAIN resources'
        PROVE  \E k \in DOMAIN requests' :
                 requests'[k].proxy = q /\ requests'[k].op = "new"
    <3>1. q # p /\ oid[q] # oid[p]
      BY <1>1, <1>3, <1>4, <2>2
    <3>2. PICK k \in DOMAIN requests : requests[k].proxy = q /\ requests[k].op = "new"
      BY <1>1, <1>3, <1>7, <2>2, <3>1 DEF ResourcesInv
    <3>3. k - 1 \in DOMAIN requests' /\ requests'[k - 1] = requests[k]
      BY <1>1, <1>2, <3>2
    <3>4. QED
      BY <3>2, <3>3
  <2>3. QED
    BY <2>1, <2>2 DEF ResourcesInv
<1>12. RequestsInv'
  <2> SUFFICES ASSUME NEW k \in DOMAIN requests'
               PROVE  RequestPlaced(k)'
    BY DEF RequestsInv
  <2> DEFINE s == requests[k + 1]
  <2>1. k + 1 \in DOMAIN requests /\ requests'[k] = s /\ s.proxy # p
    BY <1>10
  <2>2. RequestPlaced(k + 1)
    BY <2>1 DEF RequestsInv
  <2>3. /\ s.proxy \in Held' /\ s.id = oid'[s.proxy]
        /\ \A j \in DOMAIN requests' :
             requests'[j].proxy = s.proxy /\ requests'[j].op = s.op => j = k
    BY <1>1, <1>2, <1>10, <2>1, <2>2 DEF RequestPlaced
  <2>4. s.op = "new" => s.id \notin DOMAIN resources'
    BY <1>7, <2>2 DEF RequestPlaced
  <2>5. ASSUME s.op = "destroy"
        PROVE  /\ s.proxy \in destroyed'
               /\ \/ s.id \in DOMAIN resources'
                  \/ \E j \in DOMAIN requests' :
                       /\ j < k /\ requests'[j].proxy = s.proxy
                       /\ requests'[j].op = "new"
               /\ \A j \in DOMAIN requests' : requests'[j].proxy = s.proxy => j <= k
    <3>1. s.proxy \in destroyed' /\ s.id # r.id
      BY <1>1, <1>3, <1>4, <2>1, <2>2, <2>5 DEF RequestPlaced
    <3>2. \A j \in DOMAIN requests' : requests'[j].proxy = s.proxy => j <= k
      BY <1>2, <1>10, <2>2, <2>5 DEF RequestPlaced
    <3>3. ASSUME s.id \notin DOMAIN resources'
          PROVE  \E j \in DOMAIN requests' :
                   /\ j < k /\ requests'[j].proxy = s.proxy
                   /\ requests'[j].op = "new"
      <4>1. PICK j \in DOMAIN requests :
              j < k + 1 /\ requests[j].proxy = s.proxy /\ requests[j].op = "new"
        BY <1>7, <2>2, <2>5, <3>1, <3>3 DEF RequestPlaced
      <4>2. j # 1
        BY <1>1, <1>2, <4>1
      <4>3. /\ j - 1 \in DOMAIN requests' /\ j - 1 < k
            /\ requests'[j - 1] = requests[j]
        BY <1>2, <4>1, <4>2
      <4>4. QED
        BY <4>1, <4>3
    <3>4. QED
      BY <3>1, <3>2, <3>3
  <2>6. QED
    BY <2>1, <2>3, <2>4, <2>5 DEF RequestPlaced
<1>13. EventsInv'
  <2> SUFFICES ASSUME NEW k \in DOMAIN events'
               PROVE  EventPlaced(k)'
    BY DEF EventsInv
  <2>1. CASE k = Len(events) + 1
    BY <1>1, <1>3, <1>7, <1>8, <1>10, <2>1 DEF EventPlaced
  <2>2. CASE k \in 1 .. Len(events)
    <3>1. EventPlaced(k) /\ events'[k] = events[k]
      BY <1>8, <2>2 DEF EventsInv
    <3>2. events[k].ev = "delete_id" => events[k].proxy # p
      BY <1>2, <3>1 DEF EventPlaced
    <3>3. QED
      BY <1>1, <1>7, <1>8, <1>10, <2>2, <3>1, <3>2 DEF EventPlaced
  <2>3. QED
    BY <1>8, <2>1, <2>2
<1>14. QED
  BY <1>9, <1>11, <1>12, <1>13

LEMMA EmitStep ==
  ASSUME IInv, NEW i \in DOMAIN resources, Emit(i)
  PROVE  (IdsInv /\ MapInv /\ RequestsInv /\ ResourcesInv /\ EventsInv)'
<1> USE DEF IInv
<1> DEFINE e == [ev |-> "event", id |-> i, proxy |-> resources[i]]
<1>1. /\ resources[i] \in Registered
      /\ events' = Append(events, e)
      /\ UNCHANGED <<ids, objects, oid, destroyed, requests, resources>>
      /\ Held' = Held
  BY DEF Emit, Held
<1>2. resources[i] \in Held /\ oid[resources[i]] = i
  BY DEF ResourcesInv
<1>3. /\ DOMAIN events' = 1 .. Len(events) + 1
      /\ DOMAIN events = 1 .. Len(events)
      /\ Len(events) \in Nat
      /\ events'[Len(events) + 1] = e
      /\ \A k \in 1 .. Len(events) : events'[k] = events[k]
  <2>1. e \in Event
    BY DEF Event, TypeOK
  <2>2. events \in Seq(Event)
    BY DEF TypeOK
  <2>3. QED
    BY <1>1, <2>1, <2>2, AppendLemma
<1>4. IdsInv' /\ MapInv' /\ ResourcesInv'
  BY <1>1 DEF IdsInv, MapInv, ResourcesInv
<1>5. RequestsInv'
  BY <1>1 DEF RequestsInv, RequestPlaced
<1>6. EventsInv'
  <2> SUFFICES ASSUME NEW k \in DOMAIN events'
               PROVE  EventPlaced(k)'
    BY DEF EventsInv
  <2>1. CASE k = Len(events) + 1
    BY <1>1, <1>2, <1>3, <2>1 DEF EventPlaced
  <2>2. CASE k \in 1 .. Len(events)
    <3>1. EventPlaced(k) /\ events'[k] = events[k]
      BY <1>3, <2>2 DEF EventsInv
    <3>2. events[k].ev = "delete_id" => events[k].proxy # resources[i]
      BY <1>2, <3>1 DEF EventPlaced
    <3>3. QED
      BY <1>1, <1>3, <2>2, <3>1, <3>2 DEF EventPlaced
  <2>3. QED
    BY <1>3, <2>1, <2>2
<1>7. QED
  BY <1>4, <1>5, <1>6

LEMMA IInvStep == IInv /\ [Next]_vars => IInv'
<1> SUFFICES ASSUME IInv, [Next]_vars PROVE IInv'
  OBVIOUS
<1> DEFINE Goal == (IdsInv /\ MapInv /\ RequestsInv /\ ResourcesInv /\ EventsInv)'
<1>1. TypeOK'
  BY TypeStep DEF IInv
<1>2. CASE ConstructThrows \/ UNCHANGED vars
  <2>1. UNCHANGED <<ids, objects, oid, destroyed, requests, events, resources>>
    BY <1>2 DEF ConstructThrows, vars
  <2>2. Held' = Held
    BY <2>1 DEF Held
  <2>3. Goal
    BY <2>1, <2>2 DEF IInv, IdsInv, MapInv, RequestsInv, RequestPlaced, ResourcesInv,
                      EventsInv, EventPlaced
  <2>4. QED
    BY <1>1, <2>3 DEF IInv
<1>3. CASE \E p \in Proxies : Construct(p) \/ Destroy(p)
  BY <1>1, <1>3, ConstructStep, DestroyStep DEF IInv
<1>4. CASE Read
  BY <1>1, <1>4, ReadDeleteIdStep, ReadEventStep DEF IInv, Read
<1>5. CASE Accept
  BY <1>1, <1>5, AcceptNewStep, AcceptDestroyStep DEF IInv, Accept
<1>6. CASE \E i \in DOMAIN resources : Emit(i)
  BY <1>1, <1>6, EmitStep DEF IInv
<1>7. QED
  BY <1>2, <1>3, <1>4, <1>5, <1>6 DEF Next

LEMMA InitInv == Init => IInv
  BY DEF Init, IInv, TypeOK, IdsInv, MapInv, RequestsInv, ResourcesInv, EventsInv, Held

\* The invariant that places every message in flight holds of every behaviour.
THEOREM Invariant == Spec => []IInv
  BY InitInv, IInvStep, PTL DEF Spec

-----------------------------------------------------------------------------
(* What the tables and the two ends of the connection rely on. *)

LEMMA IInvTables == IInv => TablesAgree
  BY DEF IInv, IdsInv, MapInv, TablesAgree

LEMMA IInvRequests == IInv => RequestsServable
<1> SUFFICES ASSUME IInv, requests # <<>>
             PROVE  LET r == Head(requests) IN
                      /\ r.op = "new" => r.id \notin DOMAIN resources
                      /\ r.op = "destroy" => /\ r.id \in DOMAIN resources
                                             /\ resources[r.id] = r.proxy
  BY DEF RequestsServable
<1> DEFINE r == Head(requests)
<1>1. r = requests[1] /\ 1 \in DOMAIN requests /\ DOMAIN requests \subseteq Nat \ {0}
  BY TailLemma DEF IInv, TypeOK
<1>2. RequestPlaced(1)
  BY <1>1 DEF IInv, RequestsInv
<1>3. r.op = "new" => r.id \notin DOMAIN resources
  BY <1>1, <1>2 DEF RequestPlaced
<1>4. r.op = "destroy" => r.id \in DOMAIN resources
  BY <1>1, <1>2 DEF RequestPlaced
<1>5. r.op = "destroy" => resources[r.id] = r.proxy
  BY <1>1, <1>2, <1>4 DEF RequestPlaced, IInv, ResourcesInv, IdsInv
<1>6. QED
  BY <1>3, <1>4, <1>5

LEMMA IInvEvents == IInv => EventsDeliverable
<1> SUFFICES ASSUME IInv, events # <<>>
             PROVE  LET e == Head(events) IN
                      /\ e.ev = "delete_id" => e.id \in ids
                      /\ e.ev = "event" => /\ e.id \in DOMAIN objects
                                           /\ objects[e.id] = e.proxy
  BY DEF EventsDeliverable
<1> DEFINE e == Head(events)
<1>1. e = events[1] /\ 1 \in DOMAIN events
  BY TailLemma DEF IInv, TypeOK
<1>2. EventPlaced(1)
  BY <1>1 DEF IInv, EventsInv
<1>3. QED
  BY <1>1, <1>2 DEF EventPlaced, IInv, IdsInv, MapInv

\* Objects never share an id and wl_id_map mirrors the objects that hold one.
THEOREM TablesAlwaysAgree == Spec => []TablesAgree
  BY Invariant, IInvTables, PTL

\* The compositor never sees an id it already uses, nor a destroy of the wrong object.
THEOREM RequestsAlwaysServable == Spec => []RequestsServable
  BY Invariant, IInvRequests, PTL

\* release_id never throws, and no event reaches an object it was not sent to.
THEOREM EventsAlwaysDeliverable == Spec => []EventsDeliverable
  BY Invariant, IInvEvents, PTL

-----------------------------------------------------------------------------
(* ObjectIds implements IdLifecycle. *)

LEMMA InitRefines == Init => Lifecycle!Init
  BY DEF Init, Lifecycle!Init, Use

LEMMA ConstructClaims ==
  ASSUME IInv, NEW p \in Proxies, Construct(p)
  PROVE  Lifecycle!Next
<1>1. PICK i \in Ids :
        /\ RequestId(ids, i)
        /\ ids' = ids \cup {i}
        /\ oid' = [oid EXCEPT ![p] = i]
  BY DEF Construct
<1>2. /\ destroyed' = destroyed /\ p \notin destroyed
      /\ \A q \in destroyed : oid'[q] = oid[q] /\ oid[q] \in ids
  BY <1>1 DEF Construct, IInv, IdsInv, TypeOK
<1>3. Use[i] = "free" /\ \A j \in Ids : j < i => Use[j] # "free"
  BY <1>1, IdRangeAssumption DEF Use, RequestId, Ids
<1>4. Use' = [Use EXCEPT ![i] = "live"]
  <2>1. Use'[i] = "live"
    BY <1>1, <1>2 DEF Use, RequestId
  <2>2. \A j \in Ids : j # i => Use'[j] = Use[j]
    BY <1>1, <1>2 DEF Use
  <2>3. /\ Use = [j \in Ids |-> Use[j]]
        /\ Use' = [j \in Ids |-> Use'[j]]
    BY DEF Use
  <2>4. QED
    BY <2>1, <2>2, <2>3
<1>5. QED
  BY <1>3, <1>4 DEF Lifecycle!Next, Lifecycle!Claim

LEMMA DestroyRetires ==
  ASSUME IInv, NEW p \in Proxies, Destroy(p)
  PROVE  Lifecycle!Next
<1>1. /\ p \in Held \ destroyed /\ oid[p] \in Ids
      /\ destroyed' = destroyed \cup {p}
      /\ UNCHANGED <<ids, oid>>
  BY DEF Destroy, Held, IInv, TypeOK
<1>2. oid[p] \in ids /\ \A q \in destroyed : oid[q] # oid[p]
  BY <1>1 DEF IInv, IdsInv
<1>3. Use[oid[p]] = "live"
  BY <1>1, <1>2 DEF Use
<1>4. Use' = [Use EXCEPT ![oid[p]] = "zombie"]
  <2>1. Use'[oid[p]] = "zombie"
    BY <1>1, <1>2 DEF Use
  <2>2. \A j \in Ids : j # oid[p] => Use'[j] = Use[j]
    BY <1>1 DEF Use
  <2>3. QED
    BY <2>1, <2>2, ZenonT(60) DEF Use
<1>5. QED
  BY <1>1, <1>3, <1>4 DEF Lifecycle!Next, Lifecycle!Retire

LEMMA ReadDeleteIdRecycles ==
  ASSUME IInv, ReadDeleteId
  PROVE  Lifecycle!Next
<1> DEFINE e == Head(events)
           p == e.proxy
<1>1. /\ events # <<>> /\ e.ev = "delete_id"
      /\ 1 \in DOMAIN events /\ e = events[1]
  BY TailLemma DEF ReadDeleteId, IInv, TypeOK
<1>2. p \in Held \cap destroyed /\ e.id = oid[p]
  BY <1>1 DEF IInv, EventsInv, EventPlaced, IdsInv
<1>3. /\ e.id \in ids /\ e.id \in Ids
      /\ ids' = ids \ {e.id}
      /\ oid' = [oid EXCEPT ![p] = NULL_OBJ_ID]
      /\ destroyed' = destroyed \ {p}
  BY <1>2 DEF ReadDeleteId, ReleaseId, IInv, IdsInv, TypeOK
<1>4. \A q \in destroyed' : oid'[q] = oid[q] /\ oid[q] # e.id
  BY <1>2, <1>3 DEF IInv, IdsInv, TypeOK
<1>5. Use[e.id] = "zombie"
  BY <1>2, <1>3 DEF Use
<1>6. Use' = [Use EXCEPT ![e.id] = "free"]
  <2>1. Use'[e.id] = "free"
    BY <1>3 DEF Use
  <2>2. ASSUME NEW j \in Ids, j # e.id PROVE Use'[j] = Use[j]
    <3>1. (\E q \in destroyed' : oid'[q] = j) <=> (\E q \in destroyed : oid[q] = j)
      BY <1>2, <1>3, <1>4, <2>2
    <3>2. QED
      BY <1>3, <2>2, <3>1 DEF Use
  <2>3. QED
    BY <2>1, <2>2, ZenonT(60) DEF Use
<1>7. QED
  BY <1>3, <1>5, <1>6 DEF Lifecycle!Next, Lifecycle!Recycle

LEMMA StepRefines == IInv /\ [Next]_vars => [Lifecycle!Next]_Use
<1> SUFFICES ASSUME IInv, [Next]_vars PROVE [Lifecycle!Next]_Use
  OBVIOUS
<1>1. ASSUME UNCHANGED <<ids, oid, destroyed>> PROVE UNCHANGED Use
  BY <1>1 DEF Use
<1>2. CASE \E p \in Proxies : Construct(p) \/ Destroy(p)
  BY <1>2, ConstructClaims, DestroyRetires
<1>3. CASE ReadDeleteId
  BY <1>3, ReadDeleteIdRecycles
<1>4. CASE ConstructThrows \/ ReadEvent \/ Accept \/ UNCHANGED vars
  BY <1>1, <1>4 DEF ConstructThrows, ReadEvent, Accept, AcceptNew, AcceptDestroy, vars
<1>5. CASE \E i \in DOMAIN resources : Emit(i)
  BY <1>1, <1>5 DEF Emit
<1>6. QED
  BY <1>2, <1>3, <1>4, <1>5 DEF Next, Read

\* The id tables and their messages implement the life cycle of an id: no id is
\* handed out again before the compositor let go of it, and the least free id
\* is always the next.
THEOREM Implements == Spec => LifecycleSpec
<1>1. Init /\ []IInv /\ [][Next]_vars => Lifecycle!Init /\ [][Lifecycle!Next]_Use
  BY InitRefines, StepRefines, PTL
<1>2. QED
  BY <1>1, Invariant, PTL DEF Spec, LifecycleSpec, Lifecycle!Spec

=============================================================================

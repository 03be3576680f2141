------------------------- MODULE NanDiscoveryProofs -------------------------
(***************************************************************************)
(* Types, one listener per service, a live iterator, services that end     *)
(* only when a follow-up means them, follow-ups that are addressed and     *)
(* announcements that stay within their limit, for any number of devices,  *)
(* names, services and frames.                                             *)
(***************************************************************************)
EXTENDS NanDiscovery, WellFoundedInduction, SequenceTheorems, TLAPS

----------------------------------------------------------------------------
(* Positions in lists. *)

\* Min of a set of positions is its least element.
LEMMA Least ==
    ASSUME NEW I \in SUBSET Nat, I # {}
    PROVE  Min(I) \in I /\ \A j \in I : Min(I) <= j
<1> DEFINE below == { p \in Nat \X Nat : p[1] < p[2] }
<1>1. IsWellFoundedOn(below, Nat)
  BY NatLessThanWellFounded, Zenon DEF OpToRel
<1> HIDE DEF below
<1>2. PICK x \in I : \A y \in I : ~ (<<y, x>> \in below)
  BY <1>1, WFMin
<1>3. ASSUME NEW y \in I PROVE x <= y
  <2>1. x \in Nat /\ y \in Nat
    OBVIOUS
  <2>2. y < x => <<y, x>> \in below
    BY <2>1 DEF below
  <2> QED
    BY <1>2, <2>1, <2>2
<1> QED
  BY <1>3 DEF Min

\* LIST_FIND on the listeners finds the first one with the function.
LEMMA FirstListenerFound ==
    ASSUME NEW ls \in Seq(Listener), NEW e
    PROVE  LET k == FirstListener(ls, e) IN
           \/ k = 0 /\ \A i \in 1..Len(ls) : ls[i].event # e
           \/ /\ k \in 1..Len(ls)
              /\ ls[k].event = e
              /\ \A i \in 1..Len(ls) : ls[i].event = e => k <= i
<1> DEFINE I == { i \in 1..Len(ls) : ls[i].event = e }
<1>1. FirstListener(ls, e) = IF I # {} THEN Min(I) ELSE 0
  BY DEF FirstListener, SelectInSeq
<1>2. I \in SUBSET Nat
  OBVIOUS
<1>3. I # {} => Min(I) \in I /\ \A j \in I : Min(I) <= j
  BY <1>2, Least
<1> QED
  BY <1>1, <1>3

\* LIST_FIND on services: 0 if and only if no service has the instance id.
LEMMA InstanceFound ==
    ASSUME NEW services \in Seq(Service), NEW i
    PROVE  LET k == FindInstance(services, i) IN
           \/ k = 0 /\ \A j \in 1..Len(services) : services[j].instance_id # i
           \/ k \in 1..Len(services) /\ services[k].instance_id = i
<1> DEFINE I == { j \in 1..Len(services) : services[j].instance_id = i }
<1>1. FindInstance(services, i) = IF I # {} THEN Min(I) ELSE 0
  BY DEF FindInstance, SelectInSeq
<1>2. I \in SUBSET Nat
  OBVIOUS
<1>3. I # {} => Min(I) \in I
  BY <1>2, Least
<1> QED
  BY <1>1, <1>3

\* Removing an entry leaves a list that is shorter by one.
LEMMA RemoveAtShortens ==
    ASSUME NEW S, NEW s \in Seq(S), NEW k \in 1..Len(s)
    PROVE  RemoveAt(s, k) \in Seq(S) /\ Len(RemoveAt(s, k)) = Len(s) - 1
<1> DEFINE left  == SubSeq(s, 1, k - 1)
           right == SubSeq(s, k + 1, Len(s))
<1>1. left \in Seq(S) /\ Len(left) = k - 1
  BY SubSeqProperties
<1>2. right \in Seq(S) /\ Len(right) = Len(s) - k
  BY SubSeqProperties
<1>3. RemoveAt(s, k) = left \o right
  BY DEF RemoveAt
<1> HIDE DEF left, right
<1>4. left \o right \in Seq(S) /\ Len(left \o right) = Len(left) + Len(right)
  BY <1>1, <1>2, ConcatProperties
<1> QED
  BY <1>1, <1>2, <1>3, <1>4

\* Cancelling a service that is there leaves a list shorter by one.
LEMMA CancelShortens ==
    ASSUME NEW services \in Seq(Service), NEW i, FindInstance(services, i) # 0
    PROVE  Cancel(services, i) \in Seq(Service) /\ Len(Cancel(services, i)) = Len(services) - 1
<1>1. FindInstance(services, i) \in 1..Len(services)
  BY InstanceFound
<1> QED
  BY <1>1, RemoveAtShortens DEF Cancel

\* Found in both lists together means found in one of them.
LEMMA FoundInOneList ==
    ASSUME NEW s \in Seq(Service), NEW p \in Seq(Service), NEW i,
           FindInstance(s \o p, i) # 0, FindInstance(s, i) = 0
    PROVE  FindInstance(p, i) # 0
<1>1. s \o p \in Seq(Service) /\ Len(s \o p) = Len(s) + Len(p)
      /\ \A j \in 1..Len(s) + Len(p) :
            (s \o p)[j] = IF j <= Len(s) THEN s[j] ELSE p[j - Len(s)]
  BY ConcatProperties
<1>2. PICK k \in 1..Len(s \o p) : (s \o p)[k].instance_id = i
  BY <1>1, InstanceFound
<1>3. CASE k <= Len(s)
  BY <1>1, <1>2, <1>3, InstanceFound
<1>4. CASE k > Len(s)
  <2>1. k - Len(s) \in 1..Len(p) /\ p[k - Len(s)].instance_id = i
    BY <1>1, <1>2, <1>4
  <2> QED
    BY <2>1, InstanceFound
<1> QED
  BY <1>1, <1>3, <1>4

\* The next listener to be called is not before the iterator and matches.
LEMMA NextListenerFound ==
    ASSUME NEW d, d.listeners \in Seq(Listener), d.next \in Nat, NextListener(d) # 0
    PROVE  LET k == NextListener(d) IN
           /\ k \in 1..Len(d.listeners) /\ d.next <= k
           /\ d.event # NoEvent /\ d.listeners[k].event = d.event.event
<1> DEFINE I == { j \in d.next..Len(d.listeners) : matches_event(d.listeners[j], d.event) }
<1>1. d.event # NoEvent /\ d.next \in Nat \ {0}
  BY DEF NextListener, End
<1>2. NextListener(d) = IF I # {} THEN Min(I) ELSE 0
  BY <1>1 DEF NextListener, SelectInSubSeq, End, Freed
<1>3. I \in SUBSET Nat
  BY <1>1
<1>4. NextListener(d) \in I
  BY <1>2, <1>3, Least
<1> QED
  BY <1>1, <1>4 DEF matches_event

----------------------------------------------------------------------------
(* The invariant of one device. *)

Shape(d) ==
    d = [ published |-> d.published, subscribed |-> d.subscribed,
          last_instance_id |-> d.last_instance_id, listeners |-> d.listeners,
          buffer |-> d.buffer, todo |-> d.todo, event |-> d.event, next |-> d.next ]

(***************************************************************************)
(* Well-formed, with a live iterator; the frames a device holds are left   *)
(* out, as no step of the argument depends on what they contain.           *)
(***************************************************************************)
NodeOK(d) ==
    /\ Shape(d)
    /\ d.published \in Seq(Service) /\ d.subscribed \in Seq(Service)
    /\ d.last_instance_id \in 0..(IdMod - 1)
    /\ d.listeners \in Seq(Listener)
    /\ d.event # NoEvent => d.event.event \in {"DISCOVERY_RESULT", "RECEIVE"}
    /\ d.next \in 0..Len(d.listeners)

Services(d) == Len(d.published) + Len(d.subscribed)

DeviceInv(d) == NodeOK(d) /\ Len(d.listeners) = Services(d)

----------------------------------------------------------------------------
(* Steps of one device. *)

\* nan_add_event_listener changes the listeners only, by one more.
LEMMA AddListener ==
    ASSUME NEW d, NodeOK(d), NEW e \in {"DISCOVERY_RESULT", "RECEIVE"}, NEW name \in Name
    PROVE  LET r == nan_add_event_listener(d, e, name) IN
           /\ NodeOK(r)
           /\ Services(r) = Services(d)
           /\ Len(r.listeners) = Len(d.listeners) + 1
<1> DEFINE item == [ event |-> e, service_name |-> name ]
<1>1. item \in Listener
  BY DEF Listener
<1> HIDE DEF item
<1>2. /\ Append(d.listeners, item) \in Seq(Listener)
      /\ Len(Append(d.listeners, item)) = Len(d.listeners) + 1
  BY <1>1, AppendProperties DEF NodeOK
<1> DEFINE r == nan_add_event_listener(d, e, name)
<1>3. r = [ d EXCEPT !.listeners = Append(@, item) ]
  BY DEF nan_add_event_listener, item
<1>4. /\ Shape(r) /\ r.listeners = Append(d.listeners, item)
      /\ r.published = d.published /\ r.subscribed = d.subscribed
      /\ r.last_instance_id = d.last_instance_id
      /\ r.event = d.event /\ r.next = d.next
  BY <1>3 DEF NodeOK, Shape
<1> HIDE DEF r
<1>5. Len(d.listeners) \in Nat
  BY LenProperties DEF NodeOK
<1>6. NodeOK(r)
  BY <1>2, <1>4, <1>5 DEF NodeOK
<1> QED
  BY <1>2, <1>4, <1>6 DEF Services, r

(***************************************************************************)
(* Removing the first listener with a function keeps the iterator live if  *)
(* a listener with that function stands before the iterator.               *)
(***************************************************************************)
LEMMA RemoveListener ==
    ASSUME NEW d, NodeOK(d), NEW e,
           NEW k \in 1..Len(d.listeners), d.listeners[k].event = e,
           d.next = End \/ k < d.next
    PROVE  LET r == nan_remove_event_listener(d, e) IN
           /\ NodeOK(r)
           /\ Services(r) = Services(d)
           /\ Len(r.listeners) = Len(d.listeners) - 1
<1> DEFINE f == FirstListener(d.listeners, e)
           rest == RemoveAt(d.listeners, f)
           next == IF d.next = f THEN Freed ELSE IF d.next > f THEN d.next - 1 ELSE d.next
<1>1. f \in 1..Len(d.listeners) /\ f <= k
  BY FirstListenerFound DEF NodeOK
<1>2. rest \in Seq(Listener) /\ Len(rest) = Len(d.listeners) - 1
  BY <1>1, RemoveAtShortens DEF NodeOK
<1>3. nan_remove_event_listener(d, e) = [ d EXCEPT !.listeners = rest, !.next = next ]
  BY <1>1 DEF nan_remove_event_listener
<1>4. next \in 0..(Len(d.listeners) - 1)
  BY <1>1 DEF NodeOK, End, Freed
<1> HIDE DEF f, rest, next
<1> DEFINE r == nan_remove_event_listener(d, e)
<1>5. /\ Shape(r) /\ r.listeners = rest /\ r.next = next
      /\ r.published = d.published /\ r.subscribed = d.subscribed
      /\ r.last_instance_id = d.last_instance_id /\ r.event = d.event
  BY <1>3 DEF NodeOK, Shape
<1> HIDE DEF r
<1>6. NodeOK(r)
  BY <1>2, <1>4, <1>5 DEF NodeOK
<1> QED
  BY <1>2, <1>5, <1>6 DEF Services, r

\* An iterator that moves past the listener it is about to call.
LEMMA AdvanceInv ==
    ASSUME NEW d, NodeOK(d), NEW k \in 1..Len(d.listeners)
    PROVE  LET r == Advance(d, k) IN
           /\ NodeOK(r) /\ Services(r) = Services(d) /\ r.listeners = d.listeners
           /\ r.published = d.published /\ r.subscribed = d.subscribed
           /\ r.event = d.event
           /\ r.next = End \/ k < r.next
<1> DEFINE r == Advance(d, k)
           next == IF k = Len(d.listeners) THEN End ELSE k + 1
<1>1. /\ Shape(r) /\ r.listeners = d.listeners /\ r.next = next
      /\ r.published = d.published /\ r.subscribed = d.subscribed
      /\ r.last_instance_id = d.last_instance_id /\ r.event = d.event
  BY DEF Advance, NodeOK, Shape
<1>2. next \in 0..Len(d.listeners) /\ (next = End \/ k < next)
  BY LenProperties DEF NodeOK, End
<1> HIDE DEF r, next
<1>3. NodeOK(r)
  BY <1>1, <1>2 DEF NodeOK
<1> QED
  BY <1>1, <1>2, <1>3 DEF Services, r

\* nan_transmit touches the buffer only.
LEMMA TransmitInv ==
    ASSUME NEW d, NodeOK(d), NEW self, NEW destination, NEW service, NEW i
    PROVE  LET r == nan_transmit(d, self, destination, service, i) IN
           /\ NodeOK(r) /\ Services(r) = Services(d) /\ r.listeners = d.listeners
           /\ r.next = d.next
BY DEF nan_transmit, NodeOK, Services, Shape

\* The listener for a discovery result is replaced by one for follow-ups.
LEMMA DiscoveryResultInv ==
    ASSUME NEW d, DeviceInv(d), NEW self, NEW event,
           NEW k \in 1..Len(d.listeners), d.listeners[k].event = "DISCOVERY_RESULT",
           d.next = End \/ k < d.next
    PROVE  DeviceInv(handle_event_discovery_result(d, self, event))
<1> DEFINE j == FindInstance(d.subscribed, event.instance_id)
           service == d.subscribed[j]
           sent == nan_transmit(d, self, event.address, service, event.peer_instance_id)
           removed == nan_remove_event_listener(sent, "DISCOVERY_RESULT")
<1>1. CASE j = 0
  BY <1>1 DEF handle_event_discovery_result
<1>2. CASE j # 0
  <2>1. service \in Service
    BY <1>2, InstanceFound, ElementOfSeq DEF DeviceInv, NodeOK
  <2>2. /\ NodeOK(sent) /\ Services(sent) = Services(d)
        /\ sent.listeners = d.listeners /\ sent.next = d.next
    BY TransmitInv DEF DeviceInv
  <2>3. handle_event_discovery_result(d, self, event)
            = nan_add_event_listener(removed, "RECEIVE", service.name)
    BY <1>2 DEF handle_event_discovery_result
  <2> HIDE DEF service, sent
  <2>4. /\ NodeOK(removed) /\ Services(removed) = Services(d)
        /\ Len(removed.listeners) = Len(d.listeners) - 1
    BY <2>2, RemoveListener
  <2>5. service.name \in Name
    BY <2>1 DEF Service
  <2> HIDE DEF removed
  <2> QED
    <3>1. /\ NodeOK(nan_add_event_listener(removed, "RECEIVE", service.name))
          /\ Services(nan_add_event_listener(removed, "RECEIVE", service.name)) = Services(d)
          /\ Len(nan_add_event_listener(removed, "RECEIVE", service.name).listeners)
                = Len(d.listeners) - 1 + 1
      BY <2>4, <2>5, AddListener
    <3>2. Len(d.listeners) \in Nat
      BY LenProperties DEF DeviceInv, NodeOK
    <3> QED
      BY <2>3, <3>1, <3>2 DEF DeviceInv
<1> QED
  BY <1>1, <1>2

\* The end of a service that exists: one service less, the listeners as before.
LEMMA EndServiceInv ==
    ASSUME NEW d, NodeOK(d), NEW i, FindInstance(d.subscribed \o d.published, i) # 0
    PROVE  LET r == EndService(d, i) IN
           /\ NodeOK(r) /\ Services(r) = Services(d) - 1
           /\ r.listeners = d.listeners /\ r.next = d.next
<1>1. d.published \in Seq(Service) /\ d.subscribed \in Seq(Service)
  BY DEF NodeOK
<1>2. CASE FindInstance(d.subscribed, i) # 0
  <2> DEFINE rest == Cancel(d.subscribed, i)
  <2>1. rest \in Seq(Service) /\ Len(rest) = Len(d.subscribed) - 1
    BY <1>1, <1>2, CancelShortens
  <2> DEFINE r == EndService(d, i)
  <2>2. /\ Shape(r) /\ r.subscribed = rest /\ r.published = d.published
        /\ r.listeners = d.listeners /\ r.next = d.next
        /\ r.last_instance_id = d.last_instance_id /\ r.event = d.event
    BY <1>2 DEF EndService, NodeOK, Shape
  <2> HIDE DEF rest, r
  <2>3. NodeOK(r)
    BY <1>1, <2>1, <2>2 DEF NodeOK
  <2>4. Len(d.published) \in Nat /\ Len(d.subscribed) \in Nat
    BY <1>1, LenProperties
  <2>5. Len(r.published) = Len(d.published) /\ Len(r.subscribed) = Len(d.subscribed) - 1
    BY <2>1, <2>2
  <2>6. Services(r) = Services(d) - 1
    BY <2>4, <2>5 DEF Services
  <2> QED
    BY <2>2, <2>3, <2>6 DEF r
<1>3. CASE FindInstance(d.subscribed, i) = 0
  <2> DEFINE rest == Cancel(d.published, i)
  <2>1. rest \in Seq(Service) /\ Len(rest) = Len(d.published) - 1
    BY <1>1, <1>3, FoundInOneList, CancelShortens
  <2> DEFINE r == EndService(d, i)
  <2>2. /\ Shape(r) /\ r.published = rest /\ r.subscribed = d.subscribed
        /\ r.listeners = d.listeners /\ r.next = d.next
        /\ r.last_instance_id = d.last_instance_id /\ r.event = d.event
    BY <1>3 DEF EndService, NodeOK, Shape
  <2> HIDE DEF rest, r
  <2>3. NodeOK(r)
    BY <1>1, <2>1, <2>2 DEF NodeOK
  <2>4. Len(d.published) \in Nat /\ Len(d.subscribed) \in Nat
    BY <1>1, LenProperties
  <2>5. Len(r.subscribed) = Len(d.subscribed) /\ Len(r.published) = Len(d.published) - 1
    BY <2>1, <2>2
  <2>6. Services(r) = Services(d) - 1
    BY <2>4, <2>5 DEF Services
  <2> QED
    BY <2>2, <2>3, <2>6 DEF r
<1> QED
  BY <1>2, <1>3

\* The listener for follow-ups ends a service together with a listener.
LEMMA ReceiveInv ==
    ASSUME NEW d, DeviceInv(d), NEW event,
           NEW k \in 1..Len(d.listeners), d.listeners[k].event = "RECEIVE",
           d.next = End \/ k < d.next
    PROVE  DeviceInv(handle_event_receive(d, event))
<1> DEFINE i == event.instance_id
           ended == EndService(d, i)
<1>1. CASE FindInstance(d.subscribed \o d.published, i) = 0
  BY <1>1 DEF handle_event_receive
<1>2. CASE FindInstance(d.subscribed \o d.published, i) # 0
  <2>1. /\ NodeOK(ended) /\ Services(ended) = Services(d) - 1
        /\ ended.listeners = d.listeners /\ ended.next = d.next
    BY <1>2, EndServiceInv DEF DeviceInv
  <2>2. handle_event_receive(d, event) = nan_remove_event_listener(ended, "RECEIVE")
    BY <1>2 DEF handle_event_receive
  <2> HIDE DEF ended
  <2> QED
    BY <2>1, <2>2, RemoveListener DEF DeviceInv
<1> QED
  BY <1>1, <1>2

\* One round of the dispatch, whichever listener it calls.
LEMMA CallListenerInv ==
    ASSUME NEW d, DeviceInv(d), NEW self
    PROVE  DeviceInv(CallListener(d, self))
<1> DEFINE k == NextListener(d)
           moved == Advance(d, k)
<1>1. CASE k = 0
  <2> DEFINE r == CallListener(d, self)
  <2>1. /\ Shape(r) /\ r.event = NoEvent /\ r.next = 0
        /\ r.listeners = d.listeners /\ r.published = d.published
        /\ r.subscribed = d.subscribed /\ r.last_instance_id = d.last_instance_id
    BY <1>1 DEF CallListener, DeviceInv, NodeOK, Shape, End
  <2> HIDE DEF r
  <2>2. Len(d.listeners) \in Nat
    BY LenProperties DEF DeviceInv, NodeOK
  <2>3. NodeOK(r)
    BY <2>1, <2>2 DEF DeviceInv, NodeOK
  <2> QED
    BY <2>1, <2>3 DEF DeviceInv, Services, r
<1>2. CASE k # 0
  <2>1. /\ k \in 1..Len(d.listeners) /\ d.event # NoEvent
        /\ d.listeners[k].event = d.event.event
    BY <1>2, NextListenerFound DEF DeviceInv, NodeOK
  <2>2. /\ DeviceInv(moved) /\ moved.listeners = d.listeners
        /\ moved.next = End \/ k < moved.next
    BY <2>1, AdvanceInv DEF DeviceInv
  <2>3. CallListener(d, self) =
            IF d.event.event = "RECEIVE" THEN handle_event_receive(moved, d.event)
            ELSE handle_event_discovery_result(moved, self, d.event)
    BY <1>2 DEF CallListener
  <2>4. d.event.event \in {"DISCOVERY_RESULT", "RECEIVE"}
    BY <2>1 DEF DeviceInv, NodeOK
  <2> HIDE DEF k, moved
  <2>5. CASE d.event.event = "RECEIVE"
    BY <2>1, <2>2, <2>3, <2>5, ReceiveInv
  <2>6. CASE d.event.event = "DISCOVERY_RESULT"
    BY <2>1, <2>2, <2>3, <2>6, DiscoveryResultInv
  <2> QED
    BY <2>4, <2>5, <2>6
<1> QED
  BY <1>1, <1>2

\* One more on either side of a sum.
LEMMA OneMore ==
    ASSUME NEW a \in Nat, NEW b \in Nat
    PROVE  (a + 1) + b = (a + b) + 1 /\ a + (b + 1) = (a + b) + 1
OBVIOUS

\* nan_publish and nan_subscribe add a service that has no listener yet.
LEMMA CreateInv ==
    ASSUME NEW d, DeviceInv(d), NEW service \in Service
    PROVE  \A r \in {nan_publish(d, service), nan_subscribe(d, service)} :
              NodeOK(r) /\ Services(r) = Len(r.listeners) + 1
<1>1. Shape(d) /\ d.published \in Seq(Service) /\ d.subscribed \in Seq(Service)
  BY DEF DeviceInv, NodeOK
<1>2. Len(d.published) \in Nat /\ Len(d.subscribed) \in Nat
  BY <1>1, LenProperties
<1>3. service.instance_id \in 0..(IdMod - 1)
  BY ServiceAssumption DEF Service
<1> DEFINE published  == Append(d.published, service)
           subscribed == Append(d.subscribed, service)
<1>4. /\ published \in Seq(Service) /\ Len(published) = Len(d.published) + 1
      /\ subscribed \in Seq(Service) /\ Len(subscribed) = Len(d.subscribed) + 1
  BY <1>1, AppendProperties
<1> HIDE DEF published, subscribed
<1>5. LET r == nan_publish(d, service) IN NodeOK(r) /\ Services(r) = Len(r.listeners) + 1
  <2> DEFINE r == nan_publish(d, service)
  <2>1. r = [ d EXCEPT !.published = published, !.last_instance_id = service.instance_id ]
    BY DEF nan_publish, published
  <2> HIDE DEF r
  <2>2. /\ Shape(r) /\ r.published = published
        /\ r.subscribed = d.subscribed /\ r.last_instance_id = service.instance_id
        /\ r.listeners = d.listeners /\ r.event = d.event /\ r.next = d.next
    BY <1>1, <2>1 DEF Shape
  <2>3. NodeOK(r)
    BY <1>3, <1>4, <2>2 DEF DeviceInv, NodeOK
  <2>4. Len(r.published) = Len(d.published) + 1 /\ Len(r.subscribed) = Len(d.subscribed)
    BY <1>4, <2>2
  <2>5. Services(r) = Services(d) + 1
    BY <1>2, <2>4, OneMore, Zenon DEF Services
  <2>6. NodeOK(r) /\ Services(r) = Len(r.listeners) + 1
    BY <2>2, <2>3, <2>5 DEF DeviceInv
  <2> QED
    BY <2>6 DEF r
<1>6. QED
  <2> DEFINE r == nan_subscribe(d, service)
  <2>1. r = [ d EXCEPT !.subscribed = subscribed, !.last_instance_id = service.instance_id ]
    BY DEF nan_subscribe, subscribed
  <2> HIDE DEF r
  <2>2. /\ Shape(r) /\ r.subscribed = subscribed
        /\ r.published = d.published /\ r.last_instance_id = service.instance_id
        /\ r.listeners = d.listeners /\ r.event = d.event /\ r.next = d.next
    BY <1>1, <2>1 DEF Shape
  <2>3. NodeOK(r)
    BY <1>3, <1>4, <2>2 DEF DeviceInv, NodeOK
  <2>4. Len(r.subscribed) = Len(d.subscribed) + 1 /\ Len(r.published) = Len(d.published)
    BY <1>4, <2>2
  <2>5. Services(r) = Services(d) + 1
    BY <1>2, <2>4, OneMore, Zenon DEF Services
  <2>6. NodeOK(r) /\ Services(r) = Len(r.listeners) + 1
    BY <2>2, <2>3, <2>5 DEF DeviceInv
  <2> QED
    BY <1>5, <2>6 DEF r

\* A command gives a service one listener.
LEMMA RegisterInv ==
    ASSUME NEW d, DeviceInv(d), NEW name \in Name, NEW kind \in Kind, NEW ttl \in Int
    PROVE  /\ DeviceInv(nan_cmd_publish_service(d, name, kind, ttl))
           /\ DeviceInv(nan_cmd_subscribe_service(d, name, kind, ttl))
<1> DEFINE service == nan_service_new(d, name, kind, ttl)
           published == nan_publish(d, service)
           subscribed == nan_subscribe(d, service)
<1>1. increase_non_zero_id(d.last_instance_id) \in 1..(IdMod - 1)
  BY ServiceAssumption DEF increase_non_zero_id, DeviceInv, NodeOK
<1>2. service \in Service
  BY <1>1 DEF nan_service_new, Service
<1>3. /\ nan_cmd_publish_service(d, name, kind, ttl)
            \in { d, nan_add_event_listener(published, "RECEIVE", name) }
      /\ nan_cmd_subscribe_service(d, name, kind, ttl)
            \in { d, nan_add_event_listener(subscribed, "DISCOVERY_RESULT", name) }
  BY DEF nan_cmd_publish_service, nan_cmd_subscribe_service
<1> HIDE DEF service
<1>4. /\ NodeOK(published) /\ Services(published) = Len(published.listeners) + 1
      /\ NodeOK(subscribed) /\ Services(subscribed) = Len(subscribed.listeners) + 1
  BY <1>2, CreateInv
<1> HIDE DEF published, subscribed
<1> QED
  BY <1>3, <1>4, AddListener DEF DeviceInv

\* An announcement counts services down and keeps them all.
LEMMA AnnouncedInv ==
    ASSUME NEW services \in Seq(Service)
    PROVE  /\ nan_update_announced_services(services) \in Seq(Service)
           /\ Len(nan_update_announced_services(services)) = Len(services)
<1> DEFINE r == nan_update_announced_services(services)
<1>1. Len(services) \in Nat /\ DOMAIN services = 1..Len(services)
  BY LenProperties
<1>2. ASSUME NEW service \in Service PROVE Announced(service) \in Service
  <2> DEFINE left == IF service.time_to_live > 0 THEN service.time_to_live - 1
                     ELSE service.time_to_live
             counted == [ service EXCEPT !.time_to_live = left, !.do_publish = FALSE ]
  <2>1. Announced(service) \in {service, counted}
    BY DEF Announced
  <2>2. left \in Int
    BY DEF Service
  <2> HIDE DEF left
  <2>3. counted \in Service
    BY <2>2 DEF Service
  <2> QED
    BY <2>1, <2>3
<1>3. ASSUME NEW i \in 1..Len(services) PROVE Announced(services[i]) \in Service
  BY <1>2, ElementOfSeq
<1>4. r \in [1..Len(services) -> Service]
  BY <1>1, <1>3 DEF nan_update_announced_services
<1> HIDE DEF r
<1>5. r \in Seq(Service)
  BY <1>1, <1>4, SeqDef
<1>6. Len(r) = Len(services)
  BY <1>1, <1>4, <1>5, LenProperties
<1> QED
  BY <1>5, <1>6 DEF r

\* nan_handle_discovery_window touches neither listeners nor iterator.
LEMMA WindowInv ==
    ASSUME NEW d, DeviceInv(d)
    PROVE  DeviceInv(AfterWindow(d))
<1> DEFINE r == AfterWindow(d)
           published == nan_update_announced_services(d.published)
           subscribed == nan_update_announced_services(d.subscribed)
<1>1. Shape(d)
  BY DEF DeviceInv, NodeOK
<1>2. r = [ d EXCEPT !.buffer = <<>>, !.published = published, !.subscribed = subscribed ]
  BY DEF AfterWindow
<1>3. /\ published \in Seq(Service) /\ Len(published) = Len(d.published)
      /\ subscribed \in Seq(Service) /\ Len(subscribed) = Len(d.subscribed)
  BY AnnouncedInv DEF DeviceInv, NodeOK
<1> HIDE DEF r, published, subscribed
<1>4. /\ Shape(r) /\ r.listeners = d.listeners /\ r.next = d.next /\ r.event = d.event
      /\ r.last_instance_id = d.last_instance_id
      /\ r.published = published /\ r.subscribed = subscribed
  BY <1>1, <1>2 DEF Shape
<1> QED
  BY <1>4, <1>3 DEF DeviceInv, NodeOK, Services, r

\* The dispatch of an event begins at a listener or ends at once.
LEMMA DispatchInv ==
    ASSUME NEW d, DeviceInv(d), NEW event,
           event.event \in {"DISCOVERY_RESULT", "RECEIVE"}
    PROVE  DeviceInv(nan_dispatch_event(d, event))
<1> DEFINE r == nan_dispatch_event(d, event)
           next == IF d.listeners = <<>> THEN End ELSE 1
<1>1. r = [ d EXCEPT !.event = event, !.next = next ]
  BY DEF nan_dispatch_event
<1> HIDE DEF r, next
<1>2. Shape(d)
  BY DEF DeviceInv, NodeOK
<1>3. /\ Shape(r) /\ r.event = event
      /\ r.next = next
      /\ r.listeners = d.listeners /\ r.published = d.published
      /\ r.subscribed = d.subscribed /\ r.last_instance_id = d.last_instance_id
  BY <1>2, <1>1 DEF Shape
<1>4. d.listeners \in Seq(Listener)
  BY DEF DeviceInv, NodeOK
<1>5. Len(d.listeners) \in Nat /\ (d.listeners # <<>> => Len(d.listeners) # 0)
  BY <1>4, LenProperties, EmptySeq
<1>6. r.next \in 0..Len(d.listeners)
  BY <1>3, <1>5 DEF End, next
<1>7. NodeOK(r)
  BY <1>3, <1>6 DEF DeviceInv, NodeOK
<1> QED
  BY <1>3, <1>7 DEF DeviceInv, Services, r

\* A received descriptor marks a service or begins a dispatch.
LEMMA DescriptorInv ==
    ASSUME NEW d, DeviceInv(d), NEW self
    PROVE  DeviceInv(HandleDescriptor(d, self))
<1> DEFINE descriptor == Head(d.todo)
           rest == Tail(d.todo)
           r == [ d EXCEPT !.todo = rest ]
<1>1. HandleDescriptor(d, self)
          = nan_handle_received_service_discovery(r, self, descriptor)
  BY DEF HandleDescriptor
<1> HIDE DEF descriptor, rest
<1>2. r = [ d EXCEPT !.todo = rest ]
  OBVIOUS
<1> HIDE DEF r
<1>3. Shape(d)
  BY DEF DeviceInv, NodeOK
<1>4. /\ Shape(r) /\ r.published = d.published /\ r.subscribed = d.subscribed
      /\ r.listeners = d.listeners /\ r.next = d.next /\ r.event = d.event
      /\ r.last_instance_id = d.last_instance_id
  BY <1>3, <1>2 DEF Shape
<1>5. DeviceInv(r)
  BY <1>4 DEF DeviceInv, NodeOK, Services
<1>6. DeviceInv(PublishReceived(r, descriptor))
  <2> DEFINE k == FindId(r.subscribed, descriptor.service_id)
             event == EventFor("DISCOVERY_RESULT", r.subscribed[k], descriptor)
  <2>1. event.event = "DISCOVERY_RESULT"
    BY DEF EventFor
  <2>2. PublishReceived(r, descriptor) = IF k = 0 THEN r ELSE nan_dispatch_event(r, event)
    BY DEF PublishReceived
  <2> HIDE DEF event, k
  <2> QED
    BY <1>5, <2>1, <2>2, DispatchInv
<1>7. DeviceInv(FollowUpReceived(r, self, descriptor))
  <2> DEFINE k == FindId(r.subscribed \o r.published, descriptor.service_id)
             event == EventFor("RECEIVE", (r.subscribed \o r.published)[k], descriptor)
  <2>1. event.event = "RECEIVE"
    BY DEF EventFor
  <2>2. FollowUpReceived(r, self, descriptor)
            = IF descriptor.to # self \/ k = 0 THEN r ELSE nan_dispatch_event(r, event)
    BY DEF FollowUpReceived
  <2> HIDE DEF event, k
  <2> QED
    BY <1>5, <2>1, <2>2, DispatchInv
<1>8. DeviceInv(SubscribeReceived(r, descriptor))
  <2> DEFINE k == FindId(r.published, descriptor.service_id)
             q == [ r EXCEPT !.published[k].do_publish = TRUE ]
             list == [ r.published EXCEPT ![k].do_publish = TRUE ]
  <2>1. CASE k = 0
    BY <1>5, <2>1 DEF SubscribeReceived
  <2>2. CASE k # 0
    <3>1. Shape(r)
      BY <1>5 DEF DeviceInv, NodeOK
    <3>2. /\ Shape(q) /\ q.published = list /\ q.subscribed = r.subscribed
          /\ q.listeners = r.listeners /\ q.next = r.next /\ q.event = r.event
          /\ q.last_instance_id = r.last_instance_id
      BY <3>1 DEF Shape
    <3>3. SubscribeReceived(r, descriptor) = q
      BY <2>2 DEF SubscribeReceived
    <3>4. r.published \in Seq(Service)
      BY <1>5 DEF DeviceInv, NodeOK
    <3>5. Len(r.published) \in Nat /\ r.published \in [1..Len(r.published) -> Service]
      BY <3>4, LenProperties
    <3>6. list \in [1..Len(r.published) -> Service]
      BY <3>5 DEF Service
    <3> HIDE DEF list, q
    <3>7. list \in Seq(Service)
      BY <3>5, <3>6, SeqDef
    <3>8. Len(list) = Len(r.published)
      BY <3>5, <3>6, <3>7, LenProperties
    <3> QED
      BY <1>5, <3>2, <3>3, <3>7, <3>8 DEF DeviceInv, NodeOK, Services
  <2> QED
    BY <2>1, <2>2
<1> QED
  BY <1>1, <1>5, <1>6, <1>7, <1>8 DEF nan_handle_received_service_discovery

----------------------------------------------------------------------------
(* All devices. *)

\* Every device has one engine, and DeviceInv holds of it.
IInv ==
    /\ node = [ n \in Device |-> node[n] ]
    /\ \A n \in Device : DeviceInv(node[n])

\* A device starts without services and listeners.
LEMMA InitIInv == Init => IInv
<1>1. \A d : d = init_services => DeviceInv(d)
  <2> SUFFICES ASSUME NEW d, d = init_services PROVE DeviceInv(d)
    OBVIOUS
  <2>1. /\ Shape(d) /\ d.published = <<>> /\ d.subscribed = <<>> /\ d.listeners = <<>>
        /\ d.last_instance_id = 0 /\ d.event = NoEvent /\ d.next = 0
    BY DEF init_services, Shape, End
  <2>2. \A S : <<>> \in Seq(S) /\ Len(<<>>) = 0
    OBVIOUS
  <2>3. 0 \in 0..(IdMod - 1)
    BY ServiceAssumption
  <2> QED
    BY <2>1, <2>2, <2>3 DEF DeviceInv, NodeOK, Services
<1> QED
  BY <1>1 DEF Init, IInv

\* A step of one device, which leaves the others alone.
LEMMA StepOfOne ==
    ASSUME IInv, NEW n \in Device, NEW d, DeviceInv(d),
           node' = [ node EXCEPT ![n] = d ]
    PROVE  IInv'
BY DEF IInv

\* One case per action; each is the invariant of the handler it runs.
LEMMA NextIInv == IInv /\ [Next]_vars => IInv'
<1> SUFFICES ASSUME IInv, [Next]_vars PROVE IInv'
  OBVIOUS
<1>1. CASE UNCHANGED vars
  BY <1>1 DEF vars, IInv
<1>2. CASE Next
  <2>1. PICK n \in Device :
            Command(n) \/ DiscoveryWindow(n) \/ Receive(n) \/ Handle(n) \/ Call(n) \/ Lose(n)
    BY <1>2 DEF Next
  <2>2. DeviceInv(node[n])
    BY DEF IInv
  <2>3. ASSUME NEW name \in Name, NEW offer \in Offers, Publish(n, name, offer)
        PROVE  IInv'
    <3>1. offer[1] \in Kind /\ offer[2] \in Int
      BY DiscoveryAssumption DEF Kind
    <3> QED
      BY <2>2, <2>3, <3>1, RegisterInv, StepOfOne DEF Publish
  <2>4. ASSUME NEW name \in Name, NEW want \in Wants, Subscribe(n, name, want)
        PROVE  IInv'
    <3>1. want[1] \in Kind /\ want[2] \in Int
      BY DiscoveryAssumption DEF Kind
    <3> QED
      BY <2>2, <2>4, <3>1, RegisterInv, StepOfOne DEF Subscribe
  <2>5. CASE DiscoveryWindow(n)
    BY <2>2, <2>5, WindowInv, StepOfOne DEF DiscoveryWindow
  <2>6. CASE Receive(n)
    <3> DEFINE frame == Head(inbox[n])
               d == [ node[n] EXCEPT !.todo = frame ]
    <3>1. node' = [ node EXCEPT ![n] = d ]
      BY <2>6 DEF Receive
    <3> HIDE DEF frame
    <3>2. /\ Shape(d) /\ d.published = node[n].published /\ d.subscribed = node[n].subscribed
          /\ d.listeners = node[n].listeners /\ d.next = node[n].next
          /\ d.event = node[n].event /\ d.last_instance_id = node[n].last_instance_id
      BY <2>2 DEF DeviceInv, NodeOK, Shape
    <3> HIDE DEF d
    <3>3. DeviceInv(d)
      BY <2>2, <3>2 DEF DeviceInv, NodeOK, Services
    <3> QED
      BY <3>1, <3>3, StepOfOne
  <2>7. CASE Handle(n)
    BY <2>2, <2>7, DescriptorInv, StepOfOne DEF Handle
  <2>8. CASE Call(n)
    BY <2>2, <2>8, CallListenerInv, StepOfOne DEF Call
  <2>9. CASE Lose(n)
    BY <2>9 DEF Lose, IInv
  <2> QED
    BY <2>1, <2>3, <2>4, <2>5, <2>6, <2>7, <2>8, <2>9 DEF Command
<1> QED
  BY <1>1, <1>2

(***************************************************************************)
(* Whatever listeners are removed while an event is dispatched, the list   *)
(* iterator never stands on a freed entry: a listener is removed only      *)
(* while one with the same function, at its place or after it, is called.  *)
(***************************************************************************)
THEOREM IteratorLive == Spec => []IteratorIsLive
<1>1. IInv => IteratorIsLive
  BY DEF IInv, DeviceInv, NodeOK, IteratorIsLive, Freed
<1> QED
  BY InitIInv, NextIInv, <1>1, PTL DEF Spec

(***************************************************************************)
(* Though listeners are removed by function and not by service, no         *)
(* sequence of commands, windows and received frames lets the numbers of   *)
(* listeners and services of a device drift apart.                         *)
(***************************************************************************)
THEOREM ListenerPerService == Spec => []OneListenerPerService
<1>1. IInv => OneListenerPerService
  BY DEF IInv, DeviceInv, Services, OneListenerPerService
<1> QED
  BY InitIInv, NextIInv, <1>1, PTL DEF Spec

----------------------------------------------------------------------------
(* Which service ends. *)

(***************************************************************************)
(* A service's label is its name and its instance id; announcements and    *)
(* subscriptions change services and leave their labels.                   *)
(***************************************************************************)
Labels(list) == { <<list[i].name, list[i].instance_id>> : i \in 1..Len(list) }

AllLabels(d) == Labels(d.published) \cup Labels(d.subscribed)

(***************************************************************************)
(* A device that had count services: their ids are among the first count,  *)
(* an id tells the name, and the event under way, which carries the id of  *)
(* a service and its name, means no other service.                         *)
(***************************************************************************)
LabelInv(d, count) ==
    /\ d.last_instance_id = count
    /\ \A l \in AllLabels(d) : l[2] \in 1..count
    /\ \A l, m \in AllLabels(d) : l[2] = m[2] => l[1] = m[1]
    /\ d.event # NoEvent =>
          \A l \in AllLabels(d) :
              l[2] = d.event.instance_id => l[1] = d.event.service_name

\* What a device that keeps its ids and loses services at most still satisfies.
LEMMA FewerLabels ==
    ASSUME NEW d, NEW count, LabelInv(d, count), NEW r,
           r.last_instance_id = d.last_instance_id,
           r.event = NoEvent \/ r.event = d.event,
           AllLabels(r) \subseteq AllLabels(d)
    PROVE  LabelInv(r, count)
BY DEF LabelInv

\* The labels of a list that has one service more.
LEMMA LabelsAppend ==
    ASSUME NEW list \in Seq(Service), NEW service \in Service
    PROVE  Labels(Append(list, service)) =
               Labels(list) \cup {<<service.name, service.instance_id>>}
<1> DEFINE longer == Append(list, service)
<1>1. /\ Len(longer) = Len(list) + 1 /\ Len(list) \in Nat
      /\ \A i \in 1..Len(list) : longer[i] = list[i]
      /\ longer[Len(list) + 1] = service
  BY AppendProperties, LenProperties
<1> HIDE DEF longer
<1>2. Labels(longer) = Labels(list) \cup {<<service.name, service.instance_id>>}
  <2>1. 1..Len(longer) = 1..Len(list) \cup {Len(list) + 1}
    BY <1>1
  <2>2. ASSUME NEW l \in Labels(longer)
        PROVE  l \in Labels(list) \cup {<<service.name, service.instance_id>>}
    BY <1>1, <2>1 DEF Labels
  <2>3. ASSUME NEW l \in Labels(list)
        PROVE  l \in Labels(longer)
    <3>1. PICK i \in 1..Len(list) : l = <<list[i].name, list[i].instance_id>>
      BY DEF Labels
    <3>2. i \in 1..Len(longer) /\ longer[i] = list[i]
      BY <1>1, <2>1
    <3> QED
      BY <3>1, <3>2 DEF Labels
  <2>4. <<service.name, service.instance_id>> \in Labels(longer)
    BY <1>1, <2>1 DEF Labels
  <2> QED
    BY <2>2, <2>3, <2>4
<1> QED
  BY <1>2 DEF longer

\* Cancelling takes away labels with the id that is cancelled, and no others.
LEMMA LabelsCancel ==
    ASSUME NEW list \in Seq(Service), NEW i
    PROVE  /\ Labels(Cancel(list, i)) \subseteq Labels(list)
           /\ \A l \in Labels(list) : l \in Labels(Cancel(list, i)) \/ l[2] = i
<1> DEFINE k == FindInstance(list, i)
<1>1. CASE k = 0
  BY <1>1 DEF Cancel
<1>2. CASE k # 0
  <2> DEFINE left  == SubSeq(list, 1, k - 1)
             right == SubSeq(list, k + 1, Len(list))
             rest  == left \o right
  <2>1. k \in 1..Len(list) /\ list[k].instance_id = i /\ Len(list) \in Nat
    BY <1>2, InstanceFound, LenProperties
  <2>2. Cancel(list, i) = rest
    BY <1>2 DEF Cancel, RemoveAt
  <2> HIDE DEF k
  <2>3. /\ left \in Seq(Service) /\ Len(left) = k - 1
        /\ \A j \in 1..k - 1 : left[j] = list[j]
    BY <2>1, SubSeqProperties
  <2>4. /\ right \in Seq(Service) /\ Len(right) = Len(list) - k
        /\ \A j \in 1..Len(list) - k : right[j] = list[k + j]
    BY <2>1, SubSeqProperties
  <2> HIDE DEF left, right
  <2>5. /\ Len(rest) = Len(list) - 1
        /\ \A j \in 1..Len(list) - 1 :
              rest[j] = IF j < k THEN list[j] ELSE list[j + 1]
    <3>1. /\ Len(rest) = Len(left) + Len(right)
          /\ \A j \in 1..Len(left) + Len(right) :
                rest[j] = IF j <= Len(left) THEN left[j] ELSE right[j - Len(left)]
      BY <2>3, <2>4, ConcatProperties
    <3> HIDE DEF rest
    <3>2. Len(rest) = Len(list) - 1
      BY <2>1, <2>3, <2>4, <3>1
    <3>3. ASSUME NEW j \in 1..Len(list) - 1
          PROVE  rest[j] = IF j < k THEN list[j] ELSE list[j + 1]
      <4>1. CASE j < k
        <5>1. j \in 1..k - 1 /\ j <= Len(left) /\ j \in 1..Len(left) + Len(right)
          BY <2>1, <2>3, <2>4, <4>1
        <5> QED
          BY <2>3, <3>1, <4>1, <5>1
      <4>2. CASE ~ (j < k)
        <5>1. j - (k - 1) \in 1..Len(list) - k /\ k + (j - (k - 1)) = j + 1
          BY <2>1, <4>2
        <5>2. rest[j] = right[j - (k - 1)]
          BY <2>1, <2>3, <2>4, <3>1, <4>2
        <5>3. right[j - (k - 1)] = list[k + (j - (k - 1))]
          BY <2>4, <5>1
        <5> QED
          BY <4>2, <5>1, <5>2, <5>3
      <4> QED
        BY <4>1, <4>2
    <3> QED
      BY <3>2, <3>3
  <2> HIDE DEF rest
  <2>6. ASSUME NEW l \in Labels(rest)
        PROVE  l \in Labels(list)
    <3>1. PICK j \in 1..Len(list) - 1 : l = <<rest[j].name, rest[j].instance_id>>
      BY <2>5 DEF Labels
    <3>2. PICK m \in 1..Len(list) : rest[j] = list[m]
      BY <2>1, <2>5
    <3> QED
      BY <3>1, <3>2 DEF Labels
  <2>7. ASSUME NEW l \in Labels(list), l[2] # i
        PROVE  l \in Labels(rest)
    <3>1. PICK m \in 1..Len(list) : l = <<list[m].name, list[m].instance_id>>
      BY DEF Labels
    <3>2. m # k
      BY <2>1, <2>7, <3>1
    <3>3. PICK j \in 1..Len(list) - 1 : rest[j] = list[m]
      <4>1. CASE m < k
        BY <2>1, <2>5, <4>1
      <4>2. CASE m > k
        <5>1. m - 1 \in 1..Len(list) - 1 /\ ~ (m - 1 < k) /\ m - 1 + 1 = m
          BY <2>1, <4>2
        <5> QED
          BY <2>5, <5>1
      <4> QED
        BY <2>1, <3>2, <4>1, <4>2
    <3> QED
      BY <2>5, <3>1, <3>3 DEF Labels
  <2> QED
    BY <2>2, <2>6, <2>7
<1> QED
  BY <1>1, <1>2

\* Lists with the same names and ids have the same labels.
LEMMA SameLabels ==
    ASSUME NEW a, NEW b, Len(a) = Len(b),
           \A i \in 1..Len(b) : a[i].name = b[i].name /\ a[i].instance_id = b[i].instance_id
    PROVE  Labels(a) = Labels(b)
BY DEF Labels

\* An announcement counts services down and leaves their labels.
LEMMA LabelsAnnounced ==
    ASSUME NEW list \in Seq(Service)
    PROVE  Labels(nan_update_announced_services(list)) = Labels(list)
<1> DEFINE r == nan_update_announced_services(list)
<1>1. Len(r) = Len(list) /\ DOMAIN list = 1..Len(list)
  BY AnnouncedInv, LenProperties
<1>2. ASSUME NEW i \in 1..Len(list)
      PROVE  r[i].name = list[i].name /\ r[i].instance_id = list[i].instance_id
  <2>1. r[i] = Announced(list[i])
    BY <1>1 DEF nan_update_announced_services
  <2>2. list[i] \in Service
    BY ElementOfSeq
  <2> HIDE DEF r
  <2>3. Announced(list[i]).name = list[i].name
        /\ Announced(list[i]).instance_id = list[i].instance_id
    BY <2>2 DEF Announced, Service
  <2> QED
    BY <2>1, <2>3
<1> HIDE DEF r
<1>3. Labels(r) = Labels(list)
  BY <1>1, <1>2, SameLabels
<1> QED
  BY <1>3 DEF r

\* Listeners, follow-ups and the iterator are no services.
LEMMA ListenersOnly ==
    ASSUME NEW d, Shape(d), NEW e, NEW name, NEW k, NEW self, NEW destination, NEW service,
           NEW i,
           NEW r, r \in { nan_add_event_listener(d, e, name), nan_remove_event_listener(d, e),
                          Advance(d, k), nan_transmit(d, self, destination, service, i) }
    PROVE  /\ Shape(r) /\ AllLabels(r) = AllLabels(d)
           /\ r.published = d.published /\ r.subscribed = d.subscribed
           /\ r.last_instance_id = d.last_instance_id /\ r.event = d.event
<1>1. /\ Shape(r)
      /\ r.published = d.published /\ r.subscribed = d.subscribed
      /\ r.last_instance_id = d.last_instance_id /\ r.event = d.event
  BY DEF nan_add_event_listener, nan_remove_event_listener, Advance, nan_transmit, Shape
<1> QED
  BY <1>1 DEF AllLabels

\* A service that ends takes only labels of its id along.
LEMMA EndServiceLabels ==
    ASSUME NEW d, NodeOK(d), NEW i
    PROVE  LET r == EndService(d, i) IN
           /\ Shape(r) /\ r.last_instance_id = d.last_instance_id /\ r.event = d.event
           /\ AllLabels(r) \subseteq AllLabels(d)
           /\ \A l \in AllLabels(d) : l \in AllLabels(r) \/ l[2] = i
<1> DEFINE r == EndService(d, i)
<1>1. d.published \in Seq(Service) /\ d.subscribed \in Seq(Service) /\ Shape(d)
  BY DEF NodeOK
<1>2. /\ Shape(r) /\ r.last_instance_id = d.last_instance_id /\ r.event = d.event
      /\ r.published \in {d.published, Cancel(d.published, i)}
      /\ r.subscribed \in {d.subscribed, Cancel(d.subscribed, i)}
  BY <1>1 DEF EndService, Shape
<1> HIDE DEF r
<1>3. /\ Labels(r.published) \subseteq Labels(d.published)
      /\ \A l \in Labels(d.published) : l \in Labels(r.published) \/ l[2] = i
  BY <1>1, <1>2, LabelsCancel
<1>4. /\ Labels(r.subscribed) \subseteq Labels(d.subscribed)
      /\ \A l \in Labels(d.subscribed) : l \in Labels(r.subscribed) \/ l[2] = i
  BY <1>1, <1>2, LabelsCancel
<1>5. /\ AllLabels(r) \subseteq AllLabels(d)
      /\ \A l \in AllLabels(d) : l \in AllLabels(r) \/ l[2] = i
  BY <1>3, <1>4 DEF AllLabels
<1> QED
  BY <1>2, <1>5 DEF r

(***************************************************************************)
(* One round of a dispatch: labels are lost to a follow-up only, and only  *)
(* those with the id it carries.                                           *)
(***************************************************************************)
LEMMA CallListenerLabels ==
    ASSUME NEW d, DeviceInv(d), NEW count, LabelInv(d, count), NEW self,
           NEW r, r = CallListener(d, self)
    PROVE  /\ LabelInv(r, count)
           /\ \A l \in AllLabels(d) \ AllLabels(r) :
                 /\ d.event # NoEvent /\ d.event.event = "RECEIVE"
                 /\ l[2] = d.event.instance_id
<1> DEFINE k == NextListener(d)
           moved == Advance(d, k)
           i == d.event.instance_id
<1>1. Shape(d) /\ NodeOK(d)
  BY DEF DeviceInv, NodeOK
<1>2. CASE k = 0
  <2>1. /\ r.event = NoEvent /\ r.last_instance_id = d.last_instance_id
        /\ r.published = d.published /\ r.subscribed = d.subscribed
    BY <1>1, <1>2 DEF CallListener, Shape
  <2>2. AllLabels(r) = AllLabels(d)
    BY <2>1 DEF AllLabels
  <2> QED
    BY <2>1, <2>2, FewerLabels
<1>3. CASE k # 0
  <2>1. k \in 1..Len(d.listeners) /\ d.event # NoEvent
    BY <1>1, <1>3, NextListenerFound DEF NodeOK
  <2>2. NodeOK(moved)
    BY <1>1, <2>1, AdvanceInv
  <2>3. /\ Shape(moved) /\ AllLabels(moved) = AllLabels(d)
        /\ moved.last_instance_id = d.last_instance_id /\ moved.event = d.event
        /\ moved.subscribed = d.subscribed
    BY <1>1, ListenersOnly
  <2>4. r = IF d.event.event = "RECEIVE" THEN handle_event_receive(moved, d.event)
            ELSE handle_event_discovery_result(moved, self, d.event)
    BY <1>3 DEF CallListener
  <2> HIDE DEF k, moved
  <2>5. CASE d.event.event = "RECEIVE"
    <3> DEFINE ended == EndService(moved, i)
    <3>1. r \in {moved, nan_remove_event_listener(ended, "RECEIVE")}
      BY <2>4, <2>5 DEF handle_event_receive
    <3>2. /\ Shape(ended) /\ ended.last_instance_id = moved.last_instance_id
          /\ ended.event = moved.event
          /\ AllLabels(ended) \subseteq AllLabels(moved)
          /\ \A l \in AllLabels(moved) : l \in AllLabels(ended) \/ l[2] = i
      BY <2>2, EndServiceLabels
    <3> HIDE DEF ended
    <3> DEFINE q == nan_remove_event_listener(ended, "RECEIVE")
    <3>3. /\ AllLabels(q) = AllLabels(ended) /\ q.event = ended.event
          /\ q.last_instance_id = ended.last_instance_id
      BY <3>2, ListenersOnly
    <3> HIDE DEF q
    <3>4. /\ AllLabels(r) \subseteq AllLabels(d) /\ r.event = d.event
          /\ r.last_instance_id = d.last_instance_id
          /\ \A l \in AllLabels(d) : l \in AllLabels(r) \/ l[2] = i
      BY <2>3, <3>1, <3>2, <3>3 DEF q
    <3> QED
      BY <2>1, <2>5, <3>4, FewerLabels
  <2>6. CASE d.event.event # "RECEIVE"
    <3> DEFINE j == FindInstance(moved.subscribed, d.event.instance_id)
               service == moved.subscribed[j]
               sent == nan_transmit(moved, self, d.event.address, service,
                                    d.event.peer_instance_id)
               removed == nan_remove_event_listener(sent, "DISCOVERY_RESULT")
               added == nan_add_event_listener(removed, "RECEIVE", service.name)
    <3>1. r \in {moved, added}
      BY <2>4, <2>6 DEF handle_event_discovery_result
    <3> HIDE DEF service
    <3>2. /\ Shape(sent) /\ AllLabels(sent) = AllLabels(moved) /\ sent.event = moved.event
          /\ sent.last_instance_id = moved.last_instance_id
      BY <2>3, ListenersOnly
    <3> HIDE DEF sent
    <3>3. /\ Shape(removed) /\ AllLabels(removed) = AllLabels(sent)
          /\ removed.event = sent.event
          /\ removed.last_instance_id = sent.last_instance_id
      BY <3>2, ListenersOnly
    <3> HIDE DEF removed
    <3>4. /\ AllLabels(added) = AllLabels(removed) /\ added.event = removed.event
          /\ added.last_instance_id = removed.last_instance_id
      BY <3>3, ListenersOnly
    <3> HIDE DEF added
    <3>5. /\ AllLabels(r) = AllLabels(d) /\ r.event = d.event
          /\ r.last_instance_id = d.last_instance_id
      BY <2>3, <3>1, <3>2, <3>3, <3>4
    <3> QED
      BY <3>5, FewerLabels
  <2> QED
    BY <2>5, <2>6
<1> QED
  BY <1>2, <1>3

\* LIST_FIND by hash: 0, or the place of a service with it.
LEMMA IdMatches ==
    ASSUME NEW services \in Seq(Service), NEW id
    PROVE  LET k == FindId(services, id) IN
           \/ k = 0
           \/ k \in 1..Len(services) /\ IdOf[services[k].name] = id
<1> DEFINE I == { j \in 1..Len(services) : IdOf[services[j].name] = id }
<1>1. FindId(services, id) = IF I # {} THEN Min(I) ELSE 0
  BY DEF FindId, SelectInSeq
<1>2. I \in SUBSET Nat
  OBVIOUS
<1>3. I # {} => Min(I) \in I
  BY <1>2, Least
<1> QED
  BY <1>1, <1>3

\* A dispatch begins for a service that is there: its id means no other.
LEMMA DispatchLabels ==
    ASSUME NEW d, Shape(d), NEW count, LabelInv(d, count), NEW event,
           <<event.service_name, event.instance_id>> \in AllLabels(d),
           NEW r, r = nan_dispatch_event(d, event)
    PROVE  LabelInv(r, count) /\ AllLabels(r) = AllLabels(d)
<1>1. /\ r.published = d.published /\ r.subscribed = d.subscribed
      /\ r.last_instance_id = d.last_instance_id /\ r.event = event
  BY DEF nan_dispatch_event, Shape
<1>2. AllLabels(r) = AllLabels(d)
  BY <1>1 DEF AllLabels
<1>3. \A l \in AllLabels(d) : l[2] = event.instance_id => l[1] = event.service_name
  <2> DEFINE m == <<event.service_name, event.instance_id>>
  <2>1. m \in AllLabels(d) /\ m[1] = event.service_name /\ m[2] = event.instance_id
    OBVIOUS
  <2> HIDE DEF m
  <2> QED
    BY <2>1 DEF LabelInv
<1> QED
  BY <1>1, <1>2, <1>3 DEF LabelInv

\* A service of two lists together is in one of them.
LEMMA LabelsConcat ==
    ASSUME NEW s \in Seq(Service), NEW p \in Seq(Service), NEW k \in 1..Len(s \o p)
    PROVE  <<(s \o p)[k].name, (s \o p)[k].instance_id>> \in Labels(s) \cup Labels(p)
<1> DEFINE both == s \o p
<1>1. /\ Len(both) = Len(s) + Len(p)
      /\ \A j \in 1..Len(s) + Len(p) :
            both[j] = IF j <= Len(s) THEN s[j] ELSE p[j - Len(s)]
      /\ Len(s) \in Nat /\ Len(p) \in Nat
  BY ConcatProperties, LenProperties
<1>2. k \in 1..Len(both)
  OBVIOUS
<1> HIDE DEF both
<1>3. CASE k <= Len(s)
  <2>1. k \in 1..Len(s) /\ both[k] = s[k]
    BY <1>1, <1>2, <1>3
  <2> QED
    BY <2>1 DEF Labels, both
<1>4. CASE ~ (k <= Len(s))
  <2>1. k - Len(s) \in 1..Len(p) /\ both[k] = p[k - Len(s)]
    BY <1>1, <1>2, <1>4
  <2> QED
    BY <2>1 DEF Labels, both
<1> QED
  BY <1>3, <1>4

\* A received descriptor leaves the labels as they are.
LEMMA DescriptorLabels ==
    ASSUME NEW d, DeviceInv(d), NEW count, LabelInv(d, count), NEW self,
           NEW q, q = HandleDescriptor(d, self)
    PROVE  LabelInv(q, count) /\ AllLabels(q) = AllLabels(d)
<1> DEFINE descriptor == Head(d.todo)
           rest == Tail(d.todo)
           r == [ d EXCEPT !.todo = rest ]
<1>1. q = nan_handle_received_service_discovery(r, self, descriptor)
  BY DEF HandleDescriptor
<1> HIDE DEF descriptor, rest
<1>2. Shape(d) /\ d.published \in Seq(Service) /\ d.subscribed \in Seq(Service)
  BY DEF DeviceInv, NodeOK
<1>3. /\ Shape(r) /\ r.published = d.published /\ r.subscribed = d.subscribed
      /\ r.event = d.event /\ r.last_instance_id = d.last_instance_id
  BY <1>2 DEF Shape
<1> HIDE DEF r
<1>4. LabelInv(r, count) /\ AllLabels(r) = AllLabels(d)
  BY <1>3, FewerLabels DEF AllLabels
<1>5. \A list \in {r.published, r.subscribed} : \A i \in 1..Len(list) :
          <<list[i].name, list[i].instance_id>> \in AllLabels(r)
  BY DEF AllLabels, Labels
<1>6. CASE q = PublishReceived(r, descriptor)
  <2> DEFINE k == FindId(r.subscribed, descriptor.service_id)
             service == r.subscribed[k]
             event == EventFor("DISCOVERY_RESULT", service, descriptor)
  <2>1. q = IF k = 0 THEN r ELSE nan_dispatch_event(r, event)
    BY <1>6 DEF PublishReceived
  <2>2. k = 0 \/ k \in 1..Len(r.subscribed)
    BY <1>2, <1>3, IdMatches
  <2> HIDE DEF k
  <2>3. k # 0 => <<service.name, service.instance_id>> \in AllLabels(r)
    BY <1>5, <2>2
  <2> HIDE DEF service
  <2>4. event.service_name = service.name /\ event.instance_id = service.instance_id
    BY DEF EventFor
  <2> HIDE DEF event
  <2> QED
    BY <1>3, <1>4, <2>1, <2>3, <2>4, DispatchLabels
<1>7. CASE q = FollowUpReceived(r, self, descriptor)
  <2> DEFINE services == r.subscribed \o r.published
             k == FindId(services, descriptor.service_id)
             service == services[k]
             event == EventFor("RECEIVE", service, descriptor)
  <2>1. q = IF descriptor.to # self \/ k = 0 THEN r ELSE nan_dispatch_event(r, event)
    BY <1>7 DEF FollowUpReceived
  <2>2. services \in Seq(Service)
    BY <1>2, <1>3, ConcatProperties
  <2>3. k = 0 \/ k \in 1..Len(services)
    BY <2>2, IdMatches
  <2> HIDE DEF k
  <2>4. k # 0 => <<service.name, service.instance_id>> \in AllLabels(r)
    BY <1>2, <1>3, <2>3, LabelsConcat DEF AllLabels
  <2> HIDE DEF service
  <2>5. event.service_name = service.name /\ event.instance_id = service.instance_id
    BY DEF EventFor
  <2> HIDE DEF event
  <2> QED
    BY <1>3, <1>4, <2>1, <2>4, <2>5, DispatchLabels
<1>8. CASE q = SubscribeReceived(r, descriptor)
  <2> DEFINE k == FindId(r.published, descriptor.service_id)
             list == [ r.published EXCEPT ![k].do_publish = TRUE ]
  <2>1. CASE k = 0
    BY <1>4, <1>8, <2>1 DEF SubscribeReceived
  <2>2. CASE k # 0
    <3>1. /\ q.published = list /\ q.subscribed = r.subscribed
          /\ q.event = r.event /\ q.last_instance_id = r.last_instance_id
      BY <1>3, <1>8, <2>2 DEF SubscribeReceived, Shape
    <3>2. r.published \in [1..Len(r.published) -> Service] /\ Len(r.published) \in Nat
      BY <1>2, <1>3, LenProperties
    <3> HIDE DEF k
    <3>3. /\ list \in [1..Len(r.published) -> Service]
          /\ \A i \in 1..Len(r.published) :
                list[i].name = r.published[i].name
                /\ list[i].instance_id = r.published[i].instance_id
      BY <3>2 DEF Service
    <3> HIDE DEF list
    <3>4. list \in Seq(Service)
      BY <3>2, <3>3, SeqDef
    <3>5. Len(list) = Len(r.published)
      BY <3>2, <3>3, <3>4, LenProperties
    <3>6. Labels(list) = Labels(r.published)
      BY <3>3, <3>5, SameLabels
    <3>7. AllLabels(q) = AllLabels(r)
      BY <3>1, <3>6 DEF AllLabels
    <3> QED
      BY <1>4, <3>1, <3>7, FewerLabels
  <2> QED
    BY <2>1, <2>2
<1> QED
  BY <1>1, <1>4, <1>6, <1>7, <1>8 DEF nan_handle_received_service_discovery

\* A window leaves the labels as they are.
LEMMA WindowLabels ==
    ASSUME NEW d, DeviceInv(d), NEW count, LabelInv(d, count), NEW r, r = AfterWindow(d)
    PROVE  LabelInv(r, count) /\ AllLabels(r) = AllLabels(d)
<1>1. Shape(d) /\ d.published \in Seq(Service) /\ d.subscribed \in Seq(Service)
  BY DEF DeviceInv, NodeOK
<1>2. /\ r.event = d.event /\ r.last_instance_id = d.last_instance_id
      /\ r.published = nan_update_announced_services(d.published)
      /\ r.subscribed = nan_update_announced_services(d.subscribed)
  BY <1>1 DEF AfterWindow, Shape
<1>3. AllLabels(r) = AllLabels(d)
  BY <1>1, <1>2, LabelsAnnounced DEF AllLabels
<1> QED
  BY <1>2, <1>3, FewerLabels

(***************************************************************************)
(* A new service has an id no other has, while there are ids left.         *)
(***************************************************************************)
LEMMA RegisterLabels ==
    ASSUME NEW d, DeviceInv(d), NEW count \in Nat, LabelInv(d, count), d.event = NoEvent,
           count + 1 < IdMod, NEW name \in Name, ~Registered(d, name),
           NEW kind \in Kind, NEW ttl \in Int,
           NEW r, r \in { nan_cmd_publish_service(d, name, kind, ttl),
                          nan_cmd_subscribe_service(d, name, kind, ttl) }
    PROVE  LabelInv(r, count + 1) /\ AllLabels(d) \subseteq AllLabels(r)
<1> DEFINE service == nan_service_new(d, name, kind, ttl)
           published == nan_publish(d, service)
           subscribed == nan_subscribe(d, service)
<1>1. Shape(d) /\ d.published \in Seq(Service) /\ d.subscribed \in Seq(Service)
  BY DEF DeviceInv, NodeOK
<1>2. increase_non_zero_id(d.last_instance_id) = count + 1
  BY ServiceAssumption DEF increase_non_zero_id, LabelInv
<1>3. /\ service \in Service /\ service.name = name /\ service.instance_id = count + 1
  BY <1>2, ServiceAssumption DEF nan_service_new, Service
<1>4. r \in { nan_add_event_listener(published, "RECEIVE", name),
              nan_add_event_listener(subscribed, "DISCOVERY_RESULT", name) }
  BY DEF nan_cmd_publish_service, nan_cmd_subscribe_service
<1> HIDE DEF service
<1>5. \A q \in {published, subscribed} :
          /\ Shape(q) /\ q.event = NoEvent /\ q.last_instance_id = count + 1
          /\ AllLabels(q) = AllLabels(d) \cup {<<name, count + 1>>}
  <2> SUFFICES ASSUME NEW q \in {published, subscribed}
               PROVE  /\ Shape(q) /\ q.event = NoEvent /\ q.last_instance_id = count + 1
                      /\ AllLabels(q) = AllLabels(d) \cup {<<name, count + 1>>}
    OBVIOUS
  <2>1. /\ Shape(q) /\ q.event = NoEvent /\ q.last_instance_id = count + 1
        /\ \/ /\ q.published = Append(d.published, service)
              /\ q.subscribed = d.subscribed
           \/ /\ q.subscribed = Append(d.subscribed, service)
              /\ q.published = d.published
    BY <1>1, <1>3 DEF nan_publish, nan_subscribe, Shape
  <2>2. /\ Labels(Append(d.published, service))
              = Labels(d.published) \cup {<<name, count + 1>>}
        /\ Labels(Append(d.subscribed, service))
              = Labels(d.subscribed) \cup {<<name, count + 1>>}
    BY <1>1, <1>3, LabelsAppend
  <2>3. AllLabels(q) = AllLabels(d) \cup {<<name, count + 1>>}
    BY <2>1, <2>2 DEF AllLabels
  <2> QED
    BY <2>1, <2>3
<1> HIDE DEF published, subscribed
<1>6. /\ r.event = NoEvent /\ r.last_instance_id = count + 1
      /\ AllLabels(r) = AllLabels(d) \cup {<<name, count + 1>>}
  BY <1>4, <1>5, ListenersOnly
<1>7. \A l \in AllLabels(d) : l[2] \in 1..count
  BY DEF LabelInv
<1>8. \A l \in AllLabels(r) :
          \/ l \in AllLabels(d) /\ l[2] \in 1..count
          \/ l[1] = name /\ l[2] = count + 1
  BY <1>6, <1>7
<1>9. \A l \in AllLabels(r) : l[2] \in 1..(count + 1)
  BY <1>8
<1>10. \A l, m \in AllLabels(r) : l[2] = m[2] => l[1] = m[1]
  BY <1>8 DEF LabelInv
<1> QED
  BY <1>6, <1>9, <1>10 DEF LabelInv

\* What created remembers of a service
History ==
    [ service_id : ServiceId, instance_id : Nat, allowed : Int, announced : Nat ]

\* The labels of every device, against the number of services it had.
LInv ==
    /\ created \in [Device -> Seq(History)]
    /\ \A n \in Device : LabelInv(node[n], Len(created[n]))

\* A device starts without services.
LEMMA InitLInv == Init => LInv
<1> SUFFICES ASSUME Init
             PROVE  LInv
  OBVIOUS
<1>1. created \in [Device -> Seq(History)]
  BY DEF Init
<1>2. ASSUME NEW n \in Device
      PROVE  LabelInv(node[n], Len(created[n]))
  <2>1. /\ node[n].published = <<>> /\ node[n].subscribed = <<>>
        /\ node[n].last_instance_id = 0 /\ node[n].event = NoEvent
    BY DEF Init, init_services
  <2>2. Len(created[n]) = 0
    BY DEF Init
  <2>3. AllLabels(node[n]) = {}
    BY <2>1 DEF AllLabels, Labels
  <2> QED
    BY <2>1, <2>2, <2>3 DEF LabelInv
<1> QED
  BY <1>1, <1>2 DEF LInv

\* Counting announcements changes entries and adds none.
LEMMA CountKeepsLength ==
    ASSUME NEW history \in Seq(History), NEW services
    PROVE  /\ Count(history, services) \in Seq(History)
           /\ Len(Count(history, services)) = Len(history)
<1> DEFINE r == Count(history, services)
<1>1. Len(history) \in Nat /\ history \in [1..Len(history) -> History]
      /\ DOMAIN history = 1..Len(history)
  BY LenProperties
<1>2. ASSUME NEW i \in 1..Len(history)
      PROVE  [ history[i] EXCEPT !.announced = @ + 1 ] \in History
  BY <1>1 DEF History
<1>3. r \in [1..Len(history) -> History]
  BY <1>1, <1>2 DEF Count
<1> HIDE DEF r
<1>4. r \in Seq(History)
  BY <1>1, <1>3, SeqDef
<1>5. Len(r) = Len(history)
  BY <1>1, <1>3, <1>4, LenProperties
<1> QED
  BY <1>4, <1>5 DEF r

\* One device takes a step, the others and the number of services stay.
LEMMA LabelsOfOne ==
    ASSUME IInv, LInv, NEW n \in Device, NEW d, LabelInv(d, Len(created[n])),
           node' = [ node EXCEPT ![n] = d ], created' = created
    PROVE  LInv'
BY DEF IInv, LInv

\* A command adds one service to a device's history.
LEMMA LabelsOfNew ==
    ASSUME IInv, LInv, NEW n \in Device, NEW d, NEW entry \in History,
           LabelInv(d, Len(created[n]) + 1), node' = [ node EXCEPT ![n] = d ],
           created' = [ created EXCEPT ![n] = Append(@, entry) ]
    PROVE  LInv'
<1> DEFINE longer == Append(created[n], entry)
<1>1. longer \in Seq(History) /\ Len(longer) = Len(created[n]) + 1
  BY AppendProperties DEF LInv
<1>2. created' = [ created EXCEPT ![n] = longer ]
  BY DEF LInv
<1> HIDE DEF longer
<1> QED
  BY <1>1, <1>2 DEF IInv, LInv

\* Labels that a step takes away have the id of the follow-up under way.
LostByFollowUp(n) ==
    \A l \in AllLabels(node[n]) \ AllLabels(node'[n]) :
        /\ node[n].event # NoEvent /\ node[n].event.event = "RECEIVE"
        /\ l[2] = node[n].event.instance_id

(***************************************************************************)
(* Every step keeps the labels' invariant, and takes away labels only as   *)
(* CallListenerLabels says: one case per action.                           *)
(***************************************************************************)
LEMMA NextLInv ==
    ASSUME MaxServices < IdMod, IInv, LInv, [Next]_vars
    PROVE  LInv' /\ \A m \in Device : LostByFollowUp(m)
<1>1. CASE UNCHANGED vars
  BY <1>1 DEF vars, LInv, LostByFollowUp
<1>2. CASE Next
  <2>1. PICK n \in Device :
            Command(n) \/ DiscoveryWindow(n) \/ Receive(n) \/ Handle(n) \/ Call(n) \/ Lose(n)
    BY <1>2 DEF Next
  <2> DEFINE d == node[n]
             count == Len(created[n])
  <2>2. DeviceInv(d) /\ LabelInv(d, count) /\ count \in Nat
    BY LenProperties DEF IInv, LInv
  <2>3. ASSUME NEW r, node' = [ node EXCEPT ![n] = r ], AllLabels(d) \subseteq AllLabels(r)
        PROVE  \A m \in Device : LostByFollowUp(m)
    BY <2>3 DEF IInv, LostByFollowUp
  <2>4. ASSUME NEW name \in Name, NEW kind \in Kind, NEW ttl \in Int,
               count < MaxServices, ~Registered(d, name), Idle(d),
               NEW r, r \in { nan_cmd_publish_service(d, name, kind, ttl),
                              nan_cmd_subscribe_service(d, name, kind, ttl) },
               node' = [ node EXCEPT ![n] = r ],
               created' = [ created EXCEPT ![n] =
                              Append(@, Create(nan_service_new(d, name, kind, ttl))) ]
        PROVE  LInv' /\ \A m \in Device : LostByFollowUp(m)
    <3> DEFINE entry == Create(nan_service_new(d, name, kind, ttl))
    <3>1. count + 1 < IdMod
      BY <2>2, <2>4, DiscoveryAssumption, ServiceAssumption
    <3>2. LabelInv(r, count + 1) /\ AllLabels(d) \subseteq AllLabels(r)
      BY <2>2, <2>4, <3>1, RegisterLabels DEF Idle
    <3>3. increase_non_zero_id(d.last_instance_id) \in Nat
      BY <2>2, ServiceAssumption DEF increase_non_zero_id, DeviceInv, NodeOK
    <3>4. entry \in History
      BY <3>3, ServiceAssumption DEF Create, nan_service_new, History
    <3> HIDE DEF entry
    <3>5. created' = [ created EXCEPT ![n] = Append(@, entry) ]
      BY <2>4 DEF entry
    <3> QED
      BY <2>3, <2>4, <3>2, <3>4, <3>5, LabelsOfNew
  <2>5. ASSUME NEW name \in Name, NEW offer \in Offers, Publish(n, name, offer)
        PROVE  LInv' /\ \A m \in Device : LostByFollowUp(m)
    <3>1. offer[1] \in Kind /\ offer[2] \in Int
      BY DiscoveryAssumption DEF Kind
    <3>2. /\ count < MaxServices /\ ~Registered(d, name) /\ Idle(d)
          /\ node' = [ node EXCEPT ![n] =
                         nan_cmd_publish_service(d, name, offer[1], offer[2]) ]
          /\ created' = [ created EXCEPT ![n] =
                Append(@, Create(nan_service_new(d, name, offer[1], offer[2]))) ]
      BY <2>5 DEF Publish
    <3> QED
      BY <2>4, <3>1, <3>2
  <2>6. ASSUME NEW name \in Name, NEW want \in Wants, Subscribe(n, name, want)
        PROVE  LInv' /\ \A m \in Device : LostByFollowUp(m)
    <3>1. want[1] \in Kind /\ want[2] \in Int
      BY DiscoveryAssumption DEF Kind
    <3>2. /\ count < MaxServices /\ ~Registered(d, name) /\ Idle(d)
          /\ node' = [ node EXCEPT ![n] =
                         nan_cmd_subscribe_service(d, name, want[1], want[2]) ]
          /\ created' = [ created EXCEPT ![n] =
                Append(@, Create(nan_service_new(d, name, want[1], want[2]))) ]
      BY <2>6 DEF Subscribe
    <3> QED
      BY <2>4, <3>1, <3>2
  <2>7. CASE DiscoveryWindow(n)
    <3> DEFINE r == AfterWindow(d)
               history == Count(created[n], nan_get_services_to_announce(d))
    <3>1. LabelInv(r, count) /\ AllLabels(r) = AllLabels(d)
      BY <2>2, WindowLabels
    <3>2. history \in Seq(History) /\ Len(history) = count
      BY CountKeepsLength DEF LInv
    <3>3. /\ node' = [ node EXCEPT ![n] = r ]
          /\ created' = [ created EXCEPT ![n] = history ]
      BY <2>7 DEF DiscoveryWindow, IInv, LInv
    <3> HIDE DEF r, history
    <3>4. LInv'
      BY <3>1, <3>2, <3>3 DEF IInv, LInv
    <3> QED
      BY <2>3, <3>1, <3>3, <3>4
  <2>8. CASE Receive(n)
    <3> DEFINE frame == Head(inbox[n])
               r == [ d EXCEPT !.todo = frame ]
    <3>1. node' = [ node EXCEPT ![n] = r ] /\ created' = created
      BY <2>8 DEF Receive, IInv
    <3> HIDE DEF frame
    <3>2. /\ r.published = d.published /\ r.subscribed = d.subscribed
          /\ r.event = d.event /\ r.last_instance_id = d.last_instance_id
      BY <2>2 DEF DeviceInv, NodeOK, Shape
    <3> HIDE DEF r
    <3>3. AllLabels(r) = AllLabels(d)
      BY <3>2 DEF AllLabels
    <3>4. LabelInv(r, count)
      BY <2>2, <3>2, <3>3, FewerLabels
    <3> QED
      BY <2>3, <3>1, <3>3, <3>4, LabelsOfOne
  <2>9. CASE Handle(n)
    <3> DEFINE r == HandleDescriptor(d, n)
    <3>1. node' = [ node EXCEPT ![n] = r ] /\ created' = created
      BY <2>9 DEF Handle, IInv
    <3>2. LabelInv(r, count) /\ AllLabels(r) = AllLabels(d)
      BY <2>2, DescriptorLabels
    <3> HIDE DEF r
    <3> QED
      BY <2>3, <3>1, <3>2, LabelsOfOne
  <2>10. CASE Call(n)
    <3> DEFINE r == CallListener(d, n)
    <3>1. node' = [ node EXCEPT ![n] = r ] /\ created' = created
      BY <2>10 DEF Call, IInv
    <3>2. /\ LabelInv(r, count)
          /\ \A l \in AllLabels(d) \ AllLabels(r) :
                /\ d.event # NoEvent /\ d.event.event = "RECEIVE"
                /\ l[2] = d.event.instance_id
      BY <2>2, CallListenerLabels
    <3> HIDE DEF r
    <3>3. \A m \in Device : LostByFollowUp(m)
      BY <3>1, <3>2 DEF IInv, LostByFollowUp
    <3> QED
      BY <3>1, <3>2, <3>3, LabelsOfOne
  <2>11. CASE Lose(n)
    BY <2>11 DEF Lose, LInv, LostByFollowUp
  <2> QED
    BY <2>1, <2>5, <2>6, <2>7, <2>8, <2>9, <2>10, <2>11 DEF Command
<1> QED
  BY <1>1, <1>2

\* A label that is lost under the invariant is the one the event means.
LEMMA EndedIsMeant ==
    ASSUME IInv, LInv, NEW n \in Device, LostByFollowUp(n), NEW s \in Ended(n),
           node'[n].published \in Seq(Service), node'[n].subscribed \in Seq(Service)
    PROVE  node[n].event.event = "RECEIVE" /\ node[n].event.service_name = s.name
<1> DEFINE label == <<s.name, s.instance_id>>
<1>1. node[n].published \in Seq(Service) /\ node[n].subscribed \in Seq(Service)
  BY DEF IInv, DeviceInv, NodeOK
<1>2. \A list \in {node[n].published, node[n].subscribed,
                   node'[n].published, node'[n].subscribed} : DOMAIN list = 1..Len(list)
  BY <1>1, LenProperties
<1>3. label \in AllLabels(node[n])
  BY <1>2 DEF Ended, ToSet, AllLabels, Labels
<1>4. label \notin AllLabels(node'[n])
  <2> SUFFICES ASSUME NEW list \in {node'[n].published, node'[n].subscribed},
                      label \in Labels(list)
               PROVE  FALSE
    BY DEF AllLabels
  <2>1. PICK j \in 1..Len(list) : label = <<list[j].name, list[j].instance_id>>
    BY DEF Labels
  <2> QED
    BY <1>2, <2>1 DEF Ended
<1>5. /\ node[n].event # NoEvent /\ node[n].event.event = "RECEIVE"
      /\ s.instance_id = node[n].event.instance_id
  BY <1>3, <1>4 DEF LostByFollowUp
<1>6. LabelInv(node[n], Len(created[n]))
  BY DEF LInv
<1> QED
  BY <1>3, <1>5, <1>6 DEF LabelInv

(***************************************************************************)
(* As long as a device had no more services than there are instance ids,   *)
(* a follow-up ends the service it was dispatched for and no other,        *)
(* whichever listeners run for it: handle_event_receive looks the service  *)
(* up by an id that no other service of the device has.                    *)
(***************************************************************************)
THEOREM ServicesEndAddressed ==
    ASSUME MaxServices < IdMod
    PROVE  Spec => EndsOnlyWhenAddressed
<1>1. IInv /\ LInv /\ [Next]_vars => LInv'
  BY NextLInv
<1>2. IInv /\ IInv' /\ LInv /\ [Next]_vars =>
          [ \A n \in Device : \A s \in Ended(n) :
              /\ node[n].event.event = "RECEIVE"
              /\ node[n].event.service_name = s.name ]_vars
  <2> SUFFICES ASSUME IInv, IInv', LInv, [Next]_vars,
                      NEW n \in Device, NEW s \in Ended(n)
               PROVE  /\ node[n].event.event = "RECEIVE"
                      /\ node[n].event.service_name = s.name
    OBVIOUS
  <2>1. LostByFollowUp(n)
    BY NextLInv
  <2>2. node'[n].published \in Seq(Service) /\ node'[n].subscribed \in Seq(Service)
    BY DEF IInv, DeviceInv, NodeOK
  <2> QED
    BY <2>1, <2>2, EndedIsMeant
<1> QED
  BY InitIInv, NextIInv, InitLInv, <1>1, <1>2, PTL DEF Spec, EndsOnlyWhenAddressed


----------------------------------------------------------------------------
(* What a window announces. *)

\* found[m] is what the walk over a list has found among its first m services.
Walk(services, found, n) ==
    \A m \in 0..n :
        found[m] = IF m = 0 THEN <<>>
                   ELSE IF nan_should_announce_service(services[m])
                   THEN Append(found[m - 1], services[m])
                   ELSE found[m - 1]

(***************************************************************************)
(* There is such a function for every list.                                *)
(***************************************************************************)
LEMMA WalkExists ==
    ASSUME NEW services, NEW n \in Nat
    PROVE  \E found : found = [ m \in 0..n |-> found[m] ] /\ Walk(services, found, n)
<1> DEFINE Exists(m) ==
        \E found : found = [ i \in 0..m |-> found[i] ] /\ Walk(services, found, m)
           I == { m \in Nat : ~Exists(m) }
<1>1. SUFFICES ASSUME I # {} PROVE FALSE
  OBVIOUS
<1>2. PICK m \in I : \A j \in I : m <= j
  BY <1>1, Least
<1>3. CASE m = 0
  <2> DEFINE found == [ i \in 0..0 |-> <<>> ]
  <2>1. found = [ i \in 0..0 |-> found[i] ] /\ Walk(services, found, 0)
    BY DEF Walk
  <2> HIDE DEF found
  <2> QED
    BY <1>2, <1>3, <2>1
<1>4. CASE m # 0
  <2>1. m \in Nat /\ m - 1 \in Nat /\ ~ (m <= m - 1)
    BY <1>2, <1>4
  <2>2. Exists(m - 1)
    BY <1>2, <2>1
  <2>3. PICK shorter : Walk(services, shorter, m - 1)
    BY <2>2
  <2> DEFINE last == IF nan_should_announce_service(services[m])
                     THEN Append(shorter[m - 1], services[m]) ELSE shorter[m - 1]
             found == [ i \in 0..m |-> IF i = m THEN last ELSE shorter[i] ]
  <2>4. found = [ i \in 0..m |-> found[i] ]
    OBVIOUS
  <2>5. \A i \in 0..m : found[i] = IF i = m THEN last ELSE shorter[i]
    OBVIOUS
  <2> HIDE DEF found
  <2>6. Walk(services, found, m)
    <3> SUFFICES ASSUME NEW i \in 0..m
                 PROVE  found[i] = IF i = 0 THEN <<>>
                                   ELSE IF nan_should_announce_service(services[i])
                                   THEN Append(found[i - 1], services[i])
                                   ELSE found[i - 1]
      BY DEF Walk
    <3>1. CASE i = m
      <4>1. m - 1 \in 0..m /\ m - 1 # m /\ i # 0
        BY <2>1, <3>1
      <4> QED
        BY <2>5, <3>1, <4>1
    <3>2. CASE i # m
      <4>1. i \in 0..(m - 1)
        BY <2>1, <3>2
      <4>2. i # 0 => i - 1 \in 0..m /\ i - 1 # m
        BY <2>1, <4>1
      <4> QED
        BY <2>3, <2>5, <3>2, <4>1, <4>2 DEF Walk
    <3> QED
      BY <3>1, <3>2
  <2> QED
    BY <1>2, <2>4, <2>6
<1> QED
  BY <1>3, <1>4

(***************************************************************************)
(* What is found are services of the list that are to be announced, and    *)
(* every one of them (nan_get_services_to_announce).                       *)
(***************************************************************************)
LEMMA AnnouncedAreFound ==
    ASSUME NEW services \in Seq(Service)
    PROVE  LET r == ToAnnounce(services) IN
           /\ r \in Seq(Service)
           /\ \A s : (\E j \in 1..Len(r) : r[j] = s)
                        <=> \E i \in 1..Len(services) :
                                services[i] = s /\ nan_should_announce_service(s)
<1> DEFINE N == Len(services)
<1>1. N \in Nat
  BY LenProperties
<1>2. PICK found : found = [ n \in 0..N |-> found[n] ] /\ Walk(services, found, N)
                   /\ ToAnnounce(services) = found[N]
  <2> DEFINE Step(f) == [ n \in 0..N |->
                            IF n = 0 THEN <<>>
                            ELSE IF nan_should_announce_service(services[n])
                            THEN Append(f[n - 1], services[n])
                            ELSE f[n - 1] ]
             found == CHOOSE f : f = Step(f)
  <2>1. ToAnnounce(services) = found[N]
    BY Zenon DEF ToAnnounce
  <2>2. \E f : f = Step(f)
    <3>1. PICK f : f = [ m \in 0..N |-> f[m] ] /\ Walk(services, f, N)
      BY <1>1, WalkExists
    <3>2. f = Step(f)
      BY <3>1 DEF Walk
    <3> QED
      BY <3>2
  <2>3. found = Step(found)
    BY <2>2, Zenon
  <2> HIDE DEF found
  <2>4. found = [ n \in 0..N |-> found[n] ] /\ Walk(services, found, N)
    BY <2>3 DEF Walk
  <2> QED
    BY <2>1, <2>4
<1> DEFINE Right(n) ==
        /\ found[n] \in Seq(Service)
        /\ \A s : (\E j \in 1..Len(found[n]) : found[n][j] = s)
                     <=> \E i \in 1..n : services[i] = s /\ nan_should_announce_service(s)
           I == { n \in 0..N : ~Right(n) }
<1>3. SUFFICES ASSUME I # {} PROVE FALSE
  <2>1. N \in 0..N
    BY <1>1
  <2>2. Right(N)
    BY <1>3, <2>1
  <2> HIDE DEF N
  <2> QED
    BY <1>2, <2>2 DEF N
<1>4. PICK n \in I : \A j \in I : n <= j
  <2>1. I \in SUBSET Nat
    BY <1>1
  <2> HIDE DEF I
  <2> QED
    BY <1>3, <2>1, Least
<1>5. CASE n = 0
  <2>1. found[0] = <<>>
    BY <1>1, <1>2 DEF Walk
  <2>2. Right(0)
    BY <2>1
  <2> QED
    BY <1>4, <1>5, <2>2
<1>6. CASE n # 0
  <2>1. n \in 1..N /\ n - 1 \in 0..N /\ ~ (n <= n - 1)
    BY <1>1, <1>4, <1>6
  <2>2. Right(n - 1)
    BY <1>4, <2>1
  <2> DEFINE before == found[n - 1]
             service == services[n]
  <2>3. service \in Service
    BY <2>1, ElementOfSeq
  <2>4. found[n] = IF nan_should_announce_service(service)
                   THEN Append(before, service) ELSE before
    BY <1>2, <2>1 DEF Walk
  <2>5. before \in Seq(Service)
        /\ \A s : (\E j \in 1..Len(before) : before[j] = s)
                     <=> \E i \in 1..(n - 1) :
                            services[i] = s /\ nan_should_announce_service(s)
    BY <2>2
  <2>6. 1..n = 1..(n - 1) \cup {n}
    BY <2>1
  <2> HIDE DEF before
  <2>7. CASE nan_should_announce_service(service)
    <3> DEFINE longer == Append(before, service)
    <3>1. /\ longer \in Seq(Service)
          /\ Len(longer) = Len(before) + 1 /\ Len(before) \in Nat
          /\ \A j \in 1..Len(before) : longer[j] = before[j]
          /\ longer[Len(before) + 1] = service
      BY <2>3, <2>5, AppendProperties, LenProperties
    <3>2. found[n] = longer
      BY <2>4, <2>7
    <3> HIDE DEF longer
    <3>3. 1..Len(longer) = 1..Len(before) \cup {Len(before) + 1}
      BY <3>1
    <3>4. \A s : (\E j \in 1..Len(longer) : longer[j] = s)
                     <=> s = service \/ \E j \in 1..Len(before) : before[j] = s
      BY <3>1, <3>3
    <3>5. Right(n)
      BY <2>5, <2>6, <2>7, <3>1, <3>2, <3>4
    <3> QED
      BY <1>4, <3>5
  <2>8. CASE ~nan_should_announce_service(service)
    <3>1. found[n] = before
      BY <2>4, <2>8
    <3>2. Right(n)
      BY <2>5, <2>6, <2>8, <3>1
    <3> QED
      BY <1>4, <3>2
  <2> QED
    BY <2>7, <2>8
<1> QED
  BY <1>5, <1>6


----------------------------------------------------------------------------
(* What a device's lists become. *)

\* The same services, but for do_publish
SameServices(a, b) ==
    /\ Len(a) = Len(b)
    /\ \A i \in 1..Len(b) : /\ a[i].name = b[i].name
                            /\ a[i].instance_id = b[i].instance_id
                            /\ a[i].time_to_live = b[i].time_to_live

\* A received descriptor marks a published service at most, and begins a
\* dispatch at most (nan_handle_received_service_discovery).
LEMMA DescriptorLists ==
    ASSUME NEW d, DeviceInv(d), NEW self, NEW q, q = HandleDescriptor(d, self)
    PROVE  /\ q.subscribed = d.subscribed /\ SameServices(q.published, d.published)
           /\ q.buffer = d.buffer /\ q.todo = Tail(d.todo)
           /\ \/ q.event = d.event
              \/ LET descriptor == Head(d.todo)
                     k == FindId(d.subscribed, descriptor.service_id)
                 IN  /\ descriptor.control = "PUBLISH" /\ k # 0
                     /\ q.event = EventFor("DISCOVERY_RESULT", d.subscribed[k], descriptor)
              \/ LET descriptor == Head(d.todo)
                     services == d.subscribed \o d.published
                     k == FindId(services, descriptor.service_id)
                 IN  /\ descriptor.control = "FOLLOW_UP" /\ k # 0
                     /\ q.event = EventFor("RECEIVE", services[k], descriptor)
<1> DEFINE descriptor == Head(d.todo)
           rest == Tail(d.todo)
           r == [ d EXCEPT !.todo = rest ]
<1>1. q = nan_handle_received_service_discovery(r, self, descriptor)
  BY DEF HandleDescriptor
<1> HIDE DEF descriptor, rest
<1>2. Shape(d) /\ d.published \in Seq(Service)
  BY DEF DeviceInv, NodeOK
<1>3. /\ Shape(r) /\ r.published = d.published /\ r.subscribed = d.subscribed
      /\ r.event = d.event /\ r.buffer = d.buffer /\ r.todo = rest
  BY <1>2 DEF Shape
<1> HIDE DEF r
<1>4. SameServices(d.published, d.published)
  BY DEF SameServices
<1>5. CASE q = r
  BY <1>3, <1>4, <1>5 DEF rest
<1>6. CASE descriptor.control = "PUBLISH"
  <2> DEFINE k == FindId(d.subscribed, descriptor.service_id)
             event == EventFor("DISCOVERY_RESULT", d.subscribed[k], descriptor)
  <2>1. q = IF k = 0 THEN r ELSE nan_dispatch_event(r, event)
    BY <1>1, <1>3, <1>6 DEF nan_handle_received_service_discovery, PublishReceived
  <2> HIDE DEF k, event
  <2>2. k # 0 => /\ q.published = d.published /\ q.subscribed = d.subscribed
                 /\ q.buffer = d.buffer /\ q.todo = rest /\ q.event = event
    BY <1>3, <2>1 DEF nan_dispatch_event, Shape
  <2> QED
    BY <1>4, <1>5, <1>6, <2>1, <2>2 DEF rest, descriptor, k, event
<1>7. CASE descriptor.control = "FOLLOW_UP"
  <2> DEFINE services == d.subscribed \o d.published
             k == FindId(services, descriptor.service_id)
             event == EventFor("RECEIVE", services[k], descriptor)
  <2>1. q = IF descriptor.to # self \/ k = 0 THEN r ELSE nan_dispatch_event(r, event)
    BY <1>1, <1>3, <1>7 DEF nan_handle_received_service_discovery, FollowUpReceived
  <2> HIDE DEF k, event
  <2>2. k # 0 /\ descriptor.to = self =>
                 /\ q.published = d.published /\ q.subscribed = d.subscribed
                 /\ q.buffer = d.buffer /\ q.todo = rest /\ q.event = event
    BY <1>3, <2>1 DEF nan_dispatch_event, Shape
  <2> QED
    BY <1>4, <1>5, <1>7, <2>1, <2>2 DEF rest, descriptor, k, event
<1>8. CASE descriptor.control = "SUBSCRIBE"
  <2> DEFINE k == FindId(d.published, descriptor.service_id)
             list == [ d.published EXCEPT ![k].do_publish = TRUE ]
  <2>1. k = 0 \/ k \in 1..Len(d.published)
    BY <1>2, IdMatches
  <2>2. q = IF k = 0 THEN r ELSE [ r EXCEPT !.published[k].do_publish = TRUE ]
    BY <1>1, <1>3, <1>8 DEF nan_handle_received_service_discovery, SubscribeReceived
  <2>3. CASE k # 0
    <3>1. /\ q.published = list /\ q.subscribed = d.subscribed
          /\ q.event = d.event /\ q.buffer = d.buffer /\ q.todo = rest
      BY <1>3, <2>2, <2>3 DEF Shape
    <3>2. d.published \in [1..Len(d.published) -> Service] /\ Len(d.published) \in Nat
      BY <1>2, LenProperties
    <3> HIDE DEF k
    <3>3. /\ list \in [1..Len(d.published) -> Service]
          /\ \A i \in 1..Len(d.published) :
                /\ list[i].name = d.published[i].name
                /\ list[i].instance_id = d.published[i].instance_id
                /\ list[i].time_to_live = d.published[i].time_to_live
      BY <2>1, <2>3, <3>2 DEF Service
    <3> HIDE DEF list
    <3>4. list \in Seq(Service)
      BY <3>2, <3>3, SeqDef
    <3>5. Len(list) = Len(d.published)
      BY <3>2, <3>3, <3>4, LenProperties
    <3> QED
      BY <3>1, <3>3, <3>5 DEF SameServices, rest
  <2> QED
    BY <1>5, <2>2, <2>3
<1>9. CASE descriptor.control \notin {"PUBLISH", "SUBSCRIBE", "FOLLOW_UP"}
  BY <1>1, <1>5, <1>9 DEF nan_handle_received_service_discovery
<1> QED
  BY <1>6, <1>7, <1>8, <1>9

\* A round of a dispatch takes away the service that the event means at most,
\* and adds the subscription's answer to the buffer at most.
LEMMA CallListenerLists ==
    ASSUME NEW d, DeviceInv(d), NEW self, NEW r, r = CallListener(d, self)
    PROVE  LET i == d.event.instance_id
               service == d.subscribed[FindInstance(d.subscribed, i)]
               answer == FollowUp(self, d.event.address, service, service.instance_id,
                                  d.event.peer_instance_id)
           IN  /\ r.published \in {d.published, Cancel(d.published, i)}
               /\ r.subscribed \in {d.subscribed, Cancel(d.subscribed, i)}
               /\ r.todo = d.todo
               /\ r.event \in {d.event, NoEvent}
               /\ \/ r.buffer = d.buffer
                  \/ /\ d.event # NoEvent /\ d.event.event = "DISCOVERY_RESULT"
                     /\ FindInstance(d.subscribed, i) # 0
                     /\ Len(d.buffer) # BufferSize
                     /\ r.buffer = Append(d.buffer, <<answer>>)
<1> DEFINE i == d.event.instance_id
           k == NextListener(d)
           moved == Advance(d, k)
           Same(a, b) == /\ a.published = b.published /\ a.subscribed = b.subscribed
                         /\ a.todo = b.todo /\ a.event = b.event /\ a.buffer = b.buffer
<1>1. Shape(d) /\ NodeOK(d)
  BY DEF DeviceInv, NodeOK
<1>2. CASE k = 0
  BY <1>1, <1>2 DEF CallListener, Shape
<1>3. CASE k # 0
  <2>1. d.event # NoEvent /\ d.event.event \in {"DISCOVERY_RESULT", "RECEIVE"}
    BY <1>1, <1>3, NextListenerFound DEF NodeOK
  <2>2. Shape(moved) /\ Same(moved, d)
    BY <1>1 DEF Advance, Shape
  <2>3. r = IF d.event.event = "RECEIVE" THEN handle_event_receive(moved, d.event)
            ELSE handle_event_discovery_result(moved, self, d.event)
    BY <1>3 DEF CallListener
  <2> HIDE DEF k, moved
  <2>4. ASSUME NEW q, Shape(q), NEW e
        PROVE  /\ Shape(nan_remove_event_listener(q, e))
               /\ Same(nan_remove_event_listener(q, e), q)
    <3> DEFINE p == nan_remove_event_listener(q, e)
               f == FirstListener(q.listeners, e)
               rest == RemoveAt(q.listeners, f)
               next == IF q.next = f THEN Freed
                       ELSE IF q.next > f THEN q.next - 1 ELSE q.next
    <3>1. p = IF f = 0 THEN q ELSE [ q EXCEPT !.listeners = rest, !.next = next ]
      BY DEF nan_remove_event_listener
    <3> HIDE DEF p, f, rest, next
    <3>2. Shape(p) /\ Same(p, q)
      BY <2>4, <3>1 DEF Shape
    <3> QED
      BY <3>2 DEF p
  <2>5. CASE d.event.event = "RECEIVE"
    <3> DEFINE ended == EndService(moved, i)
    <3>1. r \in {moved, nan_remove_event_listener(ended, "RECEIVE")}
      BY <2>3, <2>5 DEF handle_event_receive
    <3>2. /\ Shape(ended) /\ ended.todo = d.todo /\ ended.event = d.event
          /\ ended.buffer = d.buffer
          /\ ended.published \in {d.published, Cancel(d.published, i)}
          /\ ended.subscribed \in {d.subscribed, Cancel(d.subscribed, i)}
      BY <2>2 DEF EndService, Shape
    <3> HIDE DEF ended
    <3>3. Same(nan_remove_event_listener(ended, "RECEIVE"), ended)
      BY <2>4, <3>2
    <3>4. Same(r, moved) \/ Same(r, ended)
      BY <3>1, <3>3
    <3> HIDE DEF i
    <3> QED
      BY <2>2, <3>2, <3>4 DEF i
  <2>6. CASE d.event.event = "DISCOVERY_RESULT"
    <3> DEFINE j == FindInstance(d.subscribed, i)
               service == d.subscribed[j]
               answer == FollowUp(self, d.event.address, service, service.instance_id,
                                  d.event.peer_instance_id)
               sent == nan_transmit(moved, self, d.event.address, service,
                                    d.event.peer_instance_id)
               removed == nan_remove_event_listener(sent, "DISCOVERY_RESULT")
               added == nan_add_event_listener(removed, "RECEIVE", service.name)
    <3>1. r = IF j = 0 THEN moved ELSE added
      BY <2>2, <2>3, <2>6 DEF handle_event_discovery_result
    <3>2. /\ Shape(sent)
          /\ sent.published = d.published /\ sent.subscribed = d.subscribed
          /\ sent.todo = d.todo /\ sent.event = d.event
          /\ \/ sent.buffer = d.buffer
             \/ Len(d.buffer) # BufferSize /\ sent.buffer = Append(d.buffer, <<answer>>)
      BY <2>2 DEF nan_transmit, Shape
    <3> HIDE DEF j, service, answer, sent
    <3>3. Shape(removed) /\ Same(removed, sent)
      BY <2>4, <3>2
    <3> HIDE DEF removed
    <3>4. Same(added, removed)
      BY <3>3 DEF nan_add_event_listener, Shape
    <3> HIDE DEF added
    <3>5. Same(r, moved) \/ (j # 0 /\ Same(r, sent))
      BY <3>1, <3>3, <3>4
    <3>6. /\ r.published = d.published /\ r.subscribed = d.subscribed
          /\ r.todo = d.todo /\ r.event = d.event
          /\ \/ r.buffer = d.buffer
             \/ /\ j # 0 /\ Len(d.buffer) # BufferSize
                /\ r.buffer = Append(d.buffer, <<answer>>)
      BY <2>2, <3>2, <3>5
    <3> QED
      BY <2>1, <2>6, <3>6 DEF j, service, answer
  <2> QED
    BY <2>1, <2>5, <2>6
<1> QED
  BY <1>2, <1>3

\* A list with an entry put at its end
Longer(list, before, entry) == list = Append(before, entry)

\* A command adds one service to one list, or none.
LEMMA RegisterLists ==
    ASSUME NEW d, DeviceInv(d), NEW name, NEW kind, NEW ttl,
           NEW r, r \in { nan_cmd_publish_service(d, name, kind, ttl),
                          nan_cmd_subscribe_service(d, name, kind, ttl) },
           NEW service, service = nan_service_new(d, name, kind, ttl)
    PROVE  /\ r.buffer = d.buffer /\ r.todo = d.todo /\ r.event = d.event
           /\ \/ r.published = d.published /\ r.subscribed = d.subscribed
              \/ /\ Longer(r.published, d.published, service)
                 /\ r.subscribed = d.subscribed
              \/ /\ r.published = d.published
                 /\ Longer(r.subscribed, d.subscribed, service)
<1>1. Shape(d)
  BY DEF DeviceInv, NodeOK
<1>2. r \in { d, nan_add_event_listener(nan_publish(d, service), "RECEIVE", name),
              nan_add_event_listener(nan_subscribe(d, service), "DISCOVERY_RESULT", name) }
  BY DEF nan_cmd_publish_service, nan_cmd_subscribe_service
<1> QED
  BY <1>1, <1>2 DEF nan_add_event_listener, nan_publish, nan_subscribe, Shape, Longer


----------------------------------------------------------------------------
(* What frames and results are addressed with. *)

\* Sequences over a larger set
LEMMA SeqMonotone ==
    ASSUME NEW A, NEW B, A \subseteq B
    PROVE  Seq(A) \subseteq Seq(B)
<1> SUFFICES ASSUME NEW s \in Seq(A) PROVE s \in Seq(B)
  OBVIOUS
<1>1. Len(s) \in Nat /\ s \in [1..Len(s) -> A]
  BY LenProperties
<1>2. s \in [1..Len(s) -> B]
  BY <1>1
<1> QED
  BY <1>1, <1>2, SeqDef

\* Whose service, its service id and its instance id
Triple == Device \X ServiceId \X Nat

(***************************************************************************)
(* Descriptors whose sender had the service they name, and follow-ups      *)
(* whose receiver had the one they are meant for; H are the services that  *)
(* were had.                                                               *)
(***************************************************************************)
Addressed(H) ==
    { f \in Descriptor :
        /\ <<f.from, f.service_id, f.instance_id>> \in H
        /\ f.control = "FOLLOW_UP" =>
              <<f.to, f.service_id, f.requestor_instance_id>> \in H }

AddressedFrame(H) == Seq(Addressed(H))

\* Whose address and instance id a discovery result carries had its service.
ResultAddressed(d, H) ==
    d.event # NoEvent /\ d.event.event = "DISCOVERY_RESULT" =>
        <<d.event.address, IdOf[d.event.service_name], d.event.peer_instance_id>> \in H

\* The frames and the event that a device holds
FramesOK(d, H) ==
    /\ d.buffer \in Seq(AddressedFrame(H))
    /\ Len(d.buffer) <= BufferSize
    /\ d.todo \in AddressedFrame(H)
    /\ d.event \in Event \cup {NoEvent}
    /\ ResultAddressed(d, H)

\* The services that device self has are among H.
LabelsIn(d, self, H) == \A l \in AllLabels(d) : <<self, IdOf[l[1]], l[2]>> \in H

\* A service with the id that a result carries is answered to a peer that had it.
Meant(d, H) ==
    d.event # NoEvent /\ d.event.event = "DISCOVERY_RESULT" =>
        \A l \in AllLabels(d) :
            l[2] = d.event.instance_id =>
                <<d.event.address, IdOf[l[1]], d.event.peer_instance_id>> \in H

\* Each service of a list has its label.
LEMMA LabelOf ==
    ASSUME NEW d, NEW list \in {d.published, d.subscribed}, NEW j \in 1..Len(list)
    PROVE  <<list[j].name, list[j].instance_id>> \in AllLabels(d)
BY DEF AllLabels, Labels

\* Only a subscription's answer is new in a round of a dispatch, and it is
\* addressed with what the result carried.
LEMMA CallListenerFrames ==
    ASSUME NEW H, NEW self \in Device, NEW d, DeviceInv(d), FramesOK(d, H),
           LabelsIn(d, self, H), Meant(d, H), NEW r, r = CallListener(d, self)
    PROVE  FramesOK(r, H)
<1> DEFINE i == d.event.instance_id
           j == FindInstance(d.subscribed, i)
           service == d.subscribed[j]
           answer == FollowUp(self, d.event.address, service, service.instance_id,
                              d.event.peer_instance_id)
<1>1. /\ r.todo = d.todo /\ r.event \in {d.event, NoEvent}
      /\ \/ r.buffer = d.buffer
         \/ /\ d.event # NoEvent /\ d.event.event = "DISCOVERY_RESULT"
            /\ j # 0 /\ Len(d.buffer) # BufferSize
            /\ r.buffer = Append(d.buffer, <<answer>>)
  BY CallListenerLists
<1>2. CASE r.buffer = d.buffer
  BY <1>1, <1>2 DEF FramesOK, ResultAddressed
<1>3. CASE r.buffer # d.buffer
  <2>1. /\ d.event # NoEvent /\ d.event.event = "DISCOVERY_RESULT"
        /\ j # 0 /\ Len(d.buffer) # BufferSize
        /\ r.buffer = Append(d.buffer, <<answer>>)
    BY <1>1, <1>3
  <2>2. d.subscribed \in Seq(Service)
    BY DEF DeviceInv, NodeOK
  <2>3. j \in 1..Len(d.subscribed) /\ service.instance_id = i
    BY <2>1, <2>2, InstanceFound
  <2>4. service \in Service
    BY <2>2, <2>3, ElementOfSeq
  <2> HIDE DEF j
  <2>5. <<service.name, service.instance_id>> \in AllLabels(d)
    BY <2>3, LabelOf
  <2> HIDE DEF service
  <2> DEFINE l == <<service.name, service.instance_id>>
  <2>6. /\ l \in AllLabels(d) /\ l[1] = service.name /\ l[2] = service.instance_id
    BY <2>5
  <2> HIDE DEF l
  <2>7. /\ <<self, IdOf[service.name], service.instance_id>> \in H
        /\ <<d.event.address, IdOf[service.name], d.event.peer_instance_id>> \in H
    BY <2>1, <2>3, <2>6 DEF LabelsIn, Meant
  <2>8. d.event.address \in Device /\ d.event.peer_instance_id \in Nat
    BY <2>1 DEF FramesOK, Event
  <2>9. IdOf[service.name] \in ServiceId /\ service.instance_id \in Nat
    BY <2>4, ServiceAssumption DEF Service
  <2>10. /\ answer.from = self /\ answer.to = d.event.address
         /\ answer.service_id = IdOf[service.name]
         /\ answer.instance_id = service.instance_id
         /\ answer.requestor_instance_id = d.event.peer_instance_id
         /\ answer \in Descriptor
    BY <2>8, <2>9 DEF FollowUp, Descriptor
  <2> HIDE DEF answer
  <2>11. answer \in Addressed(H)
    BY <2>7, <2>10 DEF Addressed
  <2>12. <<answer>> \in AddressedFrame(H)
    BY <2>11 DEF AddressedFrame
  <2>13. /\ d.buffer \in Seq(AddressedFrame(H)) /\ Len(d.buffer) \in Nat
         /\ Len(d.buffer) <= BufferSize /\ BufferSize \in Nat
    BY ServiceAssumption, LenProperties DEF FramesOK
  <2> DEFINE longer == Append(d.buffer, <<answer>>)
  <2>14. longer \in Seq(AddressedFrame(H)) /\ Len(longer) = Len(d.buffer) + 1
    BY <2>12, <2>13, AppendProperties
  <2> HIDE DEF longer
  <2>15. r.buffer = longer
    BY <2>1 DEF longer
  <2>16. Len(longer) <= BufferSize
    BY <2>1, <2>13, <2>14
  <2> QED
    BY <1>1, <2>14, <2>15, <2>16 DEF FramesOK, ResultAddressed
<1> QED
  BY <1>2, <1>3

\* An event takes its address and the peer's id from a descriptor of its service.
LEMMA EventAddressed ==
    ASSUME NEW H, NEW f \in Addressed(H), NEW service \in Service,
           IdOf[service.name] = f.service_id,
           NEW e \in {"DISCOVERY_RESULT", "RECEIVE"},
           NEW d, d.event = EventFor(e, service, f)
    PROVE  d.event \in Event /\ ResultAddressed(d, H)
<1>1. /\ f.from \in Device /\ f.instance_id \in Nat
      /\ <<f.from, f.service_id, f.instance_id>> \in H
  BY DEF Addressed, Descriptor
<1>2. service.name \in Name /\ service.instance_id \in Nat
  BY ServiceAssumption DEF Service
<1>3. d.event = [ event |-> e, service_name |-> service.name,
                  instance_id |-> service.instance_id, address |-> f.from,
                  peer_instance_id |-> f.instance_id ]
  BY DEF EventFor
<1>4. d.event \in Event
  BY <1>1, <1>2, <1>3 DEF Event
<1>5. ResultAddressed(d, H)
  BY <1>1, <1>3 DEF ResultAddressed
<1> QED
  BY <1>4, <1>5

\* A descriptor handed to the engine becomes at most an event that is addressed
\* as the descriptor is.
LEMMA DescriptorFrames ==
    ASSUME NEW H, NEW self, NEW d, DeviceInv(d), FramesOK(d, H), d.todo # <<>>,
           NEW q, q = HandleDescriptor(d, self)
    PROVE  FramesOK(q, H)
<1> DEFINE f == Head(d.todo)
           rest == Tail(d.todo)
<1>1. d.todo \in Seq(Addressed(H))
  BY DEF FramesOK, AddressedFrame
<1>2. f \in Addressed(H) /\ rest \in AddressedFrame(H)
  BY <1>1, HeadTailProperties DEF AddressedFrame
<1>3. d.published \in Seq(Service) /\ d.subscribed \in Seq(Service)
  BY DEF DeviceInv, NodeOK
<1>4. d.subscribed \o d.published \in Seq(Service)
  BY <1>3, ConcatProperties
<1> DEFINE Cause ==
        \/ q.event = d.event
        \/ \E e \in {"DISCOVERY_RESULT", "RECEIVE"}, service \in Service :
              /\ IdOf[service.name] = f.service_id
              /\ q.event = EventFor(e, service, f)
<1>5. q.buffer = d.buffer /\ q.todo = rest /\ Cause
  <2>1. /\ q.buffer = d.buffer /\ q.todo = rest
        /\ \/ q.event = d.event
           \/ LET k == FindId(d.subscribed, f.service_id)
              IN  k # 0 /\ q.event = EventFor("DISCOVERY_RESULT", d.subscribed[k], f)
           \/ LET services == d.subscribed \o d.published
                  k == FindId(services, f.service_id)
              IN  k # 0 /\ q.event = EventFor("RECEIVE", services[k], f)
    BY DescriptorLists
  <2>2. ASSUME NEW list \in Seq(Service), FindId(list, f.service_id) # 0
        PROVE  /\ list[FindId(list, f.service_id)] \in Service
               /\ IdOf[list[FindId(list, f.service_id)].name] = f.service_id
    BY <2>2, IdMatches, ElementOfSeq
  <2> HIDE DEF f, rest
  <2> QED
    BY <1>3, <1>4, <2>1, <2>2
<1>6. q.event \in Event \cup {NoEvent} /\ ResultAddressed(q, H)
  <2>1. CASE q.event = d.event
    BY <2>1 DEF FramesOK, ResultAddressed
  <2>2. CASE q.event # d.event
    <3>1. PICK e \in {"DISCOVERY_RESULT", "RECEIVE"}, service \in Service :
              /\ IdOf[service.name] = f.service_id
              /\ q.event = EventFor(e, service, f)
      BY <1>5, <2>2
    <3> HIDE DEF f
    <3> QED
      BY <1>2, <3>1, EventAddressed
  <2> QED
    BY <2>1, <2>2
<1> HIDE DEF f, rest, Cause
<1> QED
  BY <1>2, <1>5, <1>6 DEF FramesOK

\* What is announced of a list names services of the list.
LEMMA DescribedAreAddressed ==
    ASSUME NEW H, NEW self \in Device, NEW d, DeviceInv(d), LabelsIn(d, self, H),
           NEW list \in {d.published, d.subscribed},
           NEW control \in {"PUBLISH", "SUBSCRIBE"}
    PROVE  Describe(self, ToAnnounce(list), control) \in AddressedFrame(H)
<1> DEFINE services == ToAnnounce(list)
           r == Describe(self, services, control)
<1>1. list \in Seq(Service)
  BY DEF DeviceInv, NodeOK
<1>2. /\ services \in Seq(Service)
      /\ \A j \in 1..Len(services) : \E i \in 1..Len(list) : list[i] = services[j]
  BY <1>1, AnnouncedAreFound
<1> HIDE DEF services
<1>3. Len(services) \in Nat /\ DOMAIN services = 1..Len(services)
  BY <1>2, LenProperties
<1>4. ASSUME NEW j \in 1..Len(services)
      PROVE  [ from |-> self, to |-> NAN_NETWORK_ID, control |-> control,
               service_id |-> IdOf[services[j].name],
               instance_id |-> services[j].instance_id,
               requestor_instance_id |-> 0 ] \in Addressed(H)
  <2> DEFINE l == <<services[j].name, services[j].instance_id>>
             f == [ from |-> self, to |-> NAN_NETWORK_ID, control |-> control,
                    service_id |-> IdOf[services[j].name],
                    instance_id |-> services[j].instance_id,
                    requestor_instance_id |-> 0 ]
  <2>1. services[j] \in Service
    BY <1>2, ElementOfSeq
  <2>2. l \in AllLabels(d)
    BY <1>2, LabelOf
  <2>3. <<self, IdOf[services[j].name], services[j].instance_id>> \in H
    <3>1. l[1] = services[j].name /\ l[2] = services[j].instance_id
      OBVIOUS
    <3> HIDE DEF l
    <3> QED
      BY <2>2, <3>1 DEF LabelsIn
  <2>4. IdOf[services[j].name] \in ServiceId /\ services[j].instance_id \in Nat
    BY <2>1, ServiceAssumption DEF Service
  <2>5. f \in Descriptor
    BY <2>4 DEF Descriptor
  <2>6. /\ f.from = self /\ f.service_id = IdOf[services[j].name]
        /\ f.instance_id = services[j].instance_id /\ f.control # "FOLLOW_UP"
    OBVIOUS
  <2> HIDE DEF f
  <2>7. f \in Addressed(H)
    BY <2>3, <2>5, <2>6 DEF Addressed
  <2> QED
    BY <2>7 DEF f
<1>5. r \in [1..Len(services) -> Addressed(H)]
  BY <1>3, <1>4 DEF Describe
<1> HIDE DEF r
<1>6. r \in AddressedFrame(H)
  BY <1>3, <1>5, SeqDef DEF AddressedFrame
<1> QED
  BY <1>6 DEF r, services

\* The frames of a window: buffered follow-ups, and announcements of the device's
\* services.
LEMMA WindowAddressed ==
    ASSUME NEW H, NEW self \in Device, NEW d, DeviceInv(d), FramesOK(d, H),
           LabelsIn(d, self, H)
    PROVE  WindowFrames(d, self) \in Seq(AddressedFrame(H))
<1> DEFINE publish == Describe(self, ToAnnounce(d.published), "PUBLISH")
           subscribe == Describe(self, ToAnnounce(d.subscribed), "SUBSCRIBE")
           frame == nan_build_service_discovery_frame(d, self)
<1>1. publish \in Seq(Addressed(H)) /\ subscribe \in Seq(Addressed(H))
  BY DescribedAreAddressed DEF AddressedFrame
<1>2. frame = publish \o subscribe
  BY DEF nan_build_service_discovery_frame
<1> HIDE DEF publish, subscribe, frame
<1>3. frame \in AddressedFrame(H)
  BY <1>1, <1>2, ConcatProperties DEF AddressedFrame
<1>4. <<>> \in Seq(AddressedFrame(H)) /\ <<frame>> \in Seq(AddressedFrame(H))
  BY <1>3
<1>5. d.buffer \in Seq(AddressedFrame(H))
  BY DEF FramesOK
<1>6. WindowFrames(d, self) \in {d.buffer \o <<>>, d.buffer \o <<frame>>}
  BY DEF WindowFrames, frame
<1> QED
  BY <1>4, <1>5, <1>6, ConcatProperties

\* A window empties the buffer.
LEMMA WindowFramesKept ==
    ASSUME NEW H, NEW d, DeviceInv(d), FramesOK(d, H), NEW r, r = AfterWindow(d)
    PROVE  FramesOK(r, H)
<1>1. Shape(d)
  BY DEF DeviceInv, NodeOK
<1> DEFINE published == nan_update_announced_services(d.published)
           subscribed == nan_update_announced_services(d.subscribed)
<1>2. r = [ d EXCEPT !.buffer = <<>>, !.published = published, !.subscribed = subscribed ]
  BY DEF AfterWindow
<1> HIDE DEF published, subscribed
<1>3. r.buffer = <<>> /\ r.todo = d.todo /\ r.event = d.event
  BY <1>1, <1>2 DEF Shape
<1>4. \A S : <<>> \in Seq(S) /\ Len(<<>>) = 0
  OBVIOUS
<1>5. 0 <= BufferSize
  BY ServiceAssumption
<1> QED
  BY <1>3, <1>4, <1>5 DEF FramesOK, ResultAddressed


\* Every frame that a device holds or that waits for it is addressed.
FramesInv(H) ==
    /\ inbox \in [Device -> Seq(AddressedFrame(H))]
    /\ \A n \in Device : FramesOK(node[n], H)

LabelsKnown(H) == \A n \in Device : LabelsIn(node[n], n, H)

ResultsMeant(H) == \A n \in Device : Meant(node[n], H)

\* No frame is there to begin with.
LEMMA InitFrames ==
    ASSUME NEW H, Init
    PROVE  FramesInv(H)
<1>1. \A S : <<>> \in Seq(S) /\ Len(<<>>) = 0
  OBVIOUS
<1>2. inbox \in [Device -> Seq(AddressedFrame(H))]
  BY <1>1 DEF Init
<1>3. ASSUME NEW n \in Device PROVE FramesOK(node[n], H)
  <2>1. node[n].buffer = <<>> /\ node[n].todo = <<>> /\ node[n].event = NoEvent
    BY DEF Init, init_services
  <2>2. 0 <= BufferSize
    BY ServiceAssumption
  <2> QED
    BY <1>1, <2>1, <2>2 DEF FramesOK, ResultAddressed, AddressedFrame
<1> QED
  BY <1>2, <1>3 DEF FramesInv

\* A step of one device that leaves the inboxes alone.
LEMMA FramesOfOne ==
    ASSUME NEW H, IInv, FramesInv(H), NEW n \in Device, NEW d, FramesOK(d, H),
           node' = [ node EXCEPT ![n] = d ], inbox' = inbox
    PROVE  FramesInv(H)'
BY DEF IInv, FramesInv

\* The frames of a window reach the other devices after those that wait there.
LEMMA FramesSent ==
    ASSUME NEW H, FramesInv(H), NEW n \in Device, NEW frames \in Seq(AddressedFrame(H)),
           inbox' = [ m \in Device |-> IF m = n THEN inbox[m] ELSE inbox[m] \o frames ]
    PROVE  inbox' \in [Device -> Seq(AddressedFrame(H))]
<1>1. ASSUME NEW m \in Device
      PROVE  inbox[m] \in Seq(AddressedFrame(H))
             /\ inbox[m] \o frames \in Seq(AddressedFrame(H))
  BY ConcatProperties DEF FramesInv
<1> QED
  BY <1>1

(***************************************************************************)
(* Every step keeps the frames addressed to services that were had: one    *)
(* case per action.                                                        *)
(***************************************************************************)
LEMMA NextFrames ==
    ASSUME NEW H, IInv, FramesInv(H), LabelsKnown(H), ResultsMeant(H), [Next]_vars
    PROVE  FramesInv(H)'
<1>1. CASE UNCHANGED vars
  BY <1>1 DEF vars, FramesInv
<1>2. CASE Next
  <2>1. PICK n \in Device :
            Command(n) \/ DiscoveryWindow(n) \/ Receive(n) \/ Handle(n) \/ Call(n) \/ Lose(n)
    BY <1>2 DEF Next
  <2> DEFINE d == node[n]
  <2>2. /\ DeviceInv(d) /\ FramesOK(d, H) /\ LabelsIn(d, n, H) /\ Meant(d, H)
        /\ inbox[n] \in Seq(AddressedFrame(H))
    BY DEF IInv, FramesInv, LabelsKnown, ResultsMeant
  <2>3. ASSUME NEW name, NEW kind, NEW ttl,
               NEW r, r \in { nan_cmd_publish_service(d, name, kind, ttl),
                              nan_cmd_subscribe_service(d, name, kind, ttl) },
               node' = [ node EXCEPT ![n] = r ], inbox' = inbox
        PROVE  FramesInv(H)'
    <3>1. r.buffer = d.buffer /\ r.todo = d.todo /\ r.event = d.event
      BY <2>2, <2>3, RegisterLists
    <3>2. FramesOK(r, H)
      BY <2>2, <3>1 DEF FramesOK, ResultAddressed
    <3> QED
      BY <2>3, <3>2, FramesOfOne
  <2>4. CASE Command(n)
    <3>1. PICK name \in Name :
              \/ \E offer \in Offers : Publish(n, name, offer)
              \/ \E want \in Wants : Subscribe(n, name, want)
      BY <2>4 DEF Command
    <3>2. ASSUME NEW offer \in Offers, Publish(n, name, offer) PROVE FramesInv(H)'
      BY <2>3, <3>2 DEF Publish
    <3>3. ASSUME NEW want \in Wants, Subscribe(n, name, want) PROVE FramesInv(H)'
      BY <2>3, <3>3 DEF Subscribe
    <3> QED
      BY <3>1, <3>2, <3>3
  <2>5. CASE DiscoveryWindow(n)
    <3> DEFINE r == AfterWindow(d)
               frames == WindowFrames(d, n)
    <3>1. FramesOK(r, H) /\ frames \in Seq(AddressedFrame(H))
      BY <2>2, WindowFramesKept, WindowAddressed
    <3>2. /\ node' = [ node EXCEPT ![n] = r ]
          /\ inbox' = [ m \in Device |->
                          IF m = n THEN inbox[m] ELSE inbox[m] \o frames ]
      BY <2>5 DEF DiscoveryWindow, IInv
    <3> HIDE DEF r, frames
    <3>3. inbox' \in [Device -> Seq(AddressedFrame(H))]
      BY <3>1, <3>2, FramesSent
    <3> QED
      BY <3>1, <3>2, <3>3 DEF IInv, FramesInv
  <2>6. CASE Receive(n)
    <3> DEFINE frame == Head(inbox[n])
               rest == Tail(inbox[n])
               r == [ d EXCEPT !.todo = frame ]
    <3>1. /\ node' = [ node EXCEPT ![n] = r ] /\ inbox[n] # <<>>
          /\ inbox' = [ inbox EXCEPT ![n] = rest ]
      BY <2>6 DEF Receive, IInv, FramesInv
    <3>2. frame \in AddressedFrame(H) /\ rest \in Seq(AddressedFrame(H))
      BY <2>2, <3>1, HeadTailProperties
    <3> HIDE DEF frame, rest
    <3>3. r.buffer = d.buffer /\ r.todo = frame /\ r.event = d.event
      BY <2>2 DEF DeviceInv, NodeOK, Shape
    <3> HIDE DEF r
    <3>4. FramesOK(r, H)
      BY <2>2, <3>2, <3>3 DEF FramesOK, ResultAddressed
    <3> QED
      BY <3>1, <3>2, <3>4 DEF IInv, FramesInv
  <2>7. CASE Handle(n)
    <3> DEFINE r == HandleDescriptor(d, n)
    <3>1. node' = [ node EXCEPT ![n] = r ] /\ inbox' = inbox /\ d.todo # <<>>
      BY <2>7 DEF Handle, IInv
    <3>2. FramesOK(r, H)
      BY <2>2, <3>1, DescriptorFrames
    <3> HIDE DEF r
    <3> QED
      BY <3>1, <3>2, FramesOfOne
  <2>8. CASE Call(n)
    <3> DEFINE r == CallListener(d, n)
    <3>1. node' = [ node EXCEPT ![n] = r ] /\ inbox' = inbox
      BY <2>8 DEF Call, IInv
    <3>2. FramesOK(r, H)
      BY <2>2, CallListenerFrames
    <3> HIDE DEF r
    <3> QED
      BY <3>1, <3>2, FramesOfOne
  <2>9. CASE Lose(n)
    <3> DEFINE rest == Tail(inbox[n])
    <3>1. /\ node' = node /\ inbox[n] # <<>>
          /\ inbox' = [ inbox EXCEPT ![n] = rest ]
      BY <2>9 DEF Lose, FramesInv
    <3>2. rest \in Seq(AddressedFrame(H))
      BY <2>2, <3>1, HeadTailProperties
    <3> HIDE DEF rest
    <3> QED
      BY <3>1, <3>2 DEF FramesInv
  <2> QED
    BY <2>1, <2>4, <2>5, <2>6, <2>7, <2>8, <2>9
<1> QED
  BY <1>1, <1>2

\* A label's parts.
LEMMA LabelType ==
    ASSUME IInv, NEW n \in Device, NEW l \in AllLabels(node[n])
    PROVE  l[1] \in Name /\ l[2] \in Nat /\ IdOf[l[1]] \in ServiceId
<1>1. node[n].published \in Seq(Service) /\ node[n].subscribed \in Seq(Service)
  BY DEF IInv, DeviceInv, NodeOK
<1>2. PICK list \in {node[n].published, node[n].subscribed} : l \in Labels(list)
  BY DEF AllLabels
<1>3. PICK i \in 1..Len(list) : l = <<list[i].name, list[i].instance_id>>
  BY <1>2 DEF Labels
<1>4. list[i] \in Service
  BY <1>1, <1>3, ElementOfSeq
<1> QED
  BY <1>3, <1>4, ServiceAssumption DEF Service

\* Whatever a device has and whatever a result carries is a triple.
LEMMA AllTriples ==
    ASSUME IInv, FramesInv(Triple)
    PROVE  LabelsKnown(Triple) /\ ResultsMeant(Triple)
<1>1. \A n \in Device : \A l \in AllLabels(node[n]) :
          l[1] \in Name /\ l[2] \in Nat /\ IdOf[l[1]] \in ServiceId
  BY LabelType
<1>2. LabelsKnown(Triple)
  BY <1>1 DEF LabelsKnown, LabelsIn, Triple
<1>3. ResultsMeant(Triple)
  <2> SUFFICES ASSUME NEW n \in Device, node[n].event # NoEvent,
                      NEW l \in AllLabels(node[n])
               PROVE  <<node[n].event.address, IdOf[l[1]], node[n].event.peer_instance_id>>
                         \in Triple
    BY DEF ResultsMeant, Meant
  <2>1. node[n].event.address \in Device /\ node[n].event.peer_instance_id \in Nat
    BY DEF FramesInv, FramesOK, Event
  <2> QED
    BY <1>1, <2>1 DEF Triple
<1> QED
  BY <1>2, <1>3

(***************************************************************************)
(* Services, listeners, buffered and waiting frames and the dispatch keep  *)
(* their types, whatever is registered, received or lost; the buffer never *)
(* holds more than it has room for.                                        *)
(***************************************************************************)
THEOREM DiscoveryTypeCorrectness == Spec => []TypeOK
<1>1. Init => FramesInv(Triple)
  BY InitFrames
<1>2. IInv /\ FramesInv(Triple) /\ [Next]_vars => FramesInv(Triple)'
  BY AllTriples, NextFrames
<1>3. IInv /\ FramesInv(Triple) => TypeOK
  <2> SUFFICES ASSUME IInv, FramesInv(Triple) PROVE TypeOK
    OBVIOUS
  <2>1. AddressedFrame(Triple) \subseteq Frame
    <3>1. Addressed(Triple) \subseteq Descriptor
      BY DEF Addressed
    <3> QED
      BY <3>1, SeqMonotone DEF AddressedFrame, Frame
  <2>2. Seq(AddressedFrame(Triple)) \subseteq Seq(Frame)
    BY <2>1, SeqMonotone
  <2>3. ASSUME NEW n \in Device
        PROVE  LET d == node[n] IN
               /\ d.published \in Seq(Service) /\ d.subscribed \in Seq(Service)
               /\ d.last_instance_id \in 0..(IdMod - 1)
               /\ d.listeners \in Seq(Listener)
               /\ d.buffer \in Seq(Frame) /\ Len(d.buffer) <= BufferSize
               /\ d.todo \in Frame
               /\ d.event \in Event \cup {NoEvent}
               /\ d.next \in Freed .. Len(d.listeners)
    <3>1. DeviceInv(node[n]) /\ FramesOK(node[n], Triple)
      BY DEF IInv, FramesInv
    <3>2. Len(node[n].listeners) \in Nat
      BY <3>1, LenProperties DEF DeviceInv, NodeOK
    <3>3. node[n].next \in Freed .. Len(node[n].listeners)
      BY <3>1, <3>2 DEF DeviceInv, NodeOK, Freed
    <3> QED
      BY <2>1, <2>2, <3>1, <3>3 DEF DeviceInv, NodeOK, FramesOK
  <2>4. DOMAIN node = Device
    BY DEF IInv
  <2>5. inbox \in [Device -> Seq(Frame)]
    BY <2>2 DEF FramesInv
  <2> QED
    BY <2>3, <2>4, <2>5 DEF TypeOK
<1> QED
  BY InitIInv, NextIInv, <1>1, <1>2, <1>3, PTL DEF Spec


\* The services that devices have had, as the history remembers them
Known == { t \in Triple : Had(t[1], t[2], t[3]) }

(***************************************************************************)
(* Every service a device has is one that it had.                          *)
(***************************************************************************)
HadInv ==
    /\ created \in [Device -> Seq(History)]
    /\ LabelsKnown(Known)

\* To be known is to be in a device's history.
LEMMA KnownIffHad ==
    ASSUME NEW n \in Device, NEW id \in ServiceId, NEW i \in Nat
    PROVE  <<n, id, i>> \in Known <=> Had(n, id, i)
<1> DEFINE t == <<n, id, i>>
<1>1. t \in Triple /\ t[1] = n /\ t[2] = id /\ t[3] = i
  BY DEF Triple
<1> HIDE DEF t
<1>2. t \in Known <=> Had(n, id, i)
  BY <1>1 DEF Known
<1> QED
  BY <1>2 DEF t

\* A history that keeps its entries' ids, and may grow, knows all it knew.
LEMMA KnownKept ==
    ASSUME created \in [Device -> Seq(History)], created' \in [Device -> Seq(History)],
           \A n \in Device : \A k \in 1..Len(created[n]) :
              /\ k \in 1..Len(created'[n])
              /\ created'[n][k].service_id = created[n][k].service_id
              /\ created'[n][k].instance_id = created[n][k].instance_id
    PROVE  Known \subseteq Known'
<1> SUFFICES ASSUME NEW t \in Triple, Had(t[1], t[2], t[3])
             PROVE  Had(t[1], t[2], t[3])'
  BY DEF Known
<1> DEFINE n == t[1]
<1>1. n \in Device
  BY DEF Triple
<1>2. /\ DOMAIN created[n] = 1..Len(created[n])
      /\ DOMAIN created'[n] = 1..Len(created'[n])
  BY <1>1, LenProperties
<1>3. PICK k \in 1..Len(created[n]) :
          created[n][k].service_id = t[2] /\ created[n][k].instance_id = t[3]
  BY <1>2 DEF Had
<1>4. /\ k \in DOMAIN created'[n]
      /\ created'[n][k].service_id = t[2] /\ created'[n][k].instance_id = t[3]
  BY <1>1, <1>2, <1>3
<1> QED
  BY <1>4 DEF Had

\* No action but a command gives a device a service.
LEMMA StepLabels ==
    ASSUME IInv, NEW n \in Device,
           DiscoveryWindow(n) \/ Receive(n) \/ Handle(n) \/ Call(n) \/ Lose(n)
    PROVE  \A m \in Device : AllLabels(node'[m]) \subseteq AllLabels(node[m])
<1> DEFINE d == node[n]
<1>1. DeviceInv(d) /\ d.published \in Seq(Service) /\ d.subscribed \in Seq(Service)
  BY DEF IInv, DeviceInv, NodeOK
<1>2. ASSUME NEW r, node' = [ node EXCEPT ![n] = r ], AllLabels(r) \subseteq AllLabels(d)
      PROVE  \A m \in Device : AllLabels(node'[m]) \subseteq AllLabels(node[m])
  BY <1>2 DEF IInv
<1>3. CASE DiscoveryWindow(n)
  <2> DEFINE r == AfterWindow(d)
             published == nan_update_announced_services(d.published)
             subscribed == nan_update_announced_services(d.subscribed)
  <2>1. node' = [ node EXCEPT ![n] = r ]
    BY <1>3 DEF DiscoveryWindow, IInv
  <2>2. Labels(published) = Labels(d.published) /\ Labels(subscribed) = Labels(d.subscribed)
    BY <1>1, LabelsAnnounced
  <2>3. r.published = published /\ r.subscribed = subscribed
    <3>1. Shape(d)
      BY <1>1 DEF DeviceInv, NodeOK
    <3>2. r = [ d EXCEPT !.buffer = <<>>, !.published = published,
                         !.subscribed = subscribed ]
      BY DEF AfterWindow
    <3> HIDE DEF published, subscribed, r
    <3> QED
      BY <3>1, <3>2 DEF Shape
  <2>4. AllLabels(r) = AllLabels(d)
    BY <2>2, <2>3 DEF AllLabels
  <2> HIDE DEF r
  <2> QED
    BY <1>2, <2>1, <2>4
<1>4. CASE Receive(n)
  <2> DEFINE frame == Head(inbox[n])
             r == [ d EXCEPT !.todo = frame ]
  <2>1. node' = [ node EXCEPT ![n] = r ]
    BY <1>4 DEF Receive, IInv
  <2> HIDE DEF frame
  <2>2. r.published = d.published /\ r.subscribed = d.subscribed
    BY <1>1 DEF DeviceInv, NodeOK, Shape
  <2> HIDE DEF r
  <2>3. AllLabels(r) = AllLabels(d)
    BY <2>2 DEF AllLabels
  <2> QED
    BY <1>2, <2>1, <2>3
<1>5. CASE Handle(n)
  <2> DEFINE r == HandleDescriptor(d, n)
  <2>1. node' = [ node EXCEPT ![n] = r ]
    BY <1>5 DEF Handle, IInv
  <2>2. r.subscribed = d.subscribed /\ SameServices(r.published, d.published)
    BY <1>1, DescriptorLists
  <2> HIDE DEF r
  <2>3. Labels(r.published) = Labels(d.published)
    BY <2>2, SameLabels DEF SameServices
  <2>4. AllLabels(r) = AllLabels(d)
    BY <2>2, <2>3 DEF AllLabels
  <2> QED
    BY <1>2, <2>1, <2>4
<1>6. CASE Call(n)
  <2> DEFINE r == CallListener(d, n)
             i == d.event.instance_id
  <2>1. node' = [ node EXCEPT ![n] = r ]
    BY <1>6 DEF Call, IInv
  <2>2. /\ r.published \in {d.published, Cancel(d.published, i)}
        /\ r.subscribed \in {d.subscribed, Cancel(d.subscribed, i)}
    BY <1>1, CallListenerLists
  <2> HIDE DEF r
  <2>3. /\ Labels(r.published) \subseteq Labels(d.published)
        /\ Labels(r.subscribed) \subseteq Labels(d.subscribed)
    BY <1>1, <2>2, LabelsCancel
  <2>4. AllLabels(r) \subseteq AllLabels(d)
    BY <2>3 DEF AllLabels
  <2> QED
    BY <1>2, <2>1, <2>4
<1>7. CASE Lose(n)
  BY <1>7 DEF Lose
<1> QED
  BY <1>3, <1>4, <1>5, <1>6, <1>7

\* Counting announcements leaves the ids of the history's entries.
LEMMA CountKeepsIds ==
    ASSUME NEW history \in Seq(History), NEW services, NEW k \in 1..Len(history)
    PROVE  /\ Count(history, services)[k].service_id = history[k].service_id
           /\ Count(history, services)[k].instance_id = history[k].instance_id
           /\ Count(history, services)[k].allowed = history[k].allowed
<1>1. DOMAIN history = 1..Len(history) /\ history[k] \in History
  BY LenProperties, ElementOfSeq
<1> DEFINE counted == [ history[k] EXCEPT !.announced = @ + 1 ]
<1>2. Count(history, services)[k] \in {counted, history[k]}
  BY <1>1 DEF Count
<1>3. /\ counted.service_id = history[k].service_id
      /\ counted.instance_id = history[k].instance_id
      /\ counted.allowed = history[k].allowed
  BY <1>1 DEF History
<1> HIDE DEF counted
<1> QED
  BY <1>2, <1>3

\* Every action but a command leaves the ids of the history as they are.
LEMMA StepHistory ==
    ASSUME IInv, created \in [Device -> Seq(History)], NEW n \in Device,
           DiscoveryWindow(n) \/ Receive(n) \/ Handle(n) \/ Call(n) \/ Lose(n)
    PROVE  created' \in [Device -> Seq(History)] /\ Known \subseteq Known'
<1>1. CASE created' = created
  BY <1>1, KnownKept
<1>2. CASE DiscoveryWindow(n)
  <2> DEFINE services == nan_get_services_to_announce(node[n])
             history == Count(created[n], services)
  <2>1. created' = [ created EXCEPT ![n] = history ]
    BY <1>2 DEF DiscoveryWindow
  <2>2. history \in Seq(History) /\ Len(history) = Len(created[n])
    BY CountKeepsLength
  <2>3. \A k \in 1..Len(created[n]) :
            /\ history[k].service_id = created[n][k].service_id
            /\ history[k].instance_id = created[n][k].instance_id
    BY CountKeepsIds
  <2> HIDE DEF history
  <2>4. created' \in [Device -> Seq(History)]
    BY <2>1, <2>2
  <2>5. \A m \in Device : \A k \in 1..Len(created[m]) :
            /\ k \in 1..Len(created'[m])
            /\ created'[m][k].service_id = created[m][k].service_id
            /\ created'[m][k].instance_id = created[m][k].instance_id
    BY <2>1, <2>2, <2>3
  <2> QED
    BY <2>4, <2>5, KnownKept
<1> QED
  BY <1>1, <1>2 DEF Receive, Handle, Call, Lose

\* A command records in the history the service it creates.
LEMMA RegisterHad ==
    ASSUME IInv, HadInv, NEW n \in Device, NEW name \in Name, NEW kind \in Kind,
           NEW ttl \in Int,
           NEW r, r \in { nan_cmd_publish_service(node[n], name, kind, ttl),
                          nan_cmd_subscribe_service(node[n], name, kind, ttl) },
           node' = [ node EXCEPT ![n] = r ],
           created' = [ created EXCEPT ![n] =
                          Append(@, Create(nan_service_new(node[n], name, kind, ttl))) ]
    PROVE  HadInv' /\ Known \subseteq Known'
<1> DEFINE d == node[n]
           service == nan_service_new(d, name, kind, ttl)
           entry == Create(service)
           history == Append(created[n], entry)
<1>1. DeviceInv(d) /\ d.published \in Seq(Service) /\ d.subscribed \in Seq(Service)
  BY DEF IInv, DeviceInv, NodeOK
<1>2. increase_non_zero_id(d.last_instance_id) \in 1..(IdMod - 1)
  BY <1>1, ServiceAssumption DEF increase_non_zero_id, DeviceInv, NodeOK
<1>3. service \in Service /\ service.name = name
  BY <1>2 DEF nan_service_new, Service
<1>4. service = nan_service_new(d, name, kind, ttl)
  OBVIOUS
<1>5. IdOf[name] \in ServiceId /\ service.time_to_live \in Int /\ service.instance_id \in Nat
  BY <1>3, ServiceAssumption DEF Service
<1> HIDE DEF service
<1>6. /\ \/ r.published = d.published /\ r.subscribed = d.subscribed
         \/ Longer(r.published, d.published, service) /\ r.subscribed = d.subscribed
         \/ r.published = d.published /\ Longer(r.subscribed, d.subscribed, service)
  <2>1. DeviceInv(d) /\ r \in { nan_cmd_publish_service(d, name, kind, ttl),
                                nan_cmd_subscribe_service(d, name, kind, ttl) }
    BY <1>1
  <2> HIDE DEF d
  <2> QED
    BY <1>4, <2>1, RegisterLists
<1>7. AllLabels(r) \subseteq AllLabels(d) \cup {<<name, service.instance_id>>}
  <2>1. ASSUME NEW list, NEW before \in Seq(Service), Longer(list, before, service)
        PROVE  Labels(list) = Labels(before) \cup {<<name, service.instance_id>>}
    BY <1>3, <2>1, LabelsAppend DEF Longer
  <2> QED
    BY <1>1, <1>6, <2>1 DEF AllLabels
<1>8. /\ entry \in History /\ entry.service_id = IdOf[name]
      /\ entry.instance_id = service.instance_id
  BY <1>3, <1>5 DEF Create, History
<1>9. created \in [Device -> Seq(History)] /\ created' = [ created EXCEPT ![n] = history ]
  BY DEF HadInv, service
<1> HIDE DEF entry
<1>10. /\ history \in Seq(History) /\ Len(history) = Len(created[n]) + 1
       /\ Len(created[n]) \in Nat
       /\ \A k \in 1..Len(created[n]) : history[k] = created[n][k]
       /\ history[Len(created[n]) + 1] = entry
  BY <1>8, <1>9, AppendProperties, LenProperties
<1> HIDE DEF history
<1>11. created' \in [Device -> Seq(History)] /\ created'[n] = history
  BY <1>9, <1>10
<1>12. \A m \in Device : \A k \in 1..Len(created[m]) :
            /\ k \in 1..Len(created'[m])
            /\ created'[m][k].service_id = created[m][k].service_id
            /\ created'[m][k].instance_id = created[m][k].instance_id
  BY <1>9, <1>10
<1>13. Known \subseteq Known'
  BY <1>9, <1>11, <1>12, KnownKept
<1>14. PICK i \in Nat : i = service.instance_id
  BY <1>5
<1>15. <<n, IdOf[name], i>> \in Known'
  <2>1. DOMAIN created'[n] = 1..Len(created'[n])
    BY <1>11, LenProperties
  <2>2. Len(created[n]) + 1 \in DOMAIN created'[n]
    BY <1>10, <1>11, <2>1
  <2>3. \E k \in DOMAIN created'[n] :
            created'[n][k].service_id = IdOf[name] /\ created'[n][k].instance_id = i
    BY <1>8, <1>10, <1>11, <1>14, <2>2
  <2>4. PICK t : t = <<n, IdOf[name], i>>
    OBVIOUS
  <2>5. t \in Triple /\ t[1] = n /\ t[2] = IdOf[name] /\ t[3] = i
    BY <1>5, <2>4 DEF Triple
  <2>6. Had(t[1], t[2], t[3])'
    BY <2>3, <2>5 DEF Had
  <2> QED
    BY <2>4, <2>5, <2>6 DEF Known
<1>16. ASSUME NEW m \in Device, NEW l \in AllLabels(node'[m])
       PROVE  <<m, IdOf[l[1]], l[2]>> \in Known'
  <2>1. CASE l \in AllLabels(node[m])
    BY <1>13, <2>1 DEF HadInv, LabelsKnown, LabelsIn
  <2>2. CASE l \notin AllLabels(node[m])
    <3>1. m = n /\ l = <<name, service.instance_id>>
      BY <1>7, <1>16, <2>2 DEF IInv
    <3>2. l[1] = name /\ l[2] = i
      BY <1>14, <3>1
    <3> QED
      BY <1>15, <3>1, <3>2
  <2> QED
    BY <2>1, <2>2
<1>17. LabelsKnown(Known)'
  BY <1>16 DEF LabelsKnown, LabelsIn
<1> QED
  BY <1>11, <1>13, <1>17 DEF HadInv

\* A device starts without services.
LEMMA InitHadInv == Init => HadInv
<1> SUFFICES ASSUME Init PROVE HadInv
  OBVIOUS
<1>1. created \in [Device -> Seq(History)]
  BY DEF Init
<1>2. \A n \in Device : AllLabels(node[n]) = {}
  BY DEF Init, init_services, AllLabels, Labels
<1> QED
  BY <1>1, <1>2 DEF HadInv, LabelsKnown, LabelsIn

(***************************************************************************)
(* What a device has it had, after every step, and nothing that was had is *)
(* forgotten.                                                              *)
(***************************************************************************)
LEMMA NextHadInv ==
    ASSUME IInv, HadInv, [Next]_vars
    PROVE  HadInv' /\ Known \subseteq Known'
<1>1. CASE UNCHANGED vars
  <2>1. Known' = Known /\ created' = created /\ node' = node
    BY <1>1 DEF vars, Known, Had
  <2> QED
    BY <2>1 DEF HadInv, LabelsKnown
<1>2. CASE Next
  <2>1. PICK n \in Device :
            Command(n) \/ DiscoveryWindow(n) \/ Receive(n) \/ Handle(n) \/ Call(n) \/ Lose(n)
    BY <1>2 DEF Next
  <2>2. CASE Command(n)
    <3>1. PICK name \in Name :
              \/ \E offer \in Offers : Publish(n, name, offer)
              \/ \E want \in Wants : Subscribe(n, name, want)
      BY <2>2 DEF Command
    <3>2. ASSUME NEW offer \in Offers, Publish(n, name, offer)
          PROVE  HadInv' /\ Known \subseteq Known'
      <4>1. offer[1] \in Kind /\ offer[2] \in Int
        BY DiscoveryAssumption DEF Kind
      <4> QED
        BY <3>2, <4>1, RegisterHad DEF Publish
    <3>3. ASSUME NEW want \in Wants, Subscribe(n, name, want)
          PROVE  HadInv' /\ Known \subseteq Known'
      <4>1. want[1] \in Kind /\ want[2] \in Int
        BY DiscoveryAssumption DEF Kind
      <4> QED
        BY <3>3, <4>1, RegisterHad DEF Subscribe
    <3> QED
      BY <3>1, <3>2, <3>3
  <2>3. CASE DiscoveryWindow(n) \/ Receive(n) \/ Handle(n) \/ Call(n) \/ Lose(n)
    <3>1. \A m \in Device : AllLabels(node'[m]) \subseteq AllLabels(node[m])
      BY <2>3, StepLabels
    <3>2. created' \in [Device -> Seq(History)] /\ Known \subseteq Known'
      BY <2>3, StepHistory DEF HadInv
    <3>3. LabelsKnown(Known)'
      BY <3>1, <3>2 DEF HadInv, LabelsKnown, LabelsIn
    <3> QED
      BY <3>2, <3>3 DEF HadInv
  <2> QED
    BY <2>1, <2>2, <2>3
<1> QED
  BY <1>1, <1>2

\* Frames that are addressed to services that were had stay so as more are had.
LEMMA FramesMonotone ==
    ASSUME NEW H, NEW G, H \subseteq G
    PROVE  /\ Seq(AddressedFrame(H)) \subseteq Seq(AddressedFrame(G))
           /\ \A d : FramesOK(d, H) => FramesOK(d, G)
<1>1. Addressed(H) \subseteq Addressed(G)
  BY DEF Addressed
<1>2. AddressedFrame(H) \subseteq AddressedFrame(G)
  BY <1>1, SeqMonotone DEF AddressedFrame
<1>3. Seq(AddressedFrame(H)) \subseteq Seq(AddressedFrame(G))
  BY <1>2, SeqMonotone
<1> QED
  BY <1>2, <1>3 DEF FramesOK, ResultAddressed

\* The frames' invariant, for the services known before and after a step.
LEMMA NextAddressed ==
    ASSUME IInv, LInv, HadInv, FramesInv(Known), [Next]_vars
    PROVE  FramesInv(Known)'
<1>1. PICK H : H = Known
  OBVIOUS
<1>2. PICK G : G = Known'
  OBVIOUS
<1>3. FramesInv(H) /\ LabelsKnown(H)
  BY <1>1 DEF HadInv, FramesInv, LabelsKnown
<1>4. ResultsMeant(H)
  <2> SUFFICES ASSUME NEW n \in Device, node[n].event # NoEvent,
                      node[n].event.event = "DISCOVERY_RESULT",
                      NEW l \in AllLabels(node[n]), l[2] = node[n].event.instance_id
               PROVE  <<node[n].event.address, IdOf[l[1]], node[n].event.peer_instance_id>>
                         \in H
    BY DEF ResultsMeant, Meant
  <2>1. l[1] = node[n].event.service_name
    BY DEF LInv, LabelInv
  <2> QED
    BY <1>3, <2>1 DEF FramesInv, FramesOK, ResultAddressed
<1>5. FramesInv(H)'
  BY <1>3, <1>4, NextFrames
<1>6. H \subseteq G
  BY <1>1, <1>2, NextHadInv
<1>7. FramesInv(G)'
  BY <1>5, <1>6, FramesMonotone DEF FramesInv
<1> QED
  BY <1>2, <1>7 DEF FramesInv

\* The follow-ups among addressed frames are addressed.
LEMMA FollowUpsHad ==
    ASSUME NEW frames \in Seq(AddressedFrame(Known)), NEW f \in FollowUpsIn(frames)
    PROVE  /\ Had(f.from, f.service_id, f.instance_id)
           /\ Had(f.to, f.service_id, f.requestor_instance_id)
<1>1. PICK i \in DOMAIN frames : f \in ToSet(frames[i])
  BY DEF FollowUpsIn
<1>2. f.control = "FOLLOW_UP"
  BY DEF FollowUpsIn
<1>3. frames[i] \in Seq(Addressed(Known))
  BY <1>1, LenProperties, ElementOfSeq DEF AddressedFrame
<1>4. PICK j \in DOMAIN frames[i] : f = frames[i][j]
  BY <1>1 DEF ToSet
<1>5. f \in Addressed(Known)
  BY <1>3, <1>4, LenProperties, ElementOfSeq
<1> DEFINE a == <<f.from, f.service_id, f.instance_id>>
           b == <<f.to, f.service_id, f.requestor_instance_id>>
<1>6. a \in Known /\ b \in Known
  BY <1>2, <1>5 DEF Addressed
<1>7. /\ a[1] = f.from /\ a[2] = f.service_id /\ a[3] = f.instance_id
      /\ b[1] = f.to /\ b[2] = f.service_id /\ b[3] = f.requestor_instance_id
  OBVIOUS
<1> HIDE DEF a, b
<1> QED
  BY <1>6, <1>7 DEF Known

(***************************************************************************)
(* A follow-up carries the ids of a service its sender had and of one its  *)
(* receiver had, of the one service id, in the buffer and on the air.  A   *)
(* device must not run out of instance ids: one that is given twice could  *)
(* make a result find a subscription of another name.                      *)
(***************************************************************************)
THEOREM FollowUpsAddressed ==
    ASSUME MaxServices < IdMod
    PROVE  Spec => []FollowUpsAreAddressed
<1>1. Init => FramesInv(Known)
  <2> SUFFICES ASSUME Init PROVE FramesInv(Known)
    OBVIOUS
  <2>1. PICK H : H = Known
    OBVIOUS
  <2>2. FramesInv(H)
    BY InitFrames
  <2> QED
    BY <2>1, <2>2 DEF FramesInv
<1>2. IInv /\ LInv /\ [Next]_vars => LInv'
  BY NextLInv
<1>3. IInv /\ HadInv /\ [Next]_vars => HadInv'
  BY NextHadInv
<1>4. IInv /\ LInv /\ HadInv /\ FramesInv(Known) /\ [Next]_vars => FramesInv(Known)'
  BY NextAddressed
<1>5. FramesInv(Known) => FollowUpsAreAddressed
  <2> SUFFICES ASSUME FramesInv(Known), NEW n \in Device,
                      NEW f \in FollowUpsIn(node[n].buffer) \cup FollowUpsIn(inbox[n])
               PROVE  /\ Had(f.from, f.service_id, f.instance_id)
                      /\ Had(f.to, f.service_id, f.requestor_instance_id)
    BY DEF FollowUpsAreAddressed
  <2>1. /\ node[n].buffer \in Seq(AddressedFrame(Known))
        /\ inbox[n] \in Seq(AddressedFrame(Known))
    BY DEF FramesInv, FramesOK
  <2> QED
    BY <2>1, FollowUpsHad
<1> QED
  BY InitIInv, NextIInv, InitLInv, <1>1, <1>2, InitHadInv, <1>3, <1>4, <1>5, PTL DEF Spec


----------------------------------------------------------------------------
(* How often a service is announced. *)

\* No two services of a list, and none of two lists, have an instance id in common.
Unique(list) ==
    \A i, j \in 1..Len(list) : list[i].instance_id = list[j].instance_id => i = j

Apart(a, b) ==
    \A i \in 1..Len(a), j \in 1..Len(b) : a[i].instance_id # b[j].instance_id

\* What is left of a limited time to live is what was allowed and not yet announced.
Left(list, history) ==
    \A i \in 1..Len(list) :
        LET k == list[i].instance_id IN
        /\ k \in 1..Len(history)
        /\ history[k].allowed >= 0 =>
              list[i].time_to_live = history[k].allowed - history[k].announced

\* Instance ids are given in the order of the history.
Numbered(history) ==
    \A k \in 1..Len(history) :
        /\ history[k].instance_id = k
        /\ history[k].allowed >= 0 => history[k].announced <= history[k].allowed

(***************************************************************************)
(* A device and the services it has had: as instance ids are unique, an    *)
(* announcement that is counted is one of the service that has the id.     *)
(***************************************************************************)
AllowedInv(d, history) ==
    /\ Numbered(history)
    /\ Unique(d.published) /\ Unique(d.subscribed)
    /\ Apart(d.published, d.subscribed)
    /\ Left(d.published, history) /\ Left(d.subscribed, history)

\* The entries of a are entries of b, each at a place of its own.
SubList(a, b) ==
    \E place :
        /\ \A i \in 1..Len(a) : place[i] \in 1..Len(b) /\ a[i] = b[place[i]]
        /\ \A i, j \in 1..Len(a) : place[i] = place[j] => i = j

\* A list is a part of itself.
LEMMA SubListItself == ASSUME NEW list PROVE SubList(list, list)
<1> DEFINE place == [ i \in 1..Len(list) |-> i ]
<1>1. \A i \in 1..Len(list) : place[i] = i
  OBVIOUS
<1> HIDE DEF place
<1> QED
  BY <1>1 DEF SubList

\* LIST_REMOVE keeps the other entries, each at its place or one before.
LEMMA SubListCancel ==
    ASSUME NEW list \in Seq(Service), NEW i
    PROVE  SubList(Cancel(list, i), list)
<1> DEFINE k == FindInstance(list, i)
<1>1. CASE k = 0
  BY <1>1, SubListItself DEF Cancel
<1>2. CASE k # 0
  <2> DEFINE left  == SubSeq(list, 1, k - 1)
             right == SubSeq(list, k + 1, Len(list))
             rest  == left \o right
             place == [ j \in 1..(Len(list) - 1) |-> IF j < k THEN j ELSE j + 1 ]
  <2>1. k \in 1..Len(list) /\ Len(list) \in Nat
    BY <1>2, InstanceFound, LenProperties
  <2>2. Cancel(list, i) = rest
    BY <1>2 DEF Cancel, RemoveAt
  <2> HIDE DEF k
  <2>3. /\ left \in Seq(Service) /\ Len(left) = k - 1
        /\ \A j \in 1..k - 1 : left[j] = list[j]
    BY <2>1, SubSeqProperties
  <2>4. /\ right \in Seq(Service) /\ Len(right) = Len(list) - k
        /\ \A j \in 1..Len(list) - k : right[j] = list[k + j]
    BY <2>1, SubSeqProperties
  <2> HIDE DEF left, right
  <2>5. /\ Len(rest) = Len(left) + Len(right)
        /\ \A j \in 1..Len(left) + Len(right) :
              rest[j] = IF j <= Len(left) THEN left[j] ELSE right[j - Len(left)]
    BY <2>3, <2>4, ConcatProperties
  <2> HIDE DEF rest
  <2>6. Len(rest) = Len(list) - 1
    BY <2>1, <2>3, <2>4, <2>5
  <2>7. \A j \in 1..(Len(list) - 1) : place[j] = IF j < k THEN j ELSE j + 1
    OBVIOUS
  <2> HIDE DEF place
  <2>8. ASSUME NEW j \in 1..Len(rest)
        PROVE  place[j] \in 1..Len(list) /\ rest[j] = list[place[j]]
    <3>1. CASE j < k
      <4>1. j \in 1..(Len(list) - 1) /\ j \in 1..(k - 1) /\ j <= Len(left)
        BY <2>1, <2>3, <2>6, <3>1
      <4>2. j \in 1..(Len(left) + Len(right))
        BY <2>1, <2>3, <2>4, <4>1
      <4>3. rest[j] = list[j]
        BY <2>3, <2>5, <4>1, <4>2
      <4>4. place[j] = j
        BY <2>7, <3>1, <4>1
      <4> QED
        BY <2>1, <4>1, <4>3, <4>4
    <3>2. CASE ~ (j < k)
      <4>1. /\ j - Len(left) \in 1..(Len(list) - k) /\ k + (j - Len(left)) = j + 1
            /\ ~ (j <= Len(left))
        BY <2>1, <2>3, <2>6, <3>2
      <4>2. rest[j] = list[j + 1]
        BY <2>1, <2>3, <2>4, <2>5, <2>6, <4>1
      <4> QED
        BY <2>1, <2>6, <2>7, <3>2, <4>2
    <3> QED
      BY <3>1, <3>2
  <2>9. \A j, l \in 1..Len(rest) : place[j] = place[l] => j = l
    BY <2>1, <2>6, <2>7
  <2>10. SubList(rest, list)
    BY <2>8, <2>9 DEF SubList
  <2> QED
    BY <2>2, <2>10
<1> QED
  BY <1>1, <1>2

\* Parts of two lists that have no id in common.
LEMMA SubListsApart ==
    ASSUME NEW a, NEW b, NEW c, NEW d, SubList(a, c), SubList(b, d), Apart(c, d)
    PROVE  Apart(a, b)
<1>1. PICK f : \A i \in 1..Len(a) : f[i] \in 1..Len(c) /\ a[i] = c[f[i]]
  BY DEF SubList
<1>2. PICK g : \A i \in 1..Len(b) : g[i] \in 1..Len(d) /\ b[i] = d[g[i]]
  BY DEF SubList
<1> SUFFICES ASSUME NEW i \in 1..Len(a), NEW j \in 1..Len(b),
                    a[i].instance_id = b[j].instance_id
             PROVE  FALSE
  BY DEF Apart
<1>3. /\ f[i] \in 1..Len(c) /\ g[j] \in 1..Len(d)
      /\ c[f[i]].instance_id = d[g[j]].instance_id
  BY <1>1, <1>2
<1> QED
  BY <1>3 DEF Apart

\* A part of a list has unique ids if the list has.
LEMMA SubListUnique ==
    ASSUME NEW a, NEW b, SubList(a, b), Unique(b)
    PROVE  Unique(a)
<1>1. PICK place :
        /\ \A i \in 1..Len(a) : place[i] \in 1..Len(b) /\ a[i] = b[place[i]]
        /\ \A i, j \in 1..Len(a) : place[i] = place[j] => i = j
  BY DEF SubList
<1> SUFFICES ASSUME NEW i \in 1..Len(a), NEW j \in 1..Len(a),
                    a[i].instance_id = a[j].instance_id
             PROVE  i = j
  BY DEF Unique
<1>2. /\ place[i] \in 1..Len(b) /\ place[j] \in 1..Len(b)
      /\ b[place[i]].instance_id = b[place[j]].instance_id
  BY <1>1
<1>3. place[i] = place[j]
  BY <1>2 DEF Unique
<1> QED
  BY <1>1, <1>3

\* A part of a list agrees with the history if the list does.
LEMMA SubListLeft ==
    ASSUME NEW a, NEW b, SubList(a, b), NEW history, Left(b, history)
    PROVE  Left(a, history)
<1>1. PICK place : \A i \in 1..Len(a) : place[i] \in 1..Len(b) /\ a[i] = b[place[i]]
  BY DEF SubList
<1> SUFFICES ASSUME NEW i \in 1..Len(a)
             PROVE  LET k == a[i].instance_id IN
                    /\ k \in 1..Len(history)
                    /\ history[k].allowed >= 0 =>
                          a[i].time_to_live = history[k].allowed - history[k].announced
  BY DEF Left
<1>2. place[i] \in 1..Len(b) /\ a[i] = b[place[i]]
  BY <1>1
<1> QED
  BY <1>2 DEF Left

\* A device that only loses services.
LEMMA FewerAllowed ==
    ASSUME NEW d, NEW history, AllowedInv(d, history), NEW r,
           SubList(r.published, d.published), SubList(r.subscribed, d.subscribed)
    PROVE  AllowedInv(r, history)
BY SubListsApart, SubListUnique, SubListLeft DEF AllowedInv

\* A device whose services only change in do_publish.
LEMMA SameAllowed ==
    ASSUME NEW d, NEW history, AllowedInv(d, history), NEW r,
           SameServices(r.published, d.published), r.subscribed = d.subscribed
    PROVE  AllowedInv(r, history)
<1>1. /\ Len(r.published) = Len(d.published)
      /\ \A i \in 1..Len(d.published) :
            /\ r.published[i].instance_id = d.published[i].instance_id
            /\ r.published[i].time_to_live = d.published[i].time_to_live
  BY DEF SameServices
<1>2. Unique(r.published)
  BY <1>1 DEF AllowedInv, Unique
<1>3. Apart(r.published, r.subscribed)
  BY <1>1 DEF AllowedInv, Apart
<1>4. Left(r.published, history)
  BY <1>1 DEF AllowedInv, Left
<1> QED
  BY <1>2, <1>3, <1>4 DEF AllowedInv

\* Some service that is announced has the instance id.
AnnouncedId(d, k) ==
    \E list \in {d.published, d.subscribed} : \E i \in 1..Len(list) :
        list[i].instance_id = k /\ nan_should_announce_service(list[i])

\* The services that nan_get_services_to_announce returns, by their ids.
LEMMA AnnouncedIds ==
    ASSUME NEW d, DeviceInv(d), NEW k
    PROVE  LET services == nan_get_services_to_announce(d) IN
           AnnouncedId(d, k) <=> \E j \in DOMAIN services : services[j].instance_id = k
<1> DEFINE a == ToAnnounce(d.published)
           b == ToAnnounce(d.subscribed)
           both == a \o b
<1>1. d.published \in Seq(Service) /\ d.subscribed \in Seq(Service)
  BY DEF DeviceInv, NodeOK
<1>2. /\ a \in Seq(Service)
      /\ \A s : (\E j \in 1..Len(a) : a[j] = s)
                   <=> \E i \in 1..Len(d.published) :
                          d.published[i] = s /\ nan_should_announce_service(s)
  BY <1>1, AnnouncedAreFound
<1>3. /\ b \in Seq(Service)
      /\ \A s : (\E j \in 1..Len(b) : b[j] = s)
                   <=> \E i \in 1..Len(d.subscribed) :
                          d.subscribed[i] = s /\ nan_should_announce_service(s)
  BY <1>1, AnnouncedAreFound
<1>4. nan_get_services_to_announce(d) = both
  BY DEF nan_get_services_to_announce
<1> HIDE DEF a, b
<1>5. /\ both \in Seq(Service) /\ Len(both) = Len(a) + Len(b)
      /\ Len(a) \in Nat /\ Len(b) \in Nat
      /\ \A j \in 1..Len(a) + Len(b) :
            both[j] = IF j <= Len(a) THEN a[j] ELSE b[j - Len(a)]
  BY <1>2, <1>3, ConcatProperties, LenProperties
<1> HIDE DEF both
<1>6. DOMAIN both = 1..(Len(a) + Len(b))
  BY <1>5, LenProperties
<1>7. \A s : (\E j \in DOMAIN both : both[j] = s)
                <=> \/ \E j \in 1..Len(a) : a[j] = s
                    \/ \E j \in 1..Len(b) : b[j] = s
  <2>1. ASSUME NEW j \in DOMAIN both
        PROVE  \/ \E i \in 1..Len(a) : a[i] = both[j]
               \/ \E i \in 1..Len(b) : b[i] = both[j]
    <3>1. CASE j <= Len(a)
      BY <1>5, <1>6, <3>1
    <3>2. CASE ~ (j <= Len(a))
      <4>1. j - Len(a) \in 1..Len(b) /\ both[j] = b[j - Len(a)]
        BY <1>5, <1>6, <3>2
      <4> QED
        BY <4>1
    <3> QED
      BY <3>1, <3>2
  <2>2. ASSUME NEW i \in 1..Len(a) PROVE \E j \in DOMAIN both : both[j] = a[i]
    BY <1>5, <1>6
  <2>3. ASSUME NEW i \in 1..Len(b) PROVE \E j \in DOMAIN both : both[j] = b[i]
    <3>1. /\ Len(a) + i \in DOMAIN both /\ ~ (Len(a) + i <= Len(a))
          /\ (Len(a) + i) - Len(a) = i
      BY <1>5, <1>6
    <3> QED
      BY <1>5, <1>6, <3>1
  <2> QED
    BY <2>1, <2>2, <2>3
<1>8. \A s : (\E j \in DOMAIN both : both[j] = s)
                <=> \E list \in {d.published, d.subscribed} : \E i \in 1..Len(list) :
                        list[i] = s /\ nan_should_announce_service(s)
  BY <1>2, <1>3, <1>7
<1>9. AnnouncedId(d, k) <=> \E j \in DOMAIN both : both[j].instance_id = k
  <2>1. ASSUME AnnouncedId(d, k) PROVE \E j \in DOMAIN both : both[j].instance_id = k
    <3>1. PICK list \in {d.published, d.subscribed} : \E i \in 1..Len(list) :
              list[i].instance_id = k /\ nan_should_announce_service(list[i])
      BY <2>1 DEF AnnouncedId
    <3>2. PICK i \in 1..Len(list) :
              list[i].instance_id = k /\ nan_should_announce_service(list[i])
      BY <3>1
    <3>3. PICK j \in DOMAIN both : both[j] = list[i]
      BY <1>8, <3>2
    <3> QED
      BY <3>2, <3>3
  <2>2. ASSUME NEW j \in DOMAIN both, both[j].instance_id = k PROVE AnnouncedId(d, k)
    <3>1. PICK list \in {d.published, d.subscribed} : \E i \in 1..Len(list) :
              list[i] = both[j] /\ nan_should_announce_service(both[j])
      BY <1>8
    <3> QED
      BY <2>2, <3>1 DEF AnnouncedId
  <2> QED
    BY <2>1, <2>2
<1> QED
  BY <1>4, <1>9

\* The id of a service is announced if and only if the service is.
LEMMA AnnouncedIsItself ==
    ASSUME NEW d, NEW history, AllowedInv(d, history),
           NEW list \in {d.published, d.subscribed}, NEW i \in 1..Len(list)
    PROVE  AnnouncedId(d, list[i].instance_id) <=> nan_should_announce_service(list[i])
<1>1. ASSUME NEW other \in {d.published, d.subscribed}, NEW j \in 1..Len(other),
             other[j].instance_id = list[i].instance_id
      PROVE  other[j] = list[i]
  BY <1>1 DEF AllowedInv, Unique, Apart
<1> QED
  BY <1>1 DEF AnnouncedId


\* The entries of a list after an announcement (nan_update_announced_services).
LEMMA AnnouncedEntries ==
    ASSUME NEW list \in Seq(Service), NEW r, r = nan_update_announced_services(list)
    PROVE  /\ Len(r) = Len(list)
           /\ \A i \in 1..Len(list) :
                /\ r[i].instance_id = list[i].instance_id
                /\ nan_should_announce_service(list[i]) /\ list[i].time_to_live > 0 =>
                      r[i].time_to_live = list[i].time_to_live - 1
                /\ ~nan_should_announce_service(list[i]) =>
                      r[i].time_to_live = list[i].time_to_live
<1>1. Len(r) = Len(list) /\ DOMAIN list = 1..Len(list)
  BY AnnouncedInv, LenProperties
<1>2. ASSUME NEW i \in 1..Len(list)
      PROVE  /\ r[i].instance_id = list[i].instance_id
             /\ nan_should_announce_service(list[i]) /\ list[i].time_to_live > 0 =>
                   r[i].time_to_live = list[i].time_to_live - 1
             /\ ~nan_should_announce_service(list[i]) =>
                   r[i].time_to_live = list[i].time_to_live
  <2> DEFINE s == list[i]
  <2>1. r[i] = Announced(s)
    BY <1>1 DEF nan_update_announced_services
  <2>2. s \in Service
    BY ElementOfSeq
  <2> HIDE DEF s
  <2>3. /\ r[i].instance_id = s.instance_id
        /\ nan_should_announce_service(s) /\ s.time_to_live > 0 =>
              r[i].time_to_live = s.time_to_live - 1
        /\ ~nan_should_announce_service(s) => r[i].time_to_live = s.time_to_live
    BY <2>1, <2>2 DEF Announced, Service
  <2> QED
    BY <2>3 DEF s
<1> QED
  BY <1>1, <1>2

\* The entries of the history when announcements are counted.
LEMMA CountedEntries ==
    ASSUME NEW d, DeviceInv(d), NEW history \in Seq(History), Numbered(history),
           NEW g, g = Count(history, nan_get_services_to_announce(d))
    PROVE  /\ Len(g) = Len(history)
           /\ \A k \in 1..Len(history) :
                /\ g[k].instance_id = k /\ g[k].allowed = history[k].allowed
                /\ history[k].allowed >= 0 /\ AnnouncedId(d, k) =>
                      g[k].announced = history[k].announced + 1
                /\ ~AnnouncedId(d, k) => g[k].announced = history[k].announced
<1> DEFINE services == nan_get_services_to_announce(d)
<1>1. Len(g) = Len(history) /\ DOMAIN history = 1..Len(history)
  BY CountKeepsLength, LenProperties
<1>2. ASSUME NEW k \in 1..Len(history)
      PROVE  /\ g[k].instance_id = k /\ g[k].allowed = history[k].allowed
             /\ history[k].allowed >= 0 /\ AnnouncedId(d, k) =>
                   g[k].announced = history[k].announced + 1
             /\ ~AnnouncedId(d, k) => g[k].announced = history[k].announced
  <2> DEFINE counted == [ history[k] EXCEPT !.announced = @ + 1 ]
  <2>1. history[k] \in History /\ history[k].instance_id = k
    BY ElementOfSeq DEF Numbered
  <2>2. g[k] = IF history[k].allowed >= 0
                  /\ \E j \in DOMAIN services :
                        services[j].instance_id = history[k].instance_id
               THEN counted ELSE history[k]
    BY <1>1 DEF Count
  <2>3. AnnouncedId(d, k) <=> \E j \in DOMAIN services : services[j].instance_id = k
    BY AnnouncedIds
  <2>4. g[k] = IF history[k].allowed >= 0 /\ AnnouncedId(d, k) THEN counted ELSE history[k]
    BY <2>1, <2>2, <2>3
  <2>5. /\ counted.instance_id = history[k].instance_id
        /\ counted.allowed = history[k].allowed
        /\ counted.announced = history[k].announced + 1
    BY <2>1 DEF History
  <2> HIDE DEF counted
  <2> QED
    BY <2>1, <2>4, <2>5
<1> QED
  BY <1>1, <1>2

(***************************************************************************)
(* A window counts down what it announces and nothing else: time to live   *)
(* and history move together.                                              *)
(***************************************************************************)
LEMMA WindowAllowed ==
    ASSUME NEW d, DeviceInv(d), NEW history \in Seq(History), AllowedInv(d, history),
           NEW r, r = AfterWindow(d),
           NEW g, g = Count(history, nan_get_services_to_announce(d))
    PROVE  AllowedInv(r, g)
<1>1. d.published \in Seq(Service) /\ d.subscribed \in Seq(Service)
  BY DEF DeviceInv, NodeOK
<1>2. /\ r.published = nan_update_announced_services(d.published)
      /\ r.subscribed = nan_update_announced_services(d.subscribed)
  <2> DEFINE published == nan_update_announced_services(d.published)
             subscribed == nan_update_announced_services(d.subscribed)
  <2>1. Shape(d)
    BY DEF DeviceInv, NodeOK
  <2>2. r = [ d EXCEPT !.buffer = <<>>, !.published = published, !.subscribed = subscribed ]
    BY DEF AfterWindow
  <2> HIDE DEF published, subscribed
  <2>3. r.published = published /\ r.subscribed = subscribed
    BY <2>1, <2>2 DEF Shape
  <2> QED
    BY <2>3 DEF published, subscribed
<1>3. Len(g) = Len(history) /\ Len(history) \in Nat
      /\ \A k \in 1..Len(history) :
            /\ g[k].instance_id = k /\ g[k].allowed = history[k].allowed
            /\ history[k].allowed >= 0 /\ AnnouncedId(d, k) =>
                  g[k].announced = history[k].announced + 1
            /\ ~AnnouncedId(d, k) => g[k].announced = history[k].announced
  BY CountedEntries, LenProperties DEF AllowedInv
<1>4. ASSUME NEW k \in 1..Len(history)
      PROVE  history[k].allowed \in Int /\ history[k].announced \in Nat
  <2>1. history[k] \in History
    BY ElementOfSeq
  <2> QED
    BY <2>1 DEF History
<1>5. ASSUME NEW list \in {d.published, d.subscribed}, NEW i \in 1..Len(list)
      PROVE  /\ list[i] \in Service /\ list[i].instance_id \in 1..Len(history)
             /\ history[list[i].instance_id].allowed >= 0 =>
                   /\ list[i].time_to_live = history[list[i].instance_id].allowed
                                               - history[list[i].instance_id].announced
                   /\ list[i].time_to_live >= 0
  <2> DEFINE k == list[i].instance_id
  <2>1. list[i] \in Service
    BY <1>1, ElementOfSeq
  <2>2. k \in 1..Len(history)
        /\ (history[k].allowed >= 0 =>
              list[i].time_to_live = history[k].allowed - history[k].announced)
    BY DEF AllowedInv, Left
  <2>3. history[k].allowed >= 0 => history[k].announced <= history[k].allowed
    BY <2>2 DEF AllowedInv, Numbered
  <2>4. history[k].allowed \in Int /\ history[k].announced \in Nat
    BY <1>4, <2>2
  <2> HIDE DEF k
  <2>5. history[k].allowed >= 0 => history[k].allowed - history[k].announced >= 0
    BY <2>3, <2>4
  <2> QED
    BY <2>1, <2>2, <2>5 DEF k
<1>6. Numbered(g)
  <2> SUFFICES ASSUME NEW k \in 1..Len(history), history[k].allowed >= 0,
                      AnnouncedId(d, k)
               PROVE  history[k].announced + 1 <= history[k].allowed
    BY <1>3, <1>4 DEF AllowedInv, Numbered
  <2>1. PICK list \in {d.published, d.subscribed} : \E i \in 1..Len(list) :
            list[i].instance_id = k /\ nan_should_announce_service(list[i])
    BY DEF AnnouncedId
  <2>2. PICK i \in 1..Len(list) :
            list[i].instance_id = k /\ nan_should_announce_service(list[i])
    BY <2>1
  <2>3. list[i].time_to_live # 0
    BY <2>2 DEF nan_should_announce_service
  <2>4. /\ list[i].time_to_live = history[k].allowed - history[k].announced
        /\ list[i].time_to_live >= 0
    BY <1>5, <2>2
  <2>5. history[k].allowed \in Int /\ history[k].announced \in Nat
    BY <1>4
  <2> QED
    BY <2>3, <2>4, <2>5
<1>7. ASSUME NEW list \in {d.published, d.subscribed}, list \in Seq(Service)
      PROVE  Left(nan_update_announced_services(list), g)
  <2> DEFINE later == nan_update_announced_services(list)
  <2>1. /\ Len(later) = Len(list)
        /\ \A i \in 1..Len(list) :
              /\ later[i].instance_id = list[i].instance_id
              /\ nan_should_announce_service(list[i]) /\ list[i].time_to_live > 0 =>
                    later[i].time_to_live = list[i].time_to_live - 1
              /\ ~nan_should_announce_service(list[i]) =>
                    later[i].time_to_live = list[i].time_to_live
    BY <1>7, AnnouncedEntries
  <2> HIDE DEF later
  <2>2. ASSUME NEW i \in 1..Len(list), NEW k, k = list[i].instance_id
        PROVE  /\ k \in 1..Len(g)
               /\ g[k].allowed >= 0 =>
                     later[i].time_to_live = g[k].allowed - g[k].announced
    <3>1. /\ list[i] \in Service /\ k \in 1..Len(history)
          /\ history[k].allowed >= 0 =>
                /\ list[i].time_to_live = history[k].allowed - history[k].announced
                /\ list[i].time_to_live >= 0
      BY <1>5, <2>2
    <3>2. AnnouncedId(d, k) <=> nan_should_announce_service(list[i])
      BY <2>2, AnnouncedIsItself
    <3>3. /\ k \in 1..Len(g) /\ g[k].allowed = history[k].allowed
          /\ history[k].allowed \in Int /\ history[k].announced \in Nat
          /\ list[i].time_to_live \in Int
      BY <1>3, <1>4, <3>1 DEF Service
    <3>4. CASE AnnouncedId(d, k) /\ history[k].allowed >= 0
      <4>1. list[i].time_to_live # 0
        BY <3>2, <3>4 DEF nan_should_announce_service
      <4>2. later[i].time_to_live = list[i].time_to_live - 1
        BY <2>1, <3>1, <3>2, <3>3, <3>4, <4>1
      <4>3. g[k].announced = history[k].announced + 1
        BY <1>3, <3>1, <3>4
      <4> QED
        BY <3>1, <3>3, <3>4, <4>2, <4>3
    <3>5. CASE ~AnnouncedId(d, k)
      <4>1. later[i].time_to_live = list[i].time_to_live
        BY <2>1, <3>2, <3>5
      <4>2. g[k].announced = history[k].announced
        BY <1>3, <3>1, <3>5
      <4> QED
        BY <3>1, <3>3, <4>1, <4>2
    <3> QED
      BY <3>3, <3>4, <3>5
  <2>3. Left(later, g)
    BY <2>1, <2>2 DEF Left
  <2> QED
    BY <2>3 DEF later
<1>8. /\ Len(r.published) = Len(d.published)
      /\ \A i \in 1..Len(d.published) :
            r.published[i].instance_id = d.published[i].instance_id
      /\ Len(r.subscribed) = Len(d.subscribed)
      /\ \A i \in 1..Len(d.subscribed) :
            r.subscribed[i].instance_id = d.subscribed[i].instance_id
  BY <1>1, <1>2, AnnouncedEntries
<1>9. Unique(r.published) /\ Unique(r.subscribed)
  BY <1>8 DEF AllowedInv, Unique
<1>10. Apart(r.published, r.subscribed)
  BY <1>8 DEF AllowedInv, Apart
<1>11. Left(r.published, g) /\ Left(r.subscribed, g)
  BY <1>1, <1>2, <1>7
<1> QED
  BY <1>6, <1>9, <1>10, <1>11 DEF AllowedInv

\* A history with one service more, which has the next id.
LEMMA LongerHistory ==
    ASSUME NEW history \in Seq(History), NEW entry \in History, entry.announced = 0,
           NEW g, Longer(g, history, entry)
    PROVE  /\ entry.instance_id = Len(history) + 1 /\ Numbered(history) => Numbered(g)
           /\ \A list : Left(list, history) => Left(list, g)
<1>1. /\ g \in Seq(History) /\ Len(g) = Len(history) + 1 /\ Len(history) \in Nat
      /\ \A k \in 1..Len(history) : g[k] = history[k]
      /\ g[Len(history) + 1] = entry
  BY AppendProperties, LenProperties DEF Longer
<1>2. /\ 1..Len(g) = 1..Len(history) \cup {Len(history) + 1}
      /\ \A k \in 1..Len(history) : k \in 1..Len(g)
  BY <1>1
<1>3. entry.allowed \in Int
  BY DEF History
<1>4. ASSUME entry.instance_id = Len(history) + 1, Numbered(history) PROVE Numbered(g)
  BY <1>1, <1>2, <1>3, <1>4 DEF Numbered
<1>5. ASSUME NEW list, Left(list, history) PROVE Left(list, g)
  BY <1>1, <1>2, <1>5 DEF Left
<1> QED
  BY <1>4, <1>5

\* A list that gets a service with the next id.
LEMMA LongerAllowed ==
    ASSUME NEW history \in Seq(History), NEW entry \in History,
           NEW g, Longer(g, history, entry),
           NEW list \in Seq(Service), Left(list, history), Unique(list),
           NEW service \in Service, service.instance_id = Len(history) + 1,
           entry.allowed = service.time_to_live, entry.announced = 0,
           NEW r, Longer(r, list, service)
    PROVE  /\ Left(r, g) /\ Unique(r)
           /\ \A other : Left(other, history) /\ Apart(list, other) => Apart(r, other)
           /\ \A other : Left(other, history) /\ Apart(other, list) => Apart(other, r)
<1>1. /\ g \in Seq(History) /\ Len(g) = Len(history) + 1 /\ Len(history) \in Nat
      /\ \A k \in 1..Len(history) : g[k] = history[k]
      /\ g[Len(history) + 1] = entry
  BY AppendProperties, LenProperties DEF Longer
<1>2. /\ Len(r) = Len(list) + 1 /\ Len(list) \in Nat
      /\ \A i \in 1..Len(list) : r[i] = list[i]
      /\ r[Len(list) + 1] = service
  BY AppendProperties, LenProperties DEF Longer
<1>3. /\ 1..Len(r) = 1..Len(list) \cup {Len(list) + 1}
      /\ \A k \in 1..Len(history) : k \in 1..Len(g) /\ k # Len(history) + 1
  BY <1>1, <1>2
<1>4. Left(list, g)
  BY LongerHistory
<1>5. Left(r, g)
  <2> SUFFICES ASSUME NEW i \in 1..Len(r), NEW k, k = r[i].instance_id
               PROVE  /\ k \in 1..Len(g)
                      /\ g[k].allowed >= 0 =>
                            r[i].time_to_live = g[k].allowed - g[k].announced
    BY DEF Left
  <2>1. CASE i \in 1..Len(list)
    BY <1>2, <1>4, <2>1 DEF Left
  <2>2. CASE i = Len(list) + 1
    <3>1. k = Len(history) + 1 /\ r[i] = service
      BY <1>2, <2>2
    <3>2. k \in 1..Len(g) /\ g[k] = entry
      BY <1>1, <3>1
    <3>3. service.time_to_live \in Int
      BY DEF Service
    <3>4. entry.allowed - entry.announced = service.time_to_live
      BY <3>3
    <3> QED
      BY <3>1, <3>2, <3>4
  <2> QED
    BY <1>3, <2>1, <2>2
<1>6. \A i \in 1..Len(list) : list[i].instance_id # Len(history) + 1
  BY <1>3 DEF Left
<1>7. Unique(r)
  <2> SUFFICES ASSUME NEW i \in 1..Len(r), NEW j \in 1..Len(r),
                      r[i].instance_id = r[j].instance_id
               PROVE  i = j
    BY DEF Unique
  <2>1. CASE i \in 1..Len(list) /\ j \in 1..Len(list)
    BY <1>2, <2>1 DEF Unique
  <2>2. CASE i = Len(list) + 1 \/ j = Len(list) + 1
    BY <1>2, <1>3, <1>6, <2>2
  <2> QED
    BY <1>3, <2>1, <2>2
<1>8. ASSUME NEW other, Left(other, history)
      PROVE  /\ Apart(list, other) => Apart(r, other)
             /\ Apart(other, list) => Apart(other, r)
  <2>1. \A i \in 1..Len(other) : other[i].instance_id # Len(history) + 1
    BY <1>3, <1>8 DEF Left
  <2>2. \A i \in 1..Len(r) : \/ i \in 1..Len(list) /\ r[i] = list[i]
                            \/ r[i].instance_id = Len(history) + 1
    BY <1>2, <1>3
  <2>3. ASSUME Apart(list, other), NEW i \in 1..Len(r), NEW j \in 1..Len(other)
        PROVE  r[i].instance_id # other[j].instance_id
    BY <2>1, <2>2, <2>3 DEF Apart
  <2>4. ASSUME Apart(other, list), NEW i \in 1..Len(r), NEW j \in 1..Len(other)
        PROVE  other[j].instance_id # r[i].instance_id
    BY <2>1, <2>2, <2>4 DEF Apart
  <2> QED
    BY <2>3, <2>4 DEF Apart
<1> QED
  BY <1>5, <1>7, <1>8

\* A command gives the next id to a service that has not been announced yet.
LEMMA RegisterAllowed ==
    ASSUME NEW d, DeviceInv(d), NEW history \in Seq(History), AllowedInv(d, history),
           LabelInv(d, Len(history)), Len(history) + 1 < IdMod,
           NEW name \in Name, NEW kind \in Kind, NEW ttl \in Int,
           NEW r, r \in { nan_cmd_publish_service(d, name, kind, ttl),
                          nan_cmd_subscribe_service(d, name, kind, ttl) },
           NEW entry, entry = Create(nan_service_new(d, name, kind, ttl)),
           NEW g, Longer(g, history, entry)
    PROVE  AllowedInv(r, g)
<1> DEFINE service == nan_service_new(d, name, kind, ttl)
<1>1. d.published \in Seq(Service) /\ d.subscribed \in Seq(Service)
  BY DEF DeviceInv, NodeOK
<1>2. Len(history) \in Nat
  BY LenProperties
<1>3. increase_non_zero_id(d.last_instance_id) = Len(history) + 1
  BY <1>2, ServiceAssumption DEF increase_non_zero_id, LabelInv
<1>4. /\ service \in Service /\ service.name = name
      /\ service.instance_id = Len(history) + 1 /\ service.time_to_live = ttl
  BY <1>2, <1>3, ServiceAssumption DEF nan_service_new, Service
<1>5. service = nan_service_new(d, name, kind, ttl)
  OBVIOUS
<1> HIDE DEF service
<1>6. IdOf[name] \in ServiceId
  BY ServiceAssumption
<1>7. entry = [ service_id |-> IdOf[name], instance_id |-> Len(history) + 1,
                allowed |-> ttl, announced |-> 0 ]
  BY <1>4, <1>5 DEF Create
<1>8. /\ entry \in History /\ entry.instance_id = Len(history) + 1
      /\ entry.allowed = service.time_to_live /\ entry.announced = 0
      /\ entry.allowed \in Int
  BY <1>2, <1>4, <1>6, <1>7 DEF History
<1>9. /\ Numbered(g)
      /\ \A list : Left(list, history) => Left(list, g)
  BY <1>8, LongerHistory DEF AllowedInv
<1>10. \/ r.published = d.published /\ r.subscribed = d.subscribed
       \/ Longer(r.published, d.published, service) /\ r.subscribed = d.subscribed
       \/ r.published = d.published /\ Longer(r.subscribed, d.subscribed, service)
  BY <1>5, RegisterLists
<1>11. CASE r.published = d.published /\ r.subscribed = d.subscribed
  BY <1>9, <1>11 DEF AllowedInv
<1>12. CASE Longer(r.published, d.published, service) /\ r.subscribed = d.subscribed
  <2>1. /\ Left(r.published, g) /\ Unique(r.published)
        /\ Apart(r.published, d.subscribed)
    BY <1>1, <1>4, <1>8, <1>12, LongerAllowed DEF AllowedInv
  <2> QED
    BY <1>9, <1>12, <2>1 DEF AllowedInv
<1>13. CASE r.published = d.published /\ Longer(r.subscribed, d.subscribed, service)
  <2>1. /\ Left(r.subscribed, g) /\ Unique(r.subscribed)
        /\ Apart(d.published, r.subscribed)
    BY <1>1, <1>4, <1>8, <1>13, LongerAllowed DEF AllowedInv
  <2> QED
    BY <1>9, <1>13, <2>1 DEF AllowedInv
<1> QED
  BY <1>10, <1>11, <1>12, <1>13


\* AllowedInv of every device and its history
AInv == \A n \in Device : AllowedInv(node[n], created[n])

\* A step of one device that leaves the histories alone.
LEMMA AllowedOfOne ==
    ASSUME IInv, AInv, NEW n \in Device, NEW d, AllowedInv(d, created[n]),
           node' = [ node EXCEPT ![n] = d ], created' = created
    PROVE  AInv'
BY DEF IInv, AInv

\* A step of one device and of its history.
LEMMA AllowedWithHistory ==
    ASSUME IInv, LInv, AInv, NEW n \in Device, NEW d, NEW history,
           AllowedInv(d, history), node' = [ node EXCEPT ![n] = d ],
           created' = [ created EXCEPT ![n] = history ]
    PROVE  AInv'
BY DEF IInv, LInv, AInv

\* A device starts without services.
LEMMA InitAInv == Init => AInv
<1> SUFFICES ASSUME Init, NEW n \in Device PROVE AllowedInv(node[n], created[n])
  BY DEF AInv
<1>1. node[n].published = <<>> /\ node[n].subscribed = <<>> /\ created[n] = <<>>
  BY DEF Init, init_services
<1>2. 1..Len(<<>>) = {}
  OBVIOUS
<1> QED
  BY <1>1, <1>2 DEF AllowedInv, Numbered, Unique, Apart, Left

(***************************************************************************)
(* Every step keeps what is left in line with what was announced: one case *)
(* per action.                                                             *)
(***************************************************************************)
LEMMA NextAInv ==
    ASSUME MaxServices < IdMod, IInv, LInv, AInv, [Next]_vars
    PROVE  AInv'
<1>1. CASE UNCHANGED vars
  BY <1>1 DEF vars, AInv
<1>2. CASE Next
  <2>1. PICK n \in Device :
            Command(n) \/ DiscoveryWindow(n) \/ Receive(n) \/ Handle(n) \/ Call(n) \/ Lose(n)
    BY <1>2 DEF Next
  <2> DEFINE d == node[n]
  <2>2. /\ DeviceInv(d) /\ AllowedInv(d, created[n]) /\ created[n] \in Seq(History)
        /\ LabelInv(d, Len(created[n])) /\ Len(created[n]) \in Nat
    BY LenProperties DEF IInv, LInv, AInv
  <2>3. ASSUME NEW name \in Name, NEW kind \in Kind, NEW ttl \in Int,
               Len(created[n]) < MaxServices,
               NEW r, r \in { nan_cmd_publish_service(d, name, kind, ttl),
                              nan_cmd_subscribe_service(d, name, kind, ttl) },
               node' = [ node EXCEPT ![n] = r ],
               created' = [ created EXCEPT ![n] =
                              Append(@, Create(nan_service_new(d, name, kind, ttl))) ]
        PROVE  AInv'
    <3> DEFINE entry == Create(nan_service_new(d, name, kind, ttl))
               history == Append(created[n], entry)
    <3>1. created' = [ created EXCEPT ![n] = history ]
      BY <2>3 DEF LInv
    <3>2. Len(created[n]) + 1 < IdMod
      BY <2>2, <2>3, DiscoveryAssumption, ServiceAssumption
    <3>3. Longer(history, created[n], entry)
      BY DEF Longer
    <3>4. entry = Create(nan_service_new(d, name, kind, ttl))
      OBVIOUS
    <3> HIDE DEF history, entry
    <3>5. AllowedInv(r, history)
      BY <2>2, <2>3, <3>2, <3>3, <3>4, RegisterAllowed
    <3> QED
      BY <2>3, <3>1, <3>5, AllowedWithHistory
  <2>4. CASE Command(n)
    <3>1. PICK name \in Name :
              \/ \E offer \in Offers : Publish(n, name, offer)
              \/ \E want \in Wants : Subscribe(n, name, want)
      BY <2>4 DEF Command
    <3>2. ASSUME NEW offer \in Offers, Publish(n, name, offer) PROVE AInv'
      <4>1. offer[1] \in Kind /\ offer[2] \in Int
        BY DiscoveryAssumption DEF Kind
      <4> QED
        BY <2>3, <3>2, <4>1 DEF Publish
    <3>3. ASSUME NEW want \in Wants, Subscribe(n, name, want) PROVE AInv'
      <4>1. want[1] \in Kind /\ want[2] \in Int
        BY DiscoveryAssumption DEF Kind
      <4> QED
        BY <2>3, <3>3, <4>1 DEF Subscribe
    <3> QED
      BY <3>1, <3>2, <3>3
  <2>5. CASE DiscoveryWindow(n)
    <3> DEFINE r == AfterWindow(d)
               history == Count(created[n], nan_get_services_to_announce(d))
    <3>1. AllowedInv(r, history)
      BY <2>2, WindowAllowed
    <3>2. /\ node' = [ node EXCEPT ![n] = r ]
          /\ created' = [ created EXCEPT ![n] = history ]
      BY <2>5 DEF DiscoveryWindow, IInv, LInv
    <3> HIDE DEF r, history
    <3> QED
      BY <3>1, <3>2, AllowedWithHistory
  <2>6. CASE Receive(n)
    <3> DEFINE frame == Head(inbox[n])
               r == [ d EXCEPT !.todo = frame ]
    <3>1. node' = [ node EXCEPT ![n] = r ] /\ created' = created
      BY <2>6 DEF Receive, IInv
    <3> HIDE DEF frame
    <3>2. r.published = d.published /\ r.subscribed = d.subscribed
      BY <2>2 DEF DeviceInv, NodeOK, Shape
    <3> HIDE DEF r
    <3>3. AllowedInv(r, created[n])
      BY <2>2, <3>2, FewerAllowed, SubListItself
    <3> QED
      BY <3>1, <3>3, AllowedOfOne
  <2>7. CASE Handle(n)
    <3> DEFINE r == HandleDescriptor(d, n)
    <3>1. node' = [ node EXCEPT ![n] = r ] /\ created' = created
      BY <2>7 DEF Handle, IInv
    <3>2. r.subscribed = d.subscribed /\ SameServices(r.published, d.published)
      BY <2>2, DescriptorLists
    <3> HIDE DEF r
    <3>3. AllowedInv(r, created[n])
      BY <2>2, <3>2, SameAllowed
    <3> QED
      BY <3>1, <3>3, AllowedOfOne
  <2>8. CASE Call(n)
    <3> DEFINE r == CallListener(d, n)
               i == d.event.instance_id
    <3>1. node' = [ node EXCEPT ![n] = r ] /\ created' = created
      BY <2>8 DEF Call, IInv
    <3>2. /\ r.published \in {d.published, Cancel(d.published, i)}
          /\ r.subscribed \in {d.subscribed, Cancel(d.subscribed, i)}
      BY <2>2, CallListenerLists
    <3>3. d.published \in Seq(Service) /\ d.subscribed \in Seq(Service)
      BY <2>2 DEF DeviceInv, NodeOK
    <3> HIDE DEF r
    <3>4. SubList(r.published, d.published) /\ SubList(r.subscribed, d.subscribed)
      BY <3>2, <3>3, SubListItself, SubListCancel
    <3>5. AllowedInv(r, created[n])
      BY <2>2, <3>4, FewerAllowed
    <3> QED
      BY <3>1, <3>5, AllowedOfOne
  <2>9. CASE Lose(n)
    BY <2>9 DEF Lose, AInv
  <2> QED
    BY <2>1, <2>4, <2>5, <2>6, <2>7, <2>8, <2>9
<1> QED
  BY <1>1, <1>2

(***************************************************************************)
(* A service with a limited time to live is announced as often as it was   *)
(* allowed at most, and what is left of the limit is exactly what was not  *)
(* announced yet, whatever windows, follow-ups and commands come between.  *)
(***************************************************************************)
THEOREM AnnouncedOnlyAsAllowed ==
    ASSUME MaxServices < IdMod
    PROVE  Spec => []AnnouncedAsAllowed
<1>1. IInv /\ LInv /\ [Next]_vars => LInv'
  BY NextLInv
<1>2. IInv /\ LInv /\ AInv /\ [Next]_vars => AInv'
  BY NextAInv
<1>3. IInv /\ LInv /\ AInv => AnnouncedAsAllowed
  <2> SUFFICES ASSUME IInv, LInv, AInv, NEW n \in Device, NEW i \in DOMAIN created[n],
                      created[n][i].allowed >= 0
               PROVE  LET c == created[n][i] IN
                      /\ c.announced <= c.allowed
                      /\ \A list \in {node[n].published, node[n].subscribed} :
                           \A j \in DOMAIN list :
                              list[j].instance_id = c.instance_id =>
                                  list[j].time_to_live = c.allowed - c.announced
    BY DEF AnnouncedAsAllowed
  <2> DEFINE d == node[n]
             history == created[n]
  <2>1. i \in 1..Len(history)
    BY LenProperties DEF LInv
  <2>2. AllowedInv(d, history)
    BY DEF AInv
  <2>3. /\ d.published \in Seq(Service) /\ d.subscribed \in Seq(Service)
    BY DEF IInv, DeviceInv, NodeOK
  <2>4. history[i].instance_id = i /\ history[i].announced <= history[i].allowed
    BY <2>1, <2>2 DEF AllowedInv, Numbered
  <2>5. ASSUME NEW list \in {d.published, d.subscribed}, NEW j \in DOMAIN list,
               list[j].instance_id = i
        PROVE  list[j].time_to_live = history[i].allowed - history[i].announced
    <3>1. j \in 1..Len(list)
      BY <2>3, LenProperties
    <3>2. Left(list, history)
      BY <2>2 DEF AllowedInv
    <3> QED
      BY <2>5, <3>1, <3>2 DEF Left
  <2> QED
    BY <2>4, <2>5
<1> QED
  BY InitIInv, NextIInv, InitLInv, InitAInv, <1>1, <1>2, <1>3, PTL DEF Spec
=============================================================================

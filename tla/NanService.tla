----------------------------- MODULE NanService -----------------------------
(***************************************************************************)
(* The discovery engine of one device: published and subscribed services   *)
(* (src/src/service.c), event listeners (src/src/event.c), the commands    *)
(* and listeners the daemon uses them with (src/daemon/cmd.c) and the      *)
(* frames they make (src/src/tx.c).                                        *)
(*                                                                         *)
(* A device d is a record.  The handlers of a received frame call back     *)
(* into listeners that change the lists being walked, so the walk is part  *)
(* of d: todo holds the descriptors still to be handled, event the event   *)
(* being dispatched and next the list iterator.                            *)
(***************************************************************************)
EXTENDS Integers, Sequences, SequencesExt

CONSTANTS
    Device,         \* addresses
    NAN_NETWORK_ID, \* the address announcements are sent to
    Name,           \* service names
    ServiceId,      \* hashes of names
    IdOf,           \* IdOf[name]: the hash of the name in lower case
    StartsWith,     \* pairs of names, the first of which starts with the second
    IdMod,          \* number of instance ids, 256 in the code
    BufferSize      \* follow-ups that wait for a window, 16 in the code

ASSUME ServiceAssumption ==
    /\ IdOf \in [Name -> ServiceId]
    /\ StartsWith \subseteq Name \X Name
    /\ IdMod \in Nat \ {0, 1}
    /\ BufferSize \in Nat
    /\ NAN_NETWORK_ID \notin Device

\* A service is published or subscribed according to the list it is in.
\* is_subscribed is left out: nan_updated_replied_service has no caller.
Kind == {"UNSOLICITED", "SOLICITED", "BOTH", "PASSIVE", "ACTIVE"}
Service ==
    [ name : Name, kind : Kind, instance_id : 1..(IdMod - 1),
      time_to_live : Int, do_publish : BOOLEAN ]

\* Each event has one listener function in the daemon, which it stands for.
Listener == [ event : {"DISCOVERY_RESULT", "RECEIVE"}, service_name : Name ]

\* A service descriptor with the addresses of the frame that carries it
Descriptor ==
    [ from : Device, to : Device \cup {NAN_NETWORK_ID},
      control : {"PUBLISH", "SUBSCRIBE", "FOLLOW_UP"}, service_id : ServiceId,
      instance_id : Nat, requestor_instance_id : Nat ]

NoEvent == [ event |-> "NONE" ]
Event ==
    [ event : {"DISCOVERY_RESULT", "RECEIVE"}, service_name : Name,
      instance_id : Nat, address : Device, peer_instance_id : Nat ]

\* The iterator past the last entry, and at an entry that has been freed
End == 0
Freed == -1

init_services ==
    [ published |-> <<>>, subscribed |-> <<>>, last_instance_id |-> 0,
      listeners |-> <<>>, buffer |-> <<>>,
      todo |-> <<>>, event |-> NoEvent, next |-> End ]

\* The event loop has returned from the handler of the last frame.
Idle(d) == d.todo = <<>> /\ d.event = NoEvent

----------------------------------------------------------------------------
(* Services. *)

\* LIST_FIND: the position of the first match, 0 for NULL.
FindId(services, id) == SelectInSeq(services, LAMBDA s : IdOf[s.name] = id)
FindInstance(services, i) == SelectInSeq(services, LAMBDA s : s.instance_id = i)
Registered(d, name) ==
    \E list \in {d.published, d.subscribed} : \E i \in DOMAIN list : list[i].name = name

increase_non_zero_id(id) == IF (id + 1) % IdMod = 0 THEN 1 ELSE (id + 1) % IdMod

nan_service_new(d, name, kind, time_to_live) ==
    [ name |-> name, kind |-> kind,
      instance_id |-> increase_non_zero_id(d.last_instance_id),
      time_to_live |-> time_to_live, do_publish |-> FALSE ]

nan_publish(d, service) ==
    [ d EXCEPT !.published = Append(@, service),
               !.last_instance_id = service.instance_id ]

nan_subscribe(d, service) ==
    [ d EXCEPT !.subscribed = Append(@, service),
               !.last_instance_id = service.instance_id ]

\* LIST_REMOVE: without the first service that has the instance id.
Cancel(services, i) ==
    LET k == FindInstance(services, i) IN
    IF k = 0 THEN services ELSE RemoveAt(services, k)

\* Mutant: a service whose time to live has run out is announced once more.
AnnounceExpired(service) ==
    /\ service.kind = "SOLICITED" => service.do_publish
    /\ service.kind # "PASSIVE"

nan_should_announce_service(service) ==
    /\ service.time_to_live # 0
    /\ service.kind = "SOLICITED" => service.do_publish
    /\ service.kind # "PASSIVE"

\* The services of a list that are announced, in its order: the walk of the list,
\* service by service.
ToAnnounce(services) ==
    LET found[n \in 0..Len(services)] ==
            IF n = 0 THEN <<>>
            ELSE IF nan_should_announce_service(services[n])
            THEN Append(found[n - 1], services[n])
            ELSE found[n - 1]
    IN  found[Len(services)]

nan_get_services_to_announce(d) == ToAnnounce(d.published) \o ToAnnounce(d.subscribed)

\* A negative time to live stays as it is.
Announced(service) ==
    IF nan_should_announce_service(service)
    THEN [ service EXCEPT !.time_to_live = IF @ > 0 THEN @ - 1 ELSE @,
                          !.do_publish = FALSE ]
    ELSE service

nan_update_announced_services(services) ==
    [ i \in DOMAIN services |-> Announced(services[i]) ]

----------------------------------------------------------------------------
(* Events. *)

nan_add_event_listener(d, event, service_name) ==
    [ d EXCEPT !.listeners = Append(@, [ event |-> event, service_name |-> service_name ]) ]

\* Mutant: the last listener with the function is removed instead of the first.
RemoveLastListener(d, event) ==
    LET k == SelectLastInSeq(d.listeners, LAMBDA l : l.event = event) IN
    IF k = 0 THEN d
    ELSE [ d EXCEPT !.listeners = RemoveAt(@, k),
                    !.next = IF @ = k THEN Freed ELSE IF @ > k THEN @ - 1 ELSE @ ]

FirstListener(listeners, event) == SelectInSeq(listeners, LAMBDA l : l.event = event)

\* Removes the FIRST listener with the function, whatever its service.
nan_remove_event_listener(d, event) ==
    LET k == FirstListener(d.listeners, event) IN
    IF k = 0 THEN d
    ELSE [ d EXCEPT !.listeners = RemoveAt(@, k),
                    !.next = IF @ = k THEN Freed ELSE IF @ > k THEN @ - 1 ELSE @ ]

matches_event(listener, event) ==
    /\ listener.event = event.event
    /\ <<event.service_name, listener.service_name>> \in StartsWith

\* The next listener nan_dispatch_event calls, 0 when there is none left.
NextListener(d) ==
    IF d.event = NoEvent \/ d.next \in {End, Freed} THEN 0
    ELSE SelectInSubSeq(d.listeners, d.next, Len(d.listeners),
                        LAMBDA l : matches_event(l, d.event))

\* The iterator stands on the first entry when the dispatch begins.
nan_dispatch_event(d, event) ==
    [ d EXCEPT !.event = event, !.next = IF d.listeners = <<>> THEN End ELSE 1 ]

\* list_it_next moves on before the listener runs.
Advance(d, k) == [ d EXCEPT !.next = IF k = Len(d.listeners) THEN End ELSE k + 1 ]

----------------------------------------------------------------------------
(* The daemon's listeners. *)

FollowUp(self, destination, service, instance_id, requestor_instance_id) ==
    [ from |-> self, to |-> destination, control |-> "FOLLOW_UP",
      service_id |-> IdOf[service.name],
      instance_id |-> instance_id, requestor_instance_id |-> requestor_instance_id ]

\* Mutant: the two instance ids of a follow-up change places.
TransmitSwapped(d, self, destination, service, peer_instance_id) ==
    IF Len(d.buffer) = BufferSize THEN d
    ELSE [ d EXCEPT !.buffer = Append(@,
            << FollowUp(self, destination, service, peer_instance_id, service.instance_id) >>) ]

\* Mutant: the result of circular_buf_put is not looked at, and neither is room.
TransmitAlways(d, self, destination, service, peer_instance_id) ==
    [ d EXCEPT !.buffer = Append(@,
        << FollowUp(self, destination, service, service.instance_id, peer_instance_id) >>) ]

\* A follow-up that finds the buffer full is dropped.
nan_transmit(d, self, destination, service, peer_instance_id) ==
    IF Len(d.buffer) = BufferSize THEN d
    ELSE [ d EXCEPT !.buffer = Append(@,
            << FollowUp(self, destination, service, service.instance_id, peer_instance_id) >>) ]

\* Only a subscription that is still there is answered.
handle_event_discovery_result(d, self, event) ==
    LET k == FindInstance(d.subscribed, event.instance_id)
        service == d.subscribed[k]
        sent == nan_transmit(d, self, event.address, service, event.peer_instance_id)
    IN  IF k = 0 THEN d
        ELSE nan_add_event_listener(nan_remove_event_listener(sent, "DISCOVERY_RESULT"),
                                    "RECEIVE", service.name)

\* Without the service of the list that is searched first and has it
EndService(d, i) ==
    IF FindInstance(d.subscribed, i) # 0
    THEN [ d EXCEPT !.subscribed = Cancel(@, i) ]
    ELSE [ d EXCEPT !.published = Cancel(@, i) ]

\* Mutant: a listener is removed even if the service is gone already.
ReceiveWithoutService(d, event) ==
    nan_remove_event_listener(EndService(d, event.instance_id), "RECEIVE")

\* Mutant: the sender's instance id is taken for the device's own.
ReceiveByPeerInstance(d, event) ==
    nan_remove_event_listener(EndService(d, event.peer_instance_id), "RECEIVE")

handle_event_receive(d, event) ==
    IF FindInstance(d.subscribed \o d.published, event.instance_id) = 0 THEN d
    ELSE nan_remove_event_listener(EndService(d, event.instance_id), "RECEIVE")

\* One round of the loop in nan_dispatch_event.
CallListener(d, self) ==
    LET k == NextListener(d) IN
    IF k = 0 THEN [ d EXCEPT !.event = NoEvent, !.next = End ]
    ELSE IF d.event.event = "RECEIVE" THEN handle_event_receive(Advance(d, k), d.event)
    ELSE handle_event_discovery_result(Advance(d, k), self, d.event)

----------------------------------------------------------------------------
(* Received frames. *)

EventFor(event, service, descriptor) ==
    [ event |-> event,
      service_name |-> service.name, instance_id |-> service.instance_id,
      address |-> descriptor.from, peer_instance_id |-> descriptor.instance_id ]

PublishReceived(d, descriptor) ==
    LET k == FindId(d.subscribed, descriptor.service_id) IN
    IF k = 0 THEN d
    ELSE nan_dispatch_event(d, EventFor("DISCOVERY_RESULT", d.subscribed[k], descriptor))

SubscribeReceived(d, descriptor) ==
    LET k == FindId(d.published, descriptor.service_id) IN
    IF k = 0 THEN d ELSE [ d EXCEPT !.published[k].do_publish = TRUE ]

\* Mutant: follow-ups are handed to subscriptions only.
FollowUpToSubscriber(d, self, descriptor) ==
    LET k == FindId(d.subscribed, descriptor.service_id) IN
    IF descriptor.to # self \/ k = 0 THEN d
    ELSE nan_dispatch_event(d, EventFor("RECEIVE", d.subscribed[k], descriptor))

\* The subscriptions are searched first; the instance that the follow-up is
\* meant for is not looked at.
FollowUpReceived(d, self, descriptor) ==
    LET services == d.subscribed \o d.published
        k == FindId(services, descriptor.service_id)
    IN  IF descriptor.to # self \/ k = 0 THEN d
        ELSE nan_dispatch_event(d, EventFor("RECEIVE", services[k], descriptor))

nan_handle_received_service_discovery(d, self, descriptor) ==
    CASE descriptor.control = "PUBLISH"   -> PublishReceived(d, descriptor)
      [] descriptor.control = "SUBSCRIBE" -> SubscribeReceived(d, descriptor)
      [] descriptor.control = "FOLLOW_UP" -> FollowUpReceived(d, self, descriptor)
      [] OTHER -> d

\* The next descriptor of the frame, once the events of the last are through.
HandleDescriptor(d, self) ==
    nan_handle_received_service_discovery(
        [ d EXCEPT !.todo = Tail(@) ], self, Head(d.todo))

----------------------------------------------------------------------------
(* Commands and windows. *)

nan_cmd_publish_service(d, name, kind, time_to_live) ==
    IF Registered(d, name) THEN d
    ELSE nan_add_event_listener(
            nan_publish(d, nan_service_new(d, name, kind, time_to_live)), "RECEIVE", name)

nan_cmd_subscribe_service(d, name, kind, time_to_live) ==
    IF Registered(d, name) THEN d
    ELSE nan_add_event_listener(
            nan_subscribe(d, nan_service_new(d, name, kind, time_to_live)),
            "DISCOVERY_RESULT", name)

Describe(self, services, control) ==
    [ i \in DOMAIN services |->
        [ from |-> self, to |-> NAN_NETWORK_ID, control |-> control,
          service_id |-> IdOf[services[i].name],
          instance_id |-> services[i].instance_id, requestor_instance_id |-> 0 ] ]

\* One frame for all services that are announced
nan_build_service_discovery_frame(d, self) ==
    Describe(self, ToAnnounce(d.published), "PUBLISH")
        \o Describe(self, ToAnnounce(d.subscribed), "SUBSCRIBE")

\* What the device sends in a discovery window after its beacon.
WindowFrames(d, self) ==
    d.buffer \o ( IF nan_get_services_to_announce(d) = <<>> THEN <<>>
                  ELSE << nan_build_service_discovery_frame(d, self) >> )

AfterWindow(d) ==
    [ d EXCEPT !.buffer = <<>>,
               !.published = nan_update_announced_services(@),
               !.subscribed = nan_update_announced_services(@) ]
=============================================================================

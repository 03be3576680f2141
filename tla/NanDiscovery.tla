---------------------------- MODULE NanDiscovery ----------------------------
(***************************************************************************)
(* Devices that publish, subscribe to and discover services over a channel *)
(* that may lose frames.  Each device runs one event loop: a command, a    *)
(* discovery window and the handling of a received frame exclude each      *)
(* other, and the handling of a frame is one descriptor and one listener   *)
(* at a time.                                                              *)
(***************************************************************************)
EXTENDS NanService

CONSTANTS
    Offers,         \* <<kind, time to live>> that services are published with
    Wants,          \* <<kind, time to live>> that they are subscribed to with
    MayLose,        \* whether a frame may be lost
    MaxServices,    \* bound on the services a device ever has, for TLC
    MaxQueue        \* bound on the frames that wait at a device, for TLC

ASSUME DiscoveryAssumption ==
    /\ Offers \subseteq {"UNSOLICITED", "SOLICITED", "BOTH"} \X Int
    /\ Wants \subseteq {"PASSIVE", "ACTIVE"} \X Int
    /\ MayLose \in BOOLEAN
    /\ MaxServices \in Nat
    /\ MaxQueue \in Nat

VARIABLES
    node,           \* discovery engines
    inbox,          \* captured frames not yet handled, per device
    created         \* the services each device has ever had, oldest first:
                    \* history, for the properties only

vars == <<node, inbox, created>>

Frame == Seq(Descriptor)

Init ==
    /\ node = [ n \in Device |-> init_services ]
    /\ inbox = [ n \in Device |-> <<>> ]
    /\ created = [ n \in Device |-> <<>> ]

Create(service) ==
    [ service_id |-> IdOf[service.name], instance_id |-> service.instance_id,
      allowed |-> service.time_to_live, announced |-> 0 ]

Publish(n, name, offer) ==
    /\ Idle(node[n])
    /\ Len(created[n]) < MaxServices
    /\ ~Registered(node[n], name)
    /\ node' = [ node EXCEPT ![n] = nan_cmd_publish_service(@, name, offer[1], offer[2]) ]
    /\ created' = [ created EXCEPT ![n] =
                      Append(@, Create(nan_service_new(node[n], name, offer[1], offer[2]))) ]
    /\ UNCHANGED inbox

Subscribe(n, name, want) ==
    /\ Idle(node[n])
    /\ Len(created[n]) < MaxServices
    /\ ~Registered(node[n], name)
    /\ node' = [ node EXCEPT ![n] = nan_cmd_subscribe_service(@, name, want[1], want[2]) ]
    /\ created' = [ created EXCEPT ![n] =
                      Append(@, Create(nan_service_new(node[n], name, want[1], want[2]))) ]
    /\ UNCHANGED inbox

\* One more announcement of every service in the frame that has a limit
Count(history, services) ==
    [ i \in DOMAIN history |->
        IF history[i].allowed >= 0
           /\ \E j \in DOMAIN services : services[j].instance_id = history[i].instance_id
        THEN [ history[i] EXCEPT !.announced = @ + 1 ]
        ELSE history[i] ]

\* nan_handle_discovery_window: buffered follow-ups leave before the announcement.
DiscoveryWindow(n) ==
    LET frames == WindowFrames(node[n], n) IN
    /\ Idle(node[n])
    /\ \A m \in Device \ {n} : Len(inbox[m]) + Len(frames) <= MaxQueue
    /\ inbox' = [ m \in Device |-> IF m = n THEN inbox[m] ELSE inbox[m] \o frames ]
    /\ node' = [ node EXCEPT ![n] = AfterWindow(@) ]
    /\ created' = [ created EXCEPT ![n] = Count(@, nan_get_services_to_announce(node[n])) ]

Receive(n) ==
    /\ Idle(node[n])
    /\ inbox[n] # <<>>
    /\ node' = [ node EXCEPT ![n].todo = Head(inbox[n]) ]
    /\ inbox' = [ inbox EXCEPT ![n] = Tail(@) ]
    /\ UNCHANGED created

Handle(n) ==
    /\ node[n].event = NoEvent
    /\ node[n].todo # <<>>
    /\ node' = [ node EXCEPT ![n] = HandleDescriptor(@, n) ]
    /\ UNCHANGED <<inbox, created>>

Call(n) ==
    /\ node[n].event # NoEvent
    /\ node' = [ node EXCEPT ![n] = CallListener(@, n) ]
    /\ UNCHANGED <<inbox, created>>

\* A frame that is lost, or one that fails to parse and is ignored whole
Lose(n) ==
    /\ MayLose
    /\ inbox[n] # <<>>
    /\ inbox' = [ inbox EXCEPT ![n] = Tail(@) ]
    /\ UNCHANGED <<node, created>>

Command(n) ==
    \E name \in Name :
        \/ \E offer \in Offers : Publish(n, name, offer)
        \/ \E want \in Wants : Subscribe(n, name, want)

Next ==
    \E n \in Device :
        Command(n) \/ DiscoveryWindow(n) \/ Receive(n) \/ Handle(n) \/ Call(n) \/ Lose(n)

Spec == Init /\ [][Next]_vars

(***************************************************************************)
(* A handler runs to its end, a captured frame is read, and a discovery    *)
(* window opens again and again: the event loop serves its expired timers  *)
(* however many frames arrive, which is more than weak fairness as a       *)
(* device that handles a frame cannot open its window.                     *)
(***************************************************************************)
Fairness ==
    \A n \in Device :
        /\ WF_vars(Receive(n)) /\ WF_vars(Handle(n)) /\ WF_vars(Call(n))
        /\ SF_vars(DiscoveryWindow(n))

FairSpec == Spec /\ Fairness

----------------------------------------------------------------------------
(* Properties. *)

(***************************************************************************)
(* Ranges of the services, listeners, frames and of the dispatch.          *)
(***************************************************************************)
TypeOK ==
    /\ DOMAIN node = Device
    /\ \A n \in Device :
         LET d == node[n] IN
         /\ d.published \in Seq(Service) /\ d.subscribed \in Seq(Service)
         /\ d.last_instance_id \in 0..(IdMod - 1)
         /\ d.listeners \in Seq(Listener)
         /\ d.buffer \in Seq(Frame) /\ Len(d.buffer) <= BufferSize
         /\ d.todo \in Frame
         /\ d.event \in Event \cup {NoEvent}
         /\ d.next \in Freed .. Len(d.listeners)
    /\ inbox \in [Device -> Seq(Frame)]

(***************************************************************************)
(* A listener removes entries of the list that nan_dispatch_event walks:   *)
(* the iterator never stands on an entry that has been freed.              *)
(***************************************************************************)
IteratorIsLive == \A n \in Device : node[n].next # Freed

(***************************************************************************)
(* The listeners' removal by function may take another service's listener, *)
(* yet the books stay balanced: after any sequence of commands, results    *)
(* and follow-ups there is one listener for each service.                  *)
(***************************************************************************)
OneListenerPerService ==
    \A n \in Device :
        Len(node[n].listeners) = Len(node[n].published) + Len(node[n].subscribed)

(***************************************************************************)
(* A service with a limited time to live has been announced exactly as     *)
(* often as its time to live has gone down, and never more often than its  *)
(* user allowed, whatever was received in between.                         *)
(***************************************************************************)
AnnouncedAsAllowed ==
    \A n \in Device : \A i \in DOMAIN created[n] :
        LET c == created[n][i] IN
        c.allowed >= 0 =>
            /\ c.announced <= c.allowed
            /\ \A list \in {node[n].published, node[n].subscribed} :
                 \A j \in DOMAIN list :
                    list[j].instance_id = c.instance_id =>
                        list[j].time_to_live = c.allowed - c.announced

\* The follow-ups in a sequence of frames
FollowUpsIn(frames) ==
    { d \in UNION { ToSet(frames[i]) : i \in DOMAIN frames } : d.control = "FOLLOW_UP" }

Had(n, id, i) ==
    \E k \in DOMAIN created[n] :
        created[n][k].service_id = id /\ created[n][k].instance_id = i

(***************************************************************************)
(* A follow-up names, with the sender's instance id, a service the sender  *)
(* had and, with the requestor's, one that its receiver had, both of the   *)
(* follow-up's service id, though both may be gone when it arrives.        *)
(***************************************************************************)
FollowUpsAreAddressed ==
    \A n \in Device :
        \A f \in FollowUpsIn(node[n].buffer) \cup FollowUpsIn(inbox[n]) :
            /\ Had(f.from, f.service_id, f.instance_id)
            /\ Had(f.to, f.service_id, f.requestor_instance_id)

\* The services of n that a step takes away
Ended(n) ==
    { s \in ToSet(node[n].published) \cup ToSet(node[n].subscribed) :
        ~\E list \in {node'[n].published, node'[n].subscribed} :
            \E j \in DOMAIN list :
                list[j].name = s.name /\ list[j].instance_id = s.instance_id }

(***************************************************************************)
(* A service ends only by an event for this very service, though several   *)
(* listeners, of services with a name it starts with too, run for it.      *)
(***************************************************************************)
EndsOnlyWhenAddressed ==
    [][ \A n \in Device : \A s \in Ended(n) :
            /\ node[n].event.event = "RECEIVE"
            /\ node[n].event.service_name = s.name ]_vars

(***************************************************************************)
(* A listener is called only for events of its own service, as event.c     *)
(* says ("Trigger event only for specific service").                       *)
(***************************************************************************)
CalledForOwnService ==
    \A n \in Device :
        LET k == NextListener(node[n]) IN
        k # 0 => node[n].listeners[k].service_name = node[n].event.service_name

Publishes(n, x) == \E i \in DOMAIN node[n].published : node[n].published[i].name = x
Seeks(n, x) ==
    /\ \E i \in DOMAIN node[n].subscribed : node[n].subscribed[i].name = x
    /\ \E i \in DOMAIN node[n].listeners :
          node[n].listeners[i] = [ event |-> "DISCOVERY_RESULT", service_name |-> x ]

(***************************************************************************)
(* If no frame is lost, a service that one device publishes and another    *)
(* seeks is found: its publisher hears the subscriber's follow-up and      *)
(* stops publishing.                                                       *)
(***************************************************************************)
Discovered ==
    \A n, m \in Device, x \in Name :
        n # m /\ Publishes(n, x) /\ Seeks(m, x) ~> ~Publishes(n, x)
=============================================================================

---------------------------- MODULE EventHandler ----------------------------
(***************************************************************************)
(* From the configuration to the handlers: which providers are enabled,    *)
(* which routes are registered, and what the callbacks do with an event.   *)
(*                                                                         *)
(* NewEventHandler registers the routes of every handler, attaches the     *)
(* collectors of the groups that are enabled, and only then are sessions   *)
(* started: a temporary one, read by the second-stage callback alone, for  *)
(* the SystemConfig events, and then the kernel session with the flags of  *)
(* the enabled groups, read by both callbacks, beside the manifest session *)
(* of the session watcher.  The routes are an unsynchronised map.          *)
(*                                                                         *)
(* On Windows 11 nothing is captured and there is no kernel session: the   *)
(* system providers of the groups are meant to take its place.  But the    *)
(* list that they are appended to is a new variable of the inner block,    *)
(* and the loop behind it enables the outer list, without them.            *)
(*                                                                         *)
(* An event is a pair of the provider and the opcode by which it is        *)
(* routed; opcodes that share a handler are one.  What the events of the   *)
(* system configuration say is kept in SysConfCollector.                   *)
(***************************************************************************)
EXTENDS Naturals, Functions, SysConfCollector

CONSTANTS
    Groups,     \* provider groups that the configuration may enable
    NoHandler,  \* no handler
    MaxEvents   \* bound on the events that follow the first start of a
                \* process and of a thread

AllGroups == {"disk_io", "threadcs", "perfinfo", "network", "memory",
              "registry"}
ASSUME HandlerAssumption == Groups \subseteq AllGroups /\ MaxEvents \in Nat

VARIABLES
    modern,          \* whether this is Windows 11
    enabledGroups,   \* the groups of the configuration that are enabled
    sessionWatcher,  \* whether it is
    routeMap,        \* event -> its handler and how it takes events
    registered,      \* handlers that have registered their routes
    collectors,      \* groups whose collector is attached to its handler
    phase,           \* "setup", "capture", "captured" or "running"
    counters,        \* provider -> events counted
    handled,         \* handler -> event -> times it worked on it
    panicked,        \* a handler has used a collector that is not there
    known,           \* of the process and thread of the events, what the
                     \* state manager has been told
    begun,           \* of the process and thread, what the session has sent
    happened,        \* event -> number of them
    arrived,         \* provider -> number of its events
    reported         \* the disks <<d>> and volumes <<d, p>> of the events

counts == <<counters, handled, panicked, known>>
setup == <<modern, enabledGroups, sessionWatcher>>
routing == <<setup, routeMap, registered, collectors>>
sent == <<happened, arrived, reported>>
handlersVars == <<routing, phase, counts, begun, sent, sysconf>>

(* Events, handlers and groups.                                            *)

ProcessStart == <<"Process", 1>>
ThreadStart == <<"Thread", 1>>
CSwitch == <<"Thread", 36>>
RegistryOp == <<"Registry", 10>>
SessionStop == <<"EventTracing", 11>>
PhysicalDisk == <<"SystemConfig", 11>>
LogicalDisk == <<"SystemConfig", 12>>

\* RegisterRoutes of each handler, and RegisterWatcherRoutes.
Prepared == {"process", "image", "sysconfig", "watcher"}
Routed == Prepared \union {"thread", "disk", "perfinfo", "network", "memory"}
RoutesOf == [h \in Routed |->
    CASE h = "process" -> {ProcessStart, <<"Process", 2>>}
      [] h = "image" -> {<<"Image", 10>>, <<"Image", 2>>}
      [] h = "sysconfig" -> {PhysicalDisk, LogicalDisk, <<"SystemConfig", 15>>}
      [] h = "thread" -> {ThreadStart, <<"Thread", 2>>, <<"Thread", 50>>, CSwitch}
      [] h = "disk" -> {<<"Disk", 10>>, <<"Disk", 11>>, <<"Disk", 14>>}
      [] h = "perfinfo" -> {<<"PerfInfo", 67>>, <<"PerfInfo", 68>>}
      [] h = "network" -> {<<"TcpIp", 10>>, <<"TcpIp", 11>>, <<"UdpIp", 42>>}
      [] h = "memory" -> {<<"PageFault", 32>>}
      [] h = "watcher" -> {SessionStop}]
Handlers == Routed \union {"registry"}
ASSUME NoHandlerAssumption == NoHandler \notin Handlers
Events == {RegistryOp} \union UNION {RoutesOf[h] : h \in Routed}
Providers == {e[1] : e \in Events}

\* The collector that a handler works for, if any.
Collecting == Handlers \ Prepared
GroupOf == [h \in Collecting |->
    CASE h = "thread" -> "threadcs" [] h = "disk" -> "disk_io" [] OTHER -> h]

\* Handlers that use their collector without asking whether it is there.
Trusting == {"network", "memory"}

\* AllProviderGroups: the kernel flags of a group.
Correlation == {"PROCESS", "IMAGE_LOAD"}
FlagsOf(group) ==
    CASE group = "disk_io" -> {"DISK_IO", "THREAD"} \union Correlation
      [] group = "threadcs" -> {"CSWITCH", "THREAD", "DISPATCHER"}
                                    \union Correlation
      [] group = "perfinfo" -> {"INTERRUPT", "DPC", "IMAGE_LOAD", "CSWITCH"}
      [] group = "network" -> {"NETWORK_TCPIP"} \union Correlation
      [] group = "memory" -> {"MEMORY_HARD_FAULTS", "THREAD"}
                                    \union Correlation
      [] group = "registry" -> {"REGISTRY"} \union Correlation

\* What Windows sends to a session with a flag.
EventsOf(flag) ==
    CASE flag = "PROCESS" -> RoutesOf["process"]
      [] flag = "IMAGE_LOAD" -> RoutesOf["image"]
      [] flag = "THREAD" -> {ThreadStart, <<"Thread", 2>>}
      [] flag = "DISPATCHER" -> {<<"Thread", 50>>}
      [] flag = "CSWITCH" -> {CSwitch}
      [] flag = "DISK_IO" -> RoutesOf["disk"]
      [] flag = "INTERRUPT" -> {<<"PerfInfo", 67>>}
      [] flag = "DPC" -> {<<"PerfInfo", 68>>}
      [] flag = "NETWORK_TCPIP" -> RoutesOf["network"]
      [] flag = "MEMORY_HARD_FAULTS" -> RoutesOf["memory"]
      [] flag = "REGISTRY" -> {RegistryOp}

\* mutants: threads are left to the threadcs group, or the flags of all groups
\* are combined
GetEnabledKernelFlags_NoThread(enabled) ==
    {f \in UNION {FlagsOf(g) : g \in enabled} :
        f = "THREAD" => "threadcs" \in enabled}
GetEnabledKernelFlags_All(enabled) == UNION {FlagsOf(g) : g \in Groups}

\* GetEnabledKernelFlags.
GetEnabledKernelFlags(enabled) == UNION {FlagsOf(g) : g \in enabled}

\* setupSessions: the flags of the kernel session.
SessionFlags == IF modern THEN {} ELSE GetEnabledKernelFlags(enabledGroups)

\* What the kernel session and that of the watcher receive; a kernel session
\* that is stopped, to be restarted or not, ends with the system configuration.
Streams ==
    (IF SessionFlags # {} THEN RoutesOf["sysconfig"] ELSE {})
    \union (IF sessionWatcher THEN {SessionStop} ELSE {})
    \union UNION {EventsOf(f) : f \in SessionFlags}

\* What the sessions of a phase receive.
Received ==
    CASE phase = "capture" -> EventsOf("PROCESS") \union RoutesOf["sysconfig"]
      [] phase = "running" -> Streams
      [] OTHER -> {}

HandlersInit ==
    /\ modern \in BOOLEAN
    /\ enabledGroups \in SUBSET Groups /\ sessionWatcher \in BOOLEAN
    /\ routeMap = [e \in Events |-> NoHandler]
    /\ registered = {} /\ collectors = {}
    /\ phase = "setup"
    /\ counters = [p \in Providers |-> 0]
    /\ handled = [h \in Handlers |-> [e \in Events |-> 0]]
    /\ panicked = FALSE /\ known = {} /\ begun = {}
    /\ happened = [e \in Events |-> 0] /\ arrived = [p \in Providers |-> 0]
    /\ reported = {}
    /\ SysConfInit

-----------------------------------------------------------------------------
(* NewEventHandler and setupETW.                                           *)

RegistrationOrder == <<"process", "image", "sysconfig", "thread", "disk",
                       "perfinfo", "network", "memory">>
AttachOrder == <<"disk_io", "threadcs", "perfinfo", "network", "memory",
                 "registry">>

\* It is the turn of the first one that is not done.
Turn(x, order, done) ==
    \E i \in DOMAIN order : /\ order[i] = x /\ x \notin done
                           /\ \A j \in 1..(i - 1) : order[j] \in done

AddRoutes(h) == [e \in Events |-> IF e \in RoutesOf[h] THEN h ELSE routeMap[e]]

\* Every handler but that of the registry, whether its group is enabled or
\* not, and before any collector.
RegisterRoutes(h) ==
    /\ phase = "setup" /\ Turn(h, RegistrationOrder, registered)
    /\ routeMap' = AddRoutes(h)
    /\ registered' = registered \union {h}
    /\ UNCHANGED <<setup, collectors, phase, counts, begun, sent, sysconf>>

AllRegistered == Range(RegistrationOrder) \subseteq registered

\* The collector of disks also wants the disks of the system configuration.
AttachCollector(g) ==
    /\ phase = "setup" /\ AllRegistered
    /\ g \in enabledGroups
    /\ Turn(g, AttachOrder, collectors \union (Groups \ enabledGroups))
    /\ collectors' = collectors \union {g}
    /\ IF g = "disk_io" THEN RequestMetrics(Metrics) ELSE UNCHANGED sysconf
    /\ UNCHANGED <<setup, routeMap, registered, phase, counts, begun, sent>>

\* NewEventHandler returns when all of them are attached.
Ready == AllRegistered /\ collectors = enabledGroups
BeginCapture ==
    /\ phase = "setup" /\ Ready /\ ~modern
    /\ phase' = "capture"
    /\ begun' = {}
    /\ UNCHANGED <<routing, counts, sent, sysconf>>

EndCapture ==
    /\ phase = "capture"
    /\ phase' = "captured"
    /\ begun' = {}
    /\ UNCHANGED <<routing, counts, sent, sysconf>>

\* Windows 11 has a provider for what is captured here.
SkipCapture ==
    /\ phase = "setup" /\ Ready /\ modern
    /\ phase' = "captured"
    /\ UNCHANGED <<routing, counts, begun, sent, sysconf>>

\* The watcher's route is added between the two sessions.
WatcherTime == phase = "captured"
RegisterWatcherRoutes ==
    /\ WatcherTime /\ sessionWatcher /\ "watcher" \notin registered
    /\ routeMap' = AddRoutes("watcher")
    /\ registered' = registered \union {"watcher"}
    /\ UNCHANGED <<setup, collectors, phase, counts, begun, sent, sysconf>>

Watched == sessionWatcher => "watcher" \in registered
Start ==
    /\ phase = "captured" /\ Watched
    /\ phase' = "running"
    /\ begun' = {}
    /\ UNCHANGED <<routing, counts, sent, sysconf>>

-----------------------------------------------------------------------------
(* The callbacks.                                                          *)

\* mutant: the fast path for context switches stops at the thread handler
FirstStage_OneHandler(e) ==
    CASE e = CSwitch -> {"thread"}
      [] e = RegistryOp -> {"registry"}
      [] OTHER -> {routeMap[e]} \ (Prepared \union {NoHandler})

\* The handlers that the first stage hands an event to: both of those that
\* need context switches, the registry handler, or that of a raw route.
FirstStage(e) ==
    CASE e = CSwitch -> {"thread", "perfinfo"}
      [] e = RegistryOp -> {"registry"}
      [] OTHER -> {routeMap[e]} \ (Prepared \union {NoHandler})

\* RouteEvent: a prepared route, or nothing for an event with a raw one.
SecondStage(e) == {routeMap[e]} \intersect Prepared

GoesOn_Always(e) == TRUE   \* mutant: also an event that was handled

\* The first stage says whether the event goes on to the second.
GoesOn(e) == FirstStage(e) = {}

\* A raw event is counted in the first stage, any other in the second.
TimesCounted(e) ==
    (IF phase = "running" /\ FirstStage(e) # {} THEN 1 ELSE 0)
    + (IF phase = "capture" \/ GoesOn(e) THEN 1 ELSE 0)
HandlersOf(e) ==
    (IF phase = "running" THEN FirstStage(e) ELSE {})
    \union (IF phase = "capture" \/ GoesOn(e) THEN SecondStage(e) ELSE {})

\* What a handler needs its collector for, but for the thread handler, which
\* keeps the table of threads as well.
HasCollector(h) == h \notin Collecting \/ GroupOf[h] \in collectors
Works(h) == HasCollector(h)
Panics(h) == h \in Trusting /\ ~HasCollector(h)

Learned(e) ==
    CASE e = ProcessStart /\ "process" \in HandlersOf(e) -> {"process"}
      [] e = ThreadStart /\ "thread" \in HandlersOf(e) -> {"thread"}
      [] OTHER -> {}

\* Windows sends the start of a process before that of its threads, or the
\* rundown of what there is when a session starts, and then the rest.
Follows(e) ==
    CASE e = ProcessStart -> {}
      [] e = ThreadStart -> {ProcessStart} \intersect Received
      [] OTHER -> {ProcessStart, ThreadStart} \intersect Received
Total(f) == FoldFunction(+, 0, f)
Bounded(e) ==
    \/ e \in {ProcessStart, ThreadStart} \ begun
    \/ Total([d \in Events \ {ProcessStart, ThreadStart} |-> happened[d]])
            < MaxEvents /\ e \notin {ProcessStart, ThreadStart}

\* What the handler of the system configuration does with an event.
Configure(e) ==
    CASE e = PhysicalDisk /\ "sysconfig" \in HandlersOf(e) ->
            \E d \in Disks : /\ AddPhysicalDisk(d)
                             /\ reported' = reported \union {<<d>>}
      [] e = LogicalDisk /\ "sysconfig" \in HandlersOf(e) ->
            \E v \in Volumes : /\ AddLogicalDisk(v)
                               /\ reported' = reported \union {v}
      [] OTHER -> UNCHANGED <<reported, sysconf>>

\* EventRecordCallback and RouteEvent.
Event(e) ==
    /\ ~panicked /\ e \in Received
    /\ Follows(e) \subseteq begun /\ Bounded(e)
    /\ begun' = begun \union ({e} \intersect {ProcessStart, ThreadStart})
    /\ happened' = [happened EXCEPT ![e] = @ + 1]
    /\ arrived' = [arrived EXCEPT ![e[1]] = @ + 1]
    /\ counters' = [counters EXCEPT ![e[1]] = @ + TimesCounted(e)]
    /\ handled' = [h \in Handlers |->
            IF h \in HandlersOf(e) /\ Works(h)
            THEN [handled[h] EXCEPT ![e] = @ + 1] ELSE handled[h]]
    /\ panicked' = \E h \in HandlersOf(e) : Panics(h)
    /\ known' = known \union Learned(e)
    /\ Configure(e)
    /\ UNCHANGED <<routing, phase>>

\* The bound on events is used up.
Waiting ==
    /\ phase = "running"
    /\ \A e \in Received : Follows(e) \subseteq begun => ~Bounded(e)
    /\ UNCHANGED handlersVars

HandlersNext ==
    \/ \E h \in Routed : RegisterRoutes(h)
    \/ \E g \in Groups : AttachCollector(g)
    \/ BeginCapture \/ EndCapture \/ SkipCapture
    \/ RegisterWatcherRoutes \/ Start
    \/ \E e \in Events : Event(e)
    \/ Waiting

HandlersSpec == HandlersInit /\ [][HandlersNext]_handlersVars

-----------------------------------------------------------------------------
(* Properties.                                                             *)

\* A route leads to a handler that has registered, and a collector is
\* attached only if it is enabled.
HandlersTypeOK ==
    /\ enabledGroups \subseteq Groups /\ collectors \subseteq enabledGroups
    /\ sessionWatcher \in BOOLEAN /\ panicked \in BOOLEAN
    /\ routeMap \in [Events -> registered \union {NoHandler}]
    /\ registered \subseteq Routed
    /\ phase \in {"setup", "capture", "captured", "running"}
    /\ counters \in [Providers -> Nat]
    /\ handled \in [Handlers -> [Events -> Nat]]
    /\ known \subseteq {"process", "thread"}
    /\ begun \subseteq {ProcessStart, ThreadStart}
    /\ happened \in [Events -> Nat] /\ arrived \in [Providers -> Nat]
    /\ modern \in BOOLEAN
    /\ reported \subseteq Volumes \union {<<d>> : d \in Disks}
    /\ physicalDisks \subseteq Disks
    /\ logicalDisks \in [Disks -> Partitions \union {NoVolume}]
    /\ requestedMetrics \subseteq Metrics /\ described \subseteq Metrics

\* What the metrics of a collector are about.
About == [g \in AllGroups |->
    CASE g = "disk_io" -> {e \in Events : e[1] = "Disk"}
      [] g = "threadcs" -> {e \in Events : e[1] = "Thread"}
      [] g = "perfinfo" -> {e \in Events : e[1] = "PerfInfo"} \union {CSwitch}
      [] g = "network" -> {e \in Events : e[1] \in {"TcpIp", "UdpIp"}}
      [] g = "memory" -> {e \in Events : e[1] = "PageFault"}
      [] g = "registry" -> {e \in Events : e[1] = "Registry"}]

\* Whatever groups are enabled together, each collector is handed every event
\* that its metrics are about, once, and no other: not the events that a
\* session receives for another group, and none when it is disabled
\* (EventRecordCallback, RouteEvent, the routes of the handlers).
NothingMisrouted ==
    \A h \in Collecting, e \in Events :
        handled[h][e] =
            IF GroupOf[h] \in enabledGroups /\ e \in About[GroupOf[h]]
            THEN happened[e] ELSE 0

\* On Windows 10 the flags of a group make Windows send every event that its
\* metrics are about, although the group be the only one that is enabled
\* (AllProviderGroups, GetEnabledKernelFlags).  On Windows 11 no group is fed
\* at all (setupSessions).
EventsReceived ==
    phase = "running" /\ ~modern
        => \A g \in enabledGroups : About[g] \subseteq Received

\* Some collectors find the process of an event by its thread, others by its
\* pid.
LooksUp(h) ==
    CASE h \in {"disk", "thread", "memory"} -> {"process", "thread"}
      [] h \in {"network", "registry"} -> {"process"}
      [] OTHER -> {}

\* A collector never works on an event before the state manager was told of
\* the process, and the thread, that the event has to be attributed to: the
\* flags of its group bring those events, and there are routes for them.
ProcessesKnown ==
    \A h \in Collecting :
        (\E e \in Events \ {ProcessStart, ThreadStart} : handled[h][e] > 0)
            => LooksUp(h) \subseteq known

\* A group that is enabled on its own has all that its metrics take: their
\* events, and before them the processes and threads to attribute them to.
GroupSuffices == EventsReceived /\ ProcessesKnown

\* An event counts once for its provider, whichever of the two stages it is
\* handled in, and also in the capture session, which has only the second
\* (etw_stat_handler_events_received_total).
CountedOnce == \A p \in Providers : counters[p] = arrived[p]

\* No event of the network or of memory reaches its handler, which does not
\* check, before the collector is attached or when there is none.
NoNilCollector == ~panicked

\* The information about disks is exported exactly if the metrics of disks
\* are enabled, under descriptions that Prometheus was given, although the
\* events come after the registration, in a session that is read by one
\* callback only, and again when a session is restarted: once for every disk
\* that an event told of, and for one volume, that an event told of, of every
\* disk with volumes (RequestMetrics, AddLogicalDisk, Collect).
DiskInfoServed ==
    LET asked == "disk_io" \in collectors
        Of(disk, volumes) == {v \in volumes : v[1] = disk}
    IN  /\ described = IF asked THEN Metrics ELSE {}
        /\ PhysicalSeries = IF asked THEN {d \in Disks : <<d>> \in reported}
                            ELSE {}
        /\ LogicalSeries \subseteq reported
        /\ \A d \in Disks :
                Cardinality(Of(d, LogicalSeries)) =
                    IF asked /\ Of(d, reported \intersect Volumes) # {}
                    THEN 1 ELSE 0
=============================================================================

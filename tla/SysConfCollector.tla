-------------------------- MODULE SysConfCollector --------------------------
(***************************************************************************)
(* The collector of the system configuration: what the SystemConfig events *)
(* said of the disks, and which of its two metrics somebody has requested. *)
(*                                                                         *)
(* Its two maps are keyed by the number of a disk, so a volume replaces    *)
(* the volume of the same disk that came before it.  It registers itself   *)
(* with Prometheus once, when a metric is first requested, and Prometheus  *)
(* asks it at that moment which metrics it has.  Every operation holds the *)
(* mutex, but for the registration, whose Describe takes it again.         *)
(***************************************************************************)
EXTENDS Naturals, FiniteSets

CONSTANTS
    Disks,       \* numbers of disks
    Partitions,  \* what distinguishes the volumes of a disk: letter, system
    NoVolume     \* no entry for a disk

ASSUME NoVolumeAssumption == NoVolume \notin Partitions

Metrics == {"disk_physical_info", "disk_logical_info"}
Volumes == Disks \X Partitions

VARIABLES
    physicalDisks,     \* disks with an entry
    logicalDisks,      \* disk -> the partition of its entry
    requestedMetrics,
    isRegistered,      \* registerOnce is done
    described          \* the metrics that Describe gave to Prometheus

sysconf == <<physicalDisks, logicalDisks, requestedMetrics, isRegistered,
             described>>

\* NewSystemConfigCollector.
SysConfInit ==
    /\ physicalDisks = {} /\ logicalDisks = [d \in Disks |-> NoVolume]
    /\ requestedMetrics = {} /\ isRegistered = FALSE /\ described = {}

\* HandleSystemConfigPhyDisk.
AddPhysicalDisk(disk) ==
    /\ physicalDisks' = physicalDisks \union {disk}
    /\ UNCHANGED <<logicalDisks, requestedMetrics, isRegistered, described>>

\* HandleSystemConfigLogDisk.
AddLogicalDisk(volume) ==
    /\ logicalDisks' = [logicalDisks EXCEPT ![volume[1]] = volume[2]]
    /\ UNCHANGED <<physicalDisks, requestedMetrics, isRegistered, described>>

\* The metrics that the collector says it has.
Describe == {m \in Metrics : m \in requestedMetrics}

\* mutant: the collector registers before it notes what was asked
RequestMetrics_RegisterFirst(names) ==
    /\ requestedMetrics' = requestedMetrics \union names
    /\ isRegistered' = TRUE
    /\ described' = IF isRegistered THEN described ELSE Describe
    /\ UNCHANGED <<physicalDisks, logicalDisks>>

\* The request is noted, and after that a collector that is not registered
\* is described by all that has been requested.
RequestMetrics(names) ==
    LET needsRegister == ~(names \subseteq requestedMetrics) /\ ~isRegistered
    IN  /\ requestedMetrics' = requestedMetrics \union names
        /\ isRegistered' = (isRegistered \/ needsRegister)
        /\ described' = IF needsRegister THEN Describe' ELSE described
        /\ UNCHANGED <<physicalDisks, logicalDisks>>

\* Collect, for a collector that Prometheus knows: the series of a scrape.
PhysicalSeries ==
    IF isRegistered /\ "disk_physical_info" \in requestedMetrics
    THEN physicalDisks ELSE {}
LogicalSeries ==
    IF isRegistered /\ "disk_logical_info" \in requestedMetrics
    THEN {v \in Volumes : logicalDisks[v[1]] = v[2]} ELSE {}
=============================================================================

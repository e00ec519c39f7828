----------------------------- MODULE Lifecycle -----------------------------
(***************************************************************************)
(* The life of the device in pcie-driver/mymodule.c: az_probe with the     *)
(* error paths it has, do_reg_dev, az_remove, and programs that open the   *)
(* character device, allocate buffers and leave descriptors in the FPGA.   *)
(*                                                                         *)
(* Kernel resources are names in held; repeated acquisitions of one are    *)
(* not counted.  Removing the module waits for the open files (fops.owner), *)
(* unbinding the device does not.                                          *)
(***************************************************************************)
EXTENDS Naturals, Sequences

CONSTANT MaxFiles       \* bound on the open files

VARIABLES
    pc,         \* the next step of az_probe, "remove", or a resting place:
                \* "unloaded", "unbound", "bound", "oops" after a NULL dereference
    left,       \* what az_remove has still to release
    held,       \* resources acquired and not released
    misused,    \* resources released while they were not held
    d,          \* the global d: whether it is set
    whole,      \* no step of the last az_probe failed
    unload,     \* az_remove runs for the removal of the module
    files,      \* open files
    bufs,       \* buffers of d: "none", "held", "freed"; "lost" with an older d
    armed       \* descriptors in the FPGA: "none", "current"; "stale": of freed memory

vars == <<pc, left, held, misused, d, whole, unload, files, bufs, armed>>
removeVars == <<left, misused, unload>>
userVars == <<files, bufs, armed>>

DeviceFile == {"chrdev", "class", "device", "cdev"}

Init ==
    /\ pc = "unloaded" /\ left = <<>>
    /\ held = {} /\ misused = {}
    /\ d = FALSE
    /\ whole = FALSE /\ unload = FALSE
    /\ files = 0 /\ bufs = "none" /\ armed = "none"

-----------------------------------------------------------------------------
(***************************************************************************)
(* az_probe.                                                               *)
(***************************************************************************)
\* insmod, with fresh static variables, or the device is bound again.
Probe ==
    /\ \/ pc = "unloaded" /\ d' = FALSE
       \/ pc = "unbound" /\ UNCHANGED d
    /\ pc' = "enable"
    /\ whole' = TRUE /\ misused' = {}
    /\ UNCHANGED <<held, left, unload, userVars>>

\* Step s succeeds and acquires the resources rs.
Acquire(s, rs, next) ==
    /\ pc = s /\ pc' = next
    /\ held' = held \cup rs
    /\ UNCHANGED <<removeVars, d, whole, userVars>>

\* Step s fails: az_probe releases rs and returns 0 or an error.
Abort(s, rs, returns0) ==
    /\ pc = s /\ pc' = IF returns0 THEN "bound" ELSE "unbound"
    /\ held' = held \ rs
    /\ whole' = FALSE
    /\ UNCHANGED <<removeVars, d, userVars>>

\* The labels at the end of az_probe.
err_disable_pdev == {"enabled", "master"}
err_free_res == err_disable_pdev \cup {"regions"}
err_unmap1 == err_free_res \cup {"bar0", "bar1"}

EnableDevice ==
    \/ Acquire("enable", {"enabled", "master"}, "dmaMask")
    \/ Abort("enable", {}, FALSE)

\* err still is the 0 of pci_enable_device.
SetDmaMask ==
    \/ Acquire("dmaMask", {}, "checkBar")
    \/ Abort("dmaMask", err_disable_pdev, TRUE)

CheckBar ==
    \/ Acquire("checkBar", {}, "request")
    \/ Abort("checkBar", err_disable_pdev, FALSE)

\* Regions that an earlier probe has not released are busy.
RequestRegions ==
    \/ "regions" \notin held /\ Acquire("request", {"regions"}, "mapBar0")
    \/ Abort("request", err_disable_pdev, FALSE)

\* err is the 0 of pci_request_regions.
MapBar0 ==
    \/ Acquire("mapBar0", {"bar0"}, "mapBar1")
    \/ Abort("mapBar0", err_free_res, TRUE)

\* The test that follows looks at bar0_addr again: a missing BAR 1 passes it.
MapBar1 ==
    /\ pc = "mapBar1" /\ pc' = "kzalloc"
    /\ \/ held' = held \cup {"bar1"} /\ UNCHANGED whole
       \/ whole' = FALSE /\ UNCHANGED held
    /\ UNCHANGED <<removeVars, d, userVars>>

\* d is assigned here and tested after the interrupt was requested.  What an
\* older d recorded is out of reach.
AllocDev ==
    /\ pc = "kzalloc" /\ pc' = "enableMsi"
    /\ \/ d' = TRUE /\ held' = held \cup {"node"} /\ UNCHANGED whole
       \/ d' = FALSE /\ whole' = FALSE /\ UNCHANGED held
    /\ bufs' = IF bufs = "held" THEN "lost" ELSE "none"
    /\ UNCHANGED <<removeVars, files, armed>>

\* MSI that is on already cannot be enabled.  A failure undoes nothing.
EnableMsi ==
    \/ "msi" \notin held /\ Acquire("enableMsi", {"msi"}, "requestIrq")
    \/ Abort("enableMsi", {}, FALSE)

RequestIrq ==
    \/ Acquire("requestIrq", {"irq"}, "testDev")
    \/ Abort("requestIrq", {"msi"}, FALSE)

TestDev ==
    \/ d /\ Acquire("testDev", {}, "regDev")
    \/ ~d /\ Abort("testDev", err_unmap1, FALSE)

\* do_reg_dev, whose result is not looked at.  Only alloc_chrdev_region fails in a way
\* it tests for; class, device and cdev may be missing in any combination in which a
\* device has its class.
RegDev ==
    /\ pc = "regDev" /\ pc' = "bound"
    /\ \E got \in {{}} \cup {{"chrdev"} \cup s : s \in SUBSET {"class", "device", "cdev"}} :
         /\ "device" \in got => "class" \in got
         /\ held' = held \cup got
         /\ whole' = (whole /\ got = DeviceFile)
    /\ UNCHANGED <<removeVars, d, userVars>>

-----------------------------------------------------------------------------
(***************************************************************************)
(* az_remove.                                                              *)
(***************************************************************************)
\* Mutant: r25, which freed the buffers first.
Removal_R25 ==
    <<"buffers", "irq", "msi", "cdev", "device", "class", "chrdev",
      "bar1", "bar0", "regions", "master", "enabled">>

\* Mutant: MSI is switched off under the handler.
Removal_MsiFirst ==
    <<"master", "msi", "irq", "buffers", "cdev", "device", "class", "chrdev",
      "bar1", "bar0", "regions", "enabled">>

\* Mutant: the BARs go before the device file.
Removal_BarsFirst ==
    <<"master", "irq", "msi", "buffers", "bar1", "bar0", "regions",
      "cdev", "device", "class", "chrdev", "enabled">>

\* Mutant: the regions stay requested.
Removal_KeepsRegions ==
    <<"master", "irq", "msi", "buffers", "cdev", "device", "class", "chrdev",
      "bar1", "bar0", "enabled">>

\* The order of az_remove.
Removal ==
    <<"master", "irq", "msi", "buffers", "cdev", "device", "class", "chrdev",
      "bar1", "bar0", "regions", "enabled">>

Remove ==
    /\ pc = "bound" /\ pc' = "remove"
    /\ left' = Removal
    /\ \/ unload' = FALSE
       \/ unload' = TRUE /\ files = 0
    /\ UNCHANGED <<held, misused, d, whole, userVars>>

Release ==
    /\ pc = "remove" /\ left # <<>> /\ Head(left) # "buffers"
    /\ held' = held \ {Head(left)}
    /\ misused' = misused \cup ({Head(left)} \ held)
    /\ left' = Tail(left)
    /\ UNCHANGED <<pc, unload, d, whole, userVars>>

\* The buffer of a descriptor is freed.
Stale(a) == IF a = "none" THEN "none" ELSE "stale"

\* free_node(d)
FreeBuffers ==
    /\ pc = "remove" /\ left # <<>> /\ Head(left) = "buffers"
    /\ pc' = IF d THEN "remove" ELSE "oops"
    /\ left' = Tail(left)
    /\ IF d /\ bufs = "held" THEN bufs' = "freed" /\ armed' = Stale(armed)
                              ELSE UNCHANGED <<bufs, armed>>
    /\ UNCHANGED <<held, misused, unload, d, whole, files>>

RemoveReturns ==
    /\ pc = "remove" /\ left = <<>>
    /\ pc' = IF unload THEN "unloaded" ELSE "unbound"
    /\ UNCHANGED <<held, removeVars, d, whole, userVars>>

\* rmmod with no device bound.
UnloadUnbound ==
    /\ pc = "unbound" /\ files = 0
    /\ pc' = "unloaded"
    /\ UNCHANGED <<held, removeVars, d, whole, userVars>>

-----------------------------------------------------------------------------
(***************************************************************************)
(* Programs, and the FPGA.                                                 *)
(***************************************************************************)
Running == pc \notin {"unloaded", "oops"}

\* A module that is going away is not opened any more.
Open ==
    /\ Running /\ "cdev" \in held /\ files < MaxFiles
    /\ ~(pc = "remove" /\ unload)
    /\ files' = files + 1
    /\ UNCHANGED <<pc, held, removeVars, d, whole, bufs, armed>>

\* az_release does nothing: the descriptors stay with the FPGA.
Close ==
    /\ Running /\ files > 0
    /\ files' = files - 1
    /\ UNCHANGED <<pc, held, removeVars, d, whole, bufs, armed>>

\* alloc_node: an index has the length asked for, or had none and gets its buffer.
Allocate == bufs' = "held" /\ UNCHANGED armed

\* An index has another length: its buffer is freed (a slice of the pool only given up)
\* and a new one taken, if there is one.  The FPGA may hold a descriptor of the old one.
Reallocate ==
    /\ bufs = "held" /\ bufs' \in {"held", "freed"}
    /\ armed' \in {armed, Stale(armed)}

\* az_ioctl, at any time while a file is open.  An allocation that fails with nothing
\* freed changes nothing.
Ioctl ==
    /\ Running /\ files > 0
    /\ IF d THEN (Allocate \/ Reallocate) /\ UNCHANGED pc
            ELSE pc' = "oops" /\ UNCHANGED <<bufs, armed>>
    /\ UNCHANGED <<held, removeVars, d, whole, files>>

\* libpcie gives descriptors to the FPGA through the mapped registers.
Arm ==
    /\ Running /\ files > 0 /\ bufs = "held" /\ armed = "none"
    /\ armed' = "current"
    /\ UNCHANGED <<pc, held, removeVars, d, whole, files, bufs>>

\* The FPGA writes the last of its buffers.
Finish ==
    /\ armed # "none" /\ "master" \in held
    /\ armed' = "none"
    /\ UNCHANGED <<pc, held, removeVars, d, whole, files, bufs>>

Oops == pc = "oops" /\ UNCHANGED vars

Next ==
    \/ Probe \/ EnableDevice \/ SetDmaMask \/ CheckBar \/ RequestRegions
    \/ MapBar0 \/ MapBar1 \/ AllocDev \/ EnableMsi \/ RequestIrq \/ TestDev \/ RegDev
    \/ Remove \/ Release \/ FreeBuffers \/ RemoveReturns \/ UnloadUnbound
    \/ Open \/ Close \/ Ioctl \/ Arm \/ Finish \/ Oops

Spec == Init /\ [][Next]_vars

-----------------------------------------------------------------------------
\* az_remove frees the buffers only when the FPGA cannot write any more and the handler
\* cannot run ("stop DMA and the IRQ before freeing buffers the FPGA may still hold
\* descriptors for"), whatever probe came before.  This is about az_remove: az_ioctl frees
\* a buffer it is asked to resize with both of them on.
RemoveStopsDmaFirst == [][FreeBuffers => {"master", "irq"} \cap held = {}]_vars

\* The handler never outlives the MSI it was requested for, on none of the paths
\* through az_probe, az_remove and the probes after a leak.
HandlerHasItsMsi == "irq" \in held => "msi" \in held

\* While the device file can be opened, what its operations rest on is there.
OpenableMeansMapped ==
    "cdev" \in held => {"enabled", "regions", "bar0", "node"} \subseteq held

\* A device that was probed without a failing step is removed without a trace,
\* each resource released once; only d itself is never freed.  Leaks of earlier
\* probes would show here: no later probe can succeed after one.
WholeCycleIsClean ==
    whole /\ pc \in {"unbound", "unloaded"} => held \subseteq {"node"} /\ misused = {}

\* "No suitable consistent DMA available", "Failed to map BAR 0": after these az_probe
\* gives up, so a device that is bound has its BAR and its handler.  It does not
\* hold: err is 0 on both paths, and the kernel takes the device as bound.
BoundMeansSetUp == pc = "bound" => {"regions", "bar0", "irq"} \subseteq held
=============================================================================

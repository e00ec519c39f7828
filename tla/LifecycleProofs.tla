--------------------------- MODULE LifecycleProofs ---------------------------
(***************************************************************************)
(* Lifecycle for any number of open files: every probe, whole or cut short, *)
(* every removal, and what the ones before left behind.                    *)
(***************************************************************************)
EXTENDS Lifecycle, SequenceTheorems, TLAPS

Resources == {"enabled", "master", "regions", "bar0", "bar1", "node", "msi", "irq"} \cup DeviceFile

Steps == {Removal[i] : i \in 1..12}

\* The steps of az_remove that are done, and those to do.
Gone == {Removal[i] : i \in 1 .. 12 - Len(left)}
Todo == {left[i] : i \in 1..Len(left)}

TypeOK == held \in SUBSET Resources /\ whole \in BOOLEAN /\ d \in BOOLEAN

\* az_probe from the step named on.
FromDmaMask == {"dmaMask", "checkBar", "request", "mapBar0", "mapBar1", "kzalloc",
                "enableMsi", "requestIrq", "testDev", "regDev"}
FromMapBar0 == FromDmaMask \ {"dmaMask", "checkBar", "request"}
FromKzalloc == FromMapBar0 \ {"mapBar0", "mapBar1"}

\* What az_probe holds at each step, whatever the last removal left.
Probed ==
    /\ pc \in FromDmaMask => {"enabled", "master"} \subseteq held
    /\ pc \in FromMapBar0 => "regions" \in held
    /\ pc \in FromMapBar0 \ {"mapBar0"} => "bar0" \in held
    /\ pc \in FromKzalloc /\ whole => "bar1" \in held
    /\ pc = "requestIrq" => "irq" \notin held
    /\ pc \in {"requestIrq", "testDev", "regDev"} => "msi" \in held
    /\ pc \in {"testDev", "regDev"} => "irq" \in held
    /\ pc = "regDev" => d
    /\ d => "node" \in held
    /\ pc \notin {"bound", "remove", "oops"} => held \cap DeviceFile = {}

\* What is left of az_remove is the end of its list; what is before it is gone.
Removed ==
    pc = "remove" =>
        /\ left \in Seq(Steps) /\ Len(left) <= 12
        /\ \A i \in 1..Len(left) : left[i] = Removal[12 - Len(left) + i]
        /\ held \cap Gone = {}

\* A whole probe leaves all az_remove will look for, and nothing it will not find.
Clean ==
    whole =>
        /\ misused = {}
        /\ pc = "bound" => Steps \ {"buffers"} \subseteq held
        /\ pc = "remove" => Todo \ {"buffers"} \subseteq held
        /\ pc \in {"unbound", "unloaded"} => held \subseteq {"node"}

IInv == TypeOK /\ Probed /\ Removed /\ Clean /\ HandlerHasItsMsi /\ OpenableMeansMapped

-----------------------------------------------------------------------------
\* The list of az_remove: twelve different entries, all of them resources but
\* one, and the order that matters.
LEMMA RemovalFacts ==
    /\ Removal \in [1..12 -> Steps] /\ Removal \in Seq(Steps) /\ Len(Removal) = 12
    /\ Steps = (Resources \ {"node"}) \cup {"buffers"}
    /\ \A i, j \in 1..12 : Removal[i] = Removal[j] => i = j
    /\ Removal[1] = "master" /\ Removal[2] = "irq" /\ Removal[3] = "msi"
    /\ Removal[4] = "buffers" /\ Removal[5] = "cdev"
    /\ Removal[10] = "bar0" /\ Removal[11] = "regions" /\ Removal[12] = "enabled"
<1>1. /\ Removal[1] = "master" /\ Removal[2] = "irq" /\ Removal[3] = "msi"
      /\ Removal[4] = "buffers" /\ Removal[5] = "cdev"
      /\ Removal[10] = "bar0" /\ Removal[11] = "regions" /\ Removal[12] = "enabled"
  BY DEF Removal
<1>4. \A i, j \in 1..12 : Removal[i] = Removal[j] => i = j
  BY DEF Removal
<1>2. Steps = (Resources \ {"node"}) \cup {"buffers"}
  BY DEF Removal, Steps, Resources, DeviceFile
<1>3. Removal \in [1..12 -> Steps] /\ Removal \in Seq(Steps) /\ Len(Removal) = 12
  BY DEF Removal, Steps
<1> QED BY <1>1, <1>2, <1>3, <1>4

\* The first state.
LEMMA InitIInv == Init => IInv
  BY DEF Init, IInv, TypeOK, Probed, Removed, Clean, HandlerHasItsMsi, OpenableMeansMapped,
         DeviceFile, FromDmaMask, FromMapBar0, FromKzalloc

\* The steps of az_probe acquire and release resources only.
LEMMA TypeStep == TypeOK /\ Removed /\ [Next]_vars => TypeOK'
<1> SUFFICES ASSUME TypeOK, Removed, [Next]_vars PROVE TypeOK'
  OBVIOUS
<1> USE DEF TypeOK, Acquire, Abort, removeVars, userVars, err_disable_pdev, err_free_res,
            err_unmap1
<1>1. CASE Probe BY <1>1 DEF Probe, Resources, DeviceFile
<1>2. CASE EnableDevice BY <1>2 DEF EnableDevice, Resources, DeviceFile
<1>3. CASE SetDmaMask BY <1>3 DEF SetDmaMask, Resources, DeviceFile
<1>4. CASE CheckBar BY <1>4 DEF CheckBar, Resources, DeviceFile
<1>5. CASE RequestRegions BY <1>5 DEF RequestRegions, Resources, DeviceFile
<1>6. CASE MapBar0 BY <1>6 DEF MapBar0, Resources, DeviceFile
<1>7. CASE MapBar1 BY <1>7 DEF MapBar1, Resources, DeviceFile
<1>8. CASE AllocDev BY <1>8 DEF AllocDev, Resources, DeviceFile
<1>9. CASE EnableMsi BY <1>9 DEF EnableMsi, Resources, DeviceFile
<1>10. CASE RequestIrq BY <1>10 DEF RequestIrq, Resources, DeviceFile
<1>11. CASE TestDev BY <1>11 DEF TestDev, Resources, DeviceFile
<1>12. CASE RegDev BY <1>12 DEF RegDev, Resources, DeviceFile
<1>13. CASE Remove BY <1>13 DEF Remove, Resources, DeviceFile
<1>14. CASE Release BY <1>14 DEF Release, Resources, DeviceFile
<1>15. CASE FreeBuffers BY <1>15 DEF FreeBuffers, Resources, DeviceFile
<1>16. CASE RemoveReturns BY <1>16 DEF RemoveReturns, Resources, DeviceFile
<1>17. CASE UnloadUnbound BY <1>17 DEF UnloadUnbound, Resources, DeviceFile
<1>18. CASE Open BY <1>18 DEF Open, Resources, DeviceFile
<1>19. CASE Close BY <1>19 DEF Close, Resources, DeviceFile
<1>20. CASE Ioctl BY <1>20 DEF Ioctl, Resources, DeviceFile
<1>21. CASE Arm BY <1>21 DEF Arm, Resources, DeviceFile
<1>22. CASE Finish BY <1>22 DEF Finish, Resources, DeviceFile
<1>23. CASE Oops BY <1>23 DEF Oops, vars
<1>24. CASE UNCHANGED vars BY <1>24 DEF vars
<1> QED
  BY <1>1, <1>2, <1>3, <1>4, <1>5, <1>6, <1>7, <1>8, <1>9, <1>10, <1>11, <1>12, <1>13, <1>14, <1>15, <1>16, <1>17, <1>18, <1>19, <1>20, <1>21, <1>22, <1>23, <1>24 DEF Next

\* Every step but those inside az_remove keeps what is known of the resources.
LEMMA StageStep ==
    IInv /\ Next /\ pc # "remove" =>
        Probed' /\ Removed' /\ Clean' /\ HandlerHasItsMsi' /\ OpenableMeansMapped'
<1> SUFFICES ASSUME IInv, Next, pc # "remove"
             PROVE  Probed' /\ Removed' /\ Clean' /\ HandlerHasItsMsi' /\ OpenableMeansMapped'
  OBVIOUS
<1> USE DEF IInv, TypeOK, Probed, Removed, Clean, HandlerHasItsMsi, OpenableMeansMapped,
            Acquire, Abort, removeVars, userVars, FromDmaMask, FromMapBar0, FromKzalloc
<1>1. CASE Probe BY <1>1 DEF Probe, DeviceFile, err_disable_pdev, err_free_res, err_unmap1
<1>2. CASE EnableDevice BY <1>2 DEF EnableDevice, DeviceFile, err_disable_pdev, err_free_res, err_unmap1
<1>3. CASE SetDmaMask BY <1>3 DEF SetDmaMask, DeviceFile, err_disable_pdev, err_free_res, err_unmap1
<1>4. CASE CheckBar BY <1>4 DEF CheckBar, DeviceFile, err_disable_pdev, err_free_res, err_unmap1
<1>5. CASE RequestRegions BY <1>5 DEF RequestRegions, DeviceFile, err_disable_pdev, err_free_res, err_unmap1
<1>6. CASE MapBar0 BY <1>6 DEF MapBar0, DeviceFile, err_disable_pdev, err_free_res, err_unmap1
<1>7. CASE MapBar1 BY <1>7 DEF MapBar1, DeviceFile, err_disable_pdev, err_free_res, err_unmap1
<1>8. CASE AllocDev BY <1>8 DEF AllocDev, DeviceFile, err_disable_pdev, err_free_res, err_unmap1
<1>9. CASE EnableMsi BY <1>9 DEF EnableMsi, DeviceFile, err_disable_pdev, err_free_res, err_unmap1
<1>10. CASE RequestIrq BY <1>10 DEF RequestIrq, DeviceFile, err_disable_pdev, err_free_res, err_unmap1
<1>11. CASE TestDev BY <1>11 DEF TestDev, DeviceFile, err_disable_pdev, err_free_res, err_unmap1
<1>12. CASE RegDev
  <2>1. /\ pc = "regDev" /\ pc' = "bound" /\ held \subseteq held'
        /\ UNCHANGED <<removeVars, d, userVars>>
        /\ whole' => whole /\ DeviceFile \subseteq held'
    BY <1>12 DEF RegDev
  <2>2. whole' => Steps \ {"buffers"} \subseteq held'
    BY <2>1, RemovalFacts DEF Resources, DeviceFile
  <2> QED BY <1>12, <2>1, <2>2 DEF RegDev, DeviceFile
<1>13. CASE Remove
  <2>1. pc = "bound" /\ pc' = "remove" /\ left' = Removal /\ UNCHANGED <<held, misused, d, whole>>
    BY <1>13 DEF Remove
  <2>2. Len(left') = 12 /\ left' \in Seq(Steps)
    BY <2>1, RemovalFacts
  <2>3. Gone' = {} /\ Todo' = Steps
    BY <2>1, <2>2 DEF Gone, Todo, Steps
  <2> QED BY <2>1, <2>2, <2>3, RemovalFacts
<1>14. CASE Release BY <1>14 DEF Release, DeviceFile, err_disable_pdev, err_free_res, err_unmap1
<1>15. CASE FreeBuffers BY <1>15 DEF FreeBuffers, DeviceFile, err_disable_pdev, err_free_res, err_unmap1
<1>16. CASE RemoveReturns BY <1>16 DEF RemoveReturns, DeviceFile, err_disable_pdev, err_free_res, err_unmap1
<1>17. CASE UnloadUnbound BY <1>17 DEF UnloadUnbound, DeviceFile, err_disable_pdev, err_free_res, err_unmap1
<1>18. CASE Open BY <1>18 DEF Open, DeviceFile, err_disable_pdev, err_free_res, err_unmap1
<1>19. CASE Close BY <1>19 DEF Close, DeviceFile, err_disable_pdev, err_free_res, err_unmap1
<1>20. CASE Ioctl BY <1>20 DEF Ioctl, DeviceFile, err_disable_pdev, err_free_res, err_unmap1
<1>21. CASE Arm BY <1>21 DEF Arm, DeviceFile, err_disable_pdev, err_free_res, err_unmap1
<1>22. CASE Finish BY <1>22 DEF Finish, DeviceFile, err_disable_pdev, err_free_res, err_unmap1
<1>23. CASE Oops BY <1>23 DEF Oops, vars
<1> QED
  BY <1>1, <1>2, <1>3, <1>4, <1>5, <1>6, <1>7, <1>8, <1>9, <1>10, <1>11, <1>12, <1>13, <1>14, <1>15, <1>16, <1>17, <1>18, <1>19, <1>20, <1>21, <1>22, <1>23 DEF Next

\* The entry whose turn it is, and those before it.
LEMMA Turn ==
    Removed /\ pc = "remove" /\ left # <<>> =>
        /\ Len(left) \in 1..12
        /\ \E k \in 1..12 : /\ Len(left) = 13 - k /\ Head(left) = Removal[k]
                            /\ \A j \in 1 .. k - 1 : Removal[j] \in Gone
<1> SUFFICES ASSUME Removed, pc = "remove", left # <<>>
             PROVE  /\ Len(left) \in 1..12
                    /\ \E k \in 1..12 : /\ Len(left) = 13 - k /\ Head(left) = Removal[k]
                                        /\ \A j \in 1 .. k - 1 : Removal[j] \in Gone
  OBVIOUS
<1> DEFINE n == Len(left)
<1>1. left \in Seq(Steps) /\ n <= 12
  BY DEF Removed
<1>2. n \in Nat /\ n # 0
  BY <1>1, LenProperties, EmptySeq
<1>3. n \in 1..12
  <2>1. n <= 12 BY DEF Removed
  <2> HIDE DEF n
  <2> QED BY <1>2, <2>1
<1>4. Head(left) = left[1]
  BY <1>1
<1>5. left[1] = Removal[12 - n + 1]
  BY <1>3 DEF Removed
<1>6. Gone = {Removal[i] : i \in 1 .. 12 - n}
  BY DEF Gone
<1> HIDE DEF n
<1>7. 13 - n \in 1..12 /\ n = 13 - (13 - n) /\ 12 - n + 1 = 13 - n /\ 13 - n - 1 = 12 - n
  BY <1>3
<1>8. \A j \in 1 .. (13 - n) - 1 : Removal[j] \in Gone
  BY <1>6, <1>7
<1> QED BY <1>3, <1>4, <1>5, <1>7, <1>8 DEF n

\* One entry more of the list is gone, and what follows it is still to do.
LEMMA Advance ==
    Removed /\ pc = "remove" /\ left # <<>> /\ left' = Tail(left) /\ pc' = "remove"
        /\ held' \cap Gone = {} /\ Head(left) \notin held' =>
        Removed' /\ Head(left) \in Todo /\ Todo' = Todo \ {Head(left)}
<1> SUFFICES ASSUME Removed, pc = "remove", left # <<>>, left' = Tail(left), pc' = "remove",
                    held' \cap Gone = {}, Head(left) \notin held'
             PROVE  Removed' /\ Head(left) \in Todo /\ Todo' = Todo \ {Head(left)}
  OBVIOUS
<1>1. PICK k \in 1..12 : Len(left) = 13 - k /\ Head(left) = Removal[k]
  BY Turn
<1>2. left \in Seq(Steps)
  BY DEF Removed
<1>3. left' \in Seq(Steps) /\ Len(left') = Len(left) - 1
  BY <1>2, HeadTailProperties
<1>4. \A i \in 1..Len(left') : left'[i] = left[i + 1]
  BY <1>2, HeadTailProperties
<1>5. Len(left') = 12 - k /\ Len(left') <= 12
  BY <1>1, <1>3
<1>6. \A i \in 1 .. 13 - k : left[i] = Removal[k - 1 + i]
  <2>1. \A i \in 1 .. Len(left) : left[i] = Removal[12 - Len(left) + i]
    BY DEF Removed
  <2>2. \A i \in 1 .. 13 - k : left[i] = Removal[12 - (13 - k) + i]
    BY <1>1, <2>1
  <2>3. \A i \in 1 .. 13 - k : 12 - (13 - k) + i = k - 1 + i
    BY <1>1
  <2> QED BY <2>2, <2>3
<1>7. \A i \in 1 .. 12 - k : left'[i] = Removal[k + i]
  <2> TAKE i \in 1 .. 12 - k
  <2>1. i \in 1..Len(left') /\ i + 1 \in 1 .. 13 - k /\ k - 1 + (i + 1) = k + i
    BY <1>5
  <2>2. left'[i] = left[i + 1]
    BY <1>4, <2>1
  <2>3. left[i + 1] = Removal[k - 1 + (i + 1)]
    BY <1>6, <2>1
  <2> QED BY <2>1, <2>2, <2>3
<1>8. \A i \in 1..Len(left') : left'[i] = Removal[12 - Len(left') + i]
  <2>1. 12 - Len(left') = k
    BY <1>1, <1>5
  <2> QED BY <1>5, <1>7, <2>1
<1>9. \A x \in Gone' : x \in Gone \/ x = Head(left)
  <2>1. Gone' = {Removal[i] : i \in 1..k}
    <3>1. 12 - Len(left') = k BY <1>1, <1>5
    <3> QED BY <3>1 DEF Gone
  <2>2. \A j \in 1 .. k - 1 : Removal[j] \in Gone
    <3>1. 12 - Len(left) = k - 1 BY <1>1
    <3> QED BY <3>1 DEF Gone
  <2>3. \A j \in 1..k : j \in 1 .. k - 1 \/ j = k
    BY <1>1
  <2> QED BY <1>1, <2>1, <2>2, <2>3
<1>10. Removed'
  BY <1>3, <1>5, <1>8, <1>9 DEF Removed
<1>11. Todo = {Removal[k - 1 + i] : i \in 1 .. 13 - k}
  BY <1>1, <1>6 DEF Todo
<1>12. Todo' = {Removal[k + i] : i \in 1 .. 12 - k}
  BY <1>5, <1>7 DEF Todo
<1>13. Head(left) \in Todo
  <2>1. 1 \in 1 .. 13 - k /\ k - 1 + 1 = k BY <1>1
  <2> QED BY <1>1, <1>11, <2>1
<1>14. ASSUME NEW i \in 1 .. 12 - k PROVE Removal[k + i] \in Todo /\ Removal[k + i] # Head(left)
  <2>1. i + 1 \in 1 .. 13 - k /\ k - 1 + (i + 1) = k + i /\ k + i \in 1..12 /\ k + i # k
    BY <1>1
  <2>2. Removal[k + i] \in Todo BY <1>11, <2>1
  <2>3. Removal[k + i] # Removal[k] BY <2>1, RemovalFacts
  <2> QED BY <1>1, <2>2, <2>3
<1>15. ASSUME NEW i \in 1 .. 13 - k, Removal[k - 1 + i] # Head(left)
       PROVE  Removal[k - 1 + i] \in Todo'
  <2>1. i # 1 BY <1>1, <1>15
  <2>2. i - 1 \in 1 .. 12 - k /\ k + (i - 1) = k - 1 + i BY <1>1, <2>1
  <2> QED BY <1>12, <2>2
<1> QED BY <1>10, <1>11, <1>12, <1>13, <1>14, <1>15

\* Inside az_remove every release keeps what is known of the resources: the
\* handler goes before its MSI, the device file before the mappings.
LEMMA RemoveStep ==
    IInv /\ Next /\ pc = "remove" =>
        Probed' /\ Removed' /\ Clean' /\ HandlerHasItsMsi' /\ OpenableMeansMapped'
<1> SUFFICES ASSUME IInv, Next, pc = "remove"
             PROVE  Probed' /\ Removed' /\ Clean' /\ HandlerHasItsMsi' /\ OpenableMeansMapped'
  OBVIOUS
<1>1. CASE Release
  <2>1. /\ left # <<>> /\ left' = Tail(left) /\ UNCHANGED <<pc, d, whole>>
        /\ held' = held \ {Head(left)}
        /\ misused' = misused \cup ({Head(left)} \ held) /\ Head(left) # "buffers"
    BY <1>1 DEF Release
  <2>2. held \cap Gone = {}
    BY DEF IInv, Removed
  <2>3. Removed' /\ Head(left) \in Todo /\ Todo' = Todo \ {Head(left)}
    BY <2>1, <2>2, Advance DEF IInv
  <2>4. Clean'
    BY <2>1, <2>3 DEF IInv, Clean
  <2>5. PICK k \in 1..12 : /\ Len(left) = 13 - k /\ Head(left) = Removal[k]
                           /\ \A j \in 1 .. k - 1 : Removal[j] \in Gone
    BY <2>1, Turn DEF IInv
  <2>6. Head(left) # "node"
    BY <2>5, RemovalFacts
  <2>7. Probed'
    BY <2>1, <2>6 DEF IInv, Probed, FromDmaMask, FromMapBar0, FromKzalloc
  <2>8. HandlerHasItsMsi'
    <3>1. Head(left) = "msi" => k = 3
      BY <2>5, RemovalFacts
    <3>2. Head(left) = "msi" => "irq" \in Gone
      BY <2>5, <3>1, RemovalFacts
    <3> QED BY <2>1, <2>2, <3>2 DEF IInv, HandlerHasItsMsi
  <2>9. OpenableMeansMapped'
    <3>1. Head(left) \in {"enabled", "regions", "bar0"} => k \in {10, 11, 12}
      BY <2>5, RemovalFacts
    <3>2. Head(left) \in {"enabled", "regions", "bar0"} => "cdev" \in Gone
      BY <2>5, <3>1, RemovalFacts
    <3> QED BY <2>1, <2>2, <2>6, <3>2 DEF IInv, OpenableMeansMapped
  <2> QED BY <2>3, <2>4, <2>7, <2>8, <2>9
<1>2. CASE FreeBuffers
  <2>1. /\ left # <<>> /\ left' = Tail(left) /\ UNCHANGED <<held, misused, d, whole>>
        /\ Head(left) = "buffers" /\ pc' \in {"remove", "oops"}
    BY <1>2 DEF FreeBuffers
  <2>2. held \cap Gone = {} /\ "buffers" \notin held
    BY DEF IInv, Removed, TypeOK, Resources, DeviceFile
  <2>3. pc' = "remove" => Removed' /\ Todo' = Todo \ {"buffers"}
    BY <2>1, <2>2, Advance DEF IInv
  <2>4. Removed'
    BY <2>1, <2>3 DEF Removed
  <2>5. Clean'
    BY <2>1, <2>3 DEF IInv, Clean
  <2> QED
    BY <2>1, <2>4, <2>5 DEF IInv, Probed, HandlerHasItsMsi, OpenableMeansMapped,
       FromDmaMask, FromMapBar0, FromKzalloc
<1>3. CASE RemoveReturns
  <2>1. /\ left = <<>> /\ pc' \in {"unloaded", "unbound"}
        /\ UNCHANGED <<held, left, misused, d, whole>>
    BY <1>3 DEF RemoveReturns, removeVars
  <2>2. Gone = Steps
    BY <2>1 DEF Gone, Steps
  <2>3. held \subseteq {"node"}
    BY <2>2, RemovalFacts DEF IInv, Removed, TypeOK
  <2> QED
    BY <2>1, <2>3 DEF IInv, Probed, Removed, Clean, HandlerHasItsMsi, OpenableMeansMapped,
       FromDmaMask, FromMapBar0, FromKzalloc, DeviceFile
<1>4. CASE Open \/ Close \/ Ioctl \/ Arm \/ Finish
  <2>1. pc' \in {"remove", "oops"} /\ UNCHANGED <<held, left, misused, d, whole>>
    BY <1>4 DEF Open, Close, Ioctl, Arm, Finish, removeVars
  <2> QED
    BY <2>1 DEF IInv, Probed, Removed, Clean, HandlerHasItsMsi, OpenableMeansMapped,
       FromDmaMask, FromMapBar0, FromKzalloc, Gone, Todo
<1> QED
  BY <1>1, <1>2, <1>3, <1>4
  DEF Next, Probe, EnableDevice, SetDmaMask, CheckBar, RequestRegions, MapBar0, MapBar1,
      AllocDev, EnableMsi, RequestIrq, TestDev, RegDev, Remove, UnloadUnbound, Oops, Acquire,
      Abort

\* The inductive invariant holds over any number of probes and removals.
THEOREM Inductive == Spec => []IInv
<1>1. IInv /\ [Next]_vars => IInv'
  <2> SUFFICES ASSUME IInv, [Next]_vars PROVE IInv'
    OBVIOUS
  <2>1. TypeOK' BY TypeStep DEF IInv
  <2>2. CASE Next BY <2>1, <2>2, StageStep, RemoveStep DEF IInv
  <2>3. CASE UNCHANGED vars
    BY <2>1, <2>3 DEF vars, IInv, Probed, Removed, Clean, HandlerHasItsMsi,
       OpenableMeansMapped, Gone, Todo
  <2> QED BY <2>2, <2>3
<1>2. QED BY InitIInv, <1>1, PTL DEF Spec

\* On no path does the handler outlive its MSI.
THEOREM HandlerAndMsi == Spec => []HandlerHasItsMsi
<1>1. IInv => HandlerHasItsMsi BY DEF IInv
<1>2. QED BY <1>1, Inductive, PTL

\* A device file that can be opened has its mappings.
THEOREM Openable == Spec => []OpenableMeansMapped
<1>1. IInv => OpenableMeansMapped BY DEF IInv
<1>2. QED BY <1>1, Inductive, PTL

\* A whole probe and the removal after it leave nothing, whatever came before.
THEOREM WholeCycle == Spec => []WholeCycleIsClean
<1>1. IInv => WholeCycleIsClean BY DEF IInv, Clean, WholeCycleIsClean
<1>2. QED BY <1>1, Inductive, PTL

\* az_remove calls free_node when bus mastering and the interrupt are off.
THEOREM DmaFirst == Spec => RemoveStopsDmaFirst
<1>1. IInv /\ FreeBuffers => {"master", "irq"} \cap held = {}
  <2> SUFFICES ASSUME IInv, FreeBuffers PROVE {"master", "irq"} \cap held = {}
    OBVIOUS
  <2>2. pc = "remove" /\ left # <<>> /\ Head(left) = "buffers"
    BY DEF FreeBuffers
  <2>3. PICK k \in 1..12 : /\ Head(left) = Removal[k]
                           /\ \A j \in 1 .. k - 1 : Removal[j] \in Gone
    BY <2>2, Turn DEF IInv
  <2>4. k = 4
    BY <2>2, <2>3, RemovalFacts
  <2>5. {"master", "irq"} \subseteq Gone
    BY <2>3, <2>4, RemovalFacts
  <2> QED BY <2>2, <2>5 DEF IInv, Removed
<1>2. QED BY <1>1, Inductive, PTL DEF RemoveStopsDmaFirst
=============================================================================

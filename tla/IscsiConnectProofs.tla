------------------------- MODULE IscsiConnectProofs -------------------------
(***************************************************************************)
(* IscsiConnect for any number of callers, volumes, devices and faults.    *)
(***************************************************************************)
EXTENDS IscsiConnect, TLAPS

USE DEF fixed

(***************************************************************************)
(* What the callers connect and how addresses are written never changes.   *)
(***************************************************************************)
LEMMA StepFixed == ASSUME [Next]_vars PROVE UNCHANGED <<target, naming>>
BY DEF Next, Host, Connect, DeviceAppears, SessionLost, ConnectVolume, Look,
       Update, Login, WaitForPathToExist, GetDeviceFileFromIscsiPath, vars

LEMMA FaultType == ASSUME TypeOK, Fault PROVE faults' \in 0 .. MaxFaults
<1>1. MaxFaults \in Nat
  BY HostAssumption
<1> QED BY <1>1 DEF TypeOK, Fault

LEMMA GotoType ==
  ASSUME TypeOK, NEW c \in Callers, NEW l \in Locations, Goto(c, l)
  PROVE  pc' \in [Callers -> Locations]
BY DEF TypeOK, Goto

LEMMA ReturnType ==
  ASSUME TypeOK, NEW c \in Callers, NEW e \in Errors,
         NEW d \in Devices \cup {NoDevice}, Return(c, e, d)
  PROVE  pc' \in [Callers -> Locations] /\ ret' \in [Callers -> Returns]
<1>1. [err |-> e, dev |-> d] \in Returns
  BY DEF Returns
<1>2. pc' \in [Callers -> Locations]
  BY GotoType DEF Return, Locations
<1> QED BY <1>1, <1>2 DEF Return, TypeOK

LEMMA FailType ==
  ASSUME TypeOK, NEW c \in Callers, NEW e \in Errors, Fail(c, e)
  PROVE  pc' \in [Callers -> Locations] /\ ret' \in [Callers -> Returns]
BY ReturnType DEF Fail

LEMMA WrittenType ==
  ASSUME TypeOK, NEW c \in Callers, pc[c] \in Updates
  PROVE  /\ After(pc[c]) \in Locations
         /\ Written(target[c], pc[c]) \in [Volumes -> SUBSET Settings]
<1>1. After(pc[c]) \in Locations
  BY DEF Updates, After, Locations
<1>2. Written(target[c], pc[c]) \in [Volumes -> SUBSET Settings]
  BY DEF TypeOK, Updates, Written, Settings, Reached
<1> QED BY <1>1, <1>2

LEMMA StepTypes == ASSUME TypeOK, [Next]_vars PROVE TypeOK'
<1>1. ASSUME NEW v \in Volumes, DeviceAppears(v) PROVE TypeOK'
  BY <1>1 DEF TypeOK, DeviceAppears, callerVars
<1>2. ASSUME NEW v \in Volumes, SessionLost(v) PROVE TypeOK'
  BY <1>2, FaultType DEF TypeOK, SessionLost, callerVars
<1>9. CASE UNCHANGED vars
  BY <1>9 DEF TypeOK, vars, hostVars, callerVars
<1> SUFFICES ASSUME NEW c \in Callers, Connect(c) PROVE TypeOK'
  BY <1>1, <1>2, <1>9 DEF Next, Host
<1>3. CASE ConnectVolume(c)
  <2>1. pc' \in [Callers -> Locations] /\ ret' \in [Callers -> Returns]
    BY <1>3, GotoType, FailType DEF ConnectVolume, Locations, Errors, TypeOK
  <2> QED BY <1>3, <2>1, FaultType DEF ConnectVolume, hostVars, TypeOK
<1>4. CASE Look(c)
  <2>1. pc' \in [Callers -> Locations]
    BY <1>4, GotoType DEF Look, Locations, Updates
  <2>2. tries' \in [Callers -> 0 .. Tries - 1]
    BY <1>4 DEF Look, Tries, TypeOK
  <2>3. faults' \in 0 .. MaxFaults
    BY <1>4, FaultType DEF Look, TypeOK
  <2>4. UNCHANGED <<target, naming, record, session, device, ret>>
    BY <1>4 DEF Look, hostVars
  <2> QED BY <2>1, <2>2, <2>3, <2>4 DEF TypeOK
<1>5. CASE Update(c)
  <2>1. pc' \in [Callers -> Locations] /\ ret' \in [Callers -> Returns]
    BY <1>5, GotoType, FailType, WrittenType DEF Update, Errors, TypeOK
  <2>2. record' \in [Volumes -> SUBSET Settings]
    BY <1>5, WrittenType DEF Update, TypeOK
  <2>3. faults' \in 0 .. MaxFaults
    BY <1>5, FaultType DEF Update, TypeOK
  <2>4. UNCHANGED <<target, naming, session, device, tries>>
    BY <1>5 DEF Update
  <2> QED BY <2>1, <2>2, <2>3, <2>4 DEF TypeOK
<1>6. CASE Login(c)
  <2>1. pc' \in [Callers -> Locations] /\ ret' \in [Callers -> Returns]
    BY <1>6, GotoType, FailType DEF Login, Locations, Errors, TypeOK
  <2> QED BY <1>6, <2>1, FaultType DEF Login, TypeOK
<1>7. CASE WaitForPathToExist(c)
  <2>1. pc' \in [Callers -> Locations] /\ ret' \in [Callers -> Returns]
    BY <1>7, GotoType, FailType DEF WaitForPathToExist, Locations, Errors, TypeOK
  <2>2. tries' \in [Callers -> 0 .. Tries - 1]
    <3>1. tries[c] \in 0 .. Tries - 1 /\ tries \in [Callers -> 0 .. Tries - 1]
      BY DEF TypeOK
    <3>2. \/ tries' = tries
          \/ tries[c] + 1 < Tries /\ tries' = [tries EXCEPT ![c] = tries[c] + 1]
      BY <1>7 DEF WaitForPathToExist, LooksAgain
    <3> QED BY <3>1, <3>2 DEF Tries
  <2> QED BY <1>7, <2>1, <2>2, FaultType DEF WaitForPathToExist, hostVars, TypeOK
<1>8. CASE GetDeviceFileFromIscsiPath(c)
  <2>1. device[target[c]] \in Devices \cup {NoDevice}
    BY DEF TypeOK
  <2>2. pc' \in [Callers -> Locations] /\ ret' \in [Callers -> Returns]
    BY <1>8, <2>1, ReturnType, FailType DEF GetDeviceFileFromIscsiPath, Errors
  <2> QED BY <1>8, <2>2, FaultType DEF GetDeviceFileFromIscsiPath, hostVars, TypeOK
<1> QED BY <1>3, <1>4, <1>5, <1>6, <1>7, <1>8 DEF Connect

LEMMA InitTypes == Init => TypeOK
<1> SUFFICES ASSUME Init PROVE TypeOK
  OBVIOUS
<1>1. [err |-> "not called", dev |-> NoDevice] \in Returns
  BY DEF Returns, Errors
<1>2. ret \in [Callers -> Returns]
  BY <1>1 DEF Init
<1>3. faults \in 0 .. MaxFaults /\ tries \in [Callers -> 0 .. Tries - 1]
  <2>1. MaxFaults \in Nat
    BY HostAssumption
  <2>2. faults = 0 /\ tries = [c \in Callers |-> 0]
    BY DEF Init
  <2> QED BY <2>1, <2>2 DEF Tries
<1>4. /\ pc \in [Callers -> Locations]
      /\ record \in [Volumes -> SUBSET Settings]
      /\ device \in [Volumes -> Devices \cup {NoDevice}]
      /\ naming \in Naming
  BY NamingAssumption DEF Init, Locations
<1> QED BY <1>2, <1>3, <1>4 DEF Init, TypeOK

(***************************************************************************)
(* The state is well typed.                                                *)
(***************************************************************************)
THEOREM TypeCorrect == Spec => []TypeOK
<1> QED BY InitTypes, StepTypes, PTL DEF Spec
-----------------------------------------------------------------------------
(***************************************************************************)
(* RecordPrepared is inductive: a record is written by the callers of its  *)
(* volume only, and the first command wipes it.                            *)
(***************************************************************************)
LEMMA StepPrepares ==
  ASSUME TypeOK, RecordPrepared, [Next]_vars PROVE RecordPrepared'
<1>1. target' = target /\ naming' = naming
  BY StepFixed
<1> SUFFICES ASSUME NEW d \in Callers, Alone(d), Reached,
                    pc'[d] \in InLogin
             PROVE  record'[target[d]] = Before(pc'[d])
  BY <1>1 DEF RecordPrepared, Alone, Reached
<1>2. pc[d] \in InLogin => record[target[d]] = Before(pc[d])
  BY DEF RecordPrepared
<1>3. ASSUME record' = record, pc' = pc
      PROVE  record'[target[d]] = Before(pc'[d])
  BY <1>2, <1>3
<1>4. ASSUME NEW c \in Callers, NEW l, l \notin InLogin, record' = record,
             pc' = [pc EXCEPT ![c] = l]
      PROVE  record'[target[d]] = Before(pc'[d])
  <2>1. c # d
    BY <1>4 DEF TypeOK
  <2> QED BY <1>2, <1>4, <2>1 DEF TypeOK
<1>5. ASSUME NEW c \in Callers, Update(c)
      PROVE  record'[target[d]] = Before(pc'[d])
  <2>1. CASE c = d
    <3>1. /\ record' = Written(target[d], pc[d])
          /\ pc' = [pc EXCEPT ![d] = After(pc[d])]
      BY <1>5, <2>1 DEF Update, Goto, Fail, Return, TypeOK, InLogin
    <3>2. record'[target[d]] = IF pc[d] = "new" THEN {"node"}
                               ELSE record[target[d]] \cup {pc[d]}
      BY <3>1 DEF Written, TypeOK
    <3>3. pc'[d] = After(pc[d]) /\ pc[d] \in Updates
      BY <1>5, <2>1, <3>1 DEF Update, TypeOK
    <3> QED BY <1>2, <3>2, <3>3 DEF Updates, After, Before, Settings, InLogin
  <2>2. CASE c # d
    <3>1. target[c] # target[d]
      BY <2>2 DEF Alone
    <3>2. record'[target[d]] = record[target[d]]
      BY <1>5, <3>1 DEF Update, Written, TypeOK
    <3>3. pc'[d] = pc[d]
      BY <1>5, <2>2 DEF Update, Goto, Fail, Return, TypeOK
    <3> QED BY <1>2, <3>2, <3>3
  <2> QED BY <2>1, <2>2
<1>6. ASSUME NEW v \in Volumes, DeviceAppears(v) \/ SessionLost(v)
      PROVE  record'[target[d]] = Before(pc'[d])
  BY <1>3, <1>6 DEF InLogin, DeviceAppears, SessionLost, callerVars
<1>7. ASSUME NEW c \in Callers, ConnectVolume(c)
      PROVE  record'[target[d]] = Before(pc'[d])
  BY <1>4, <1>7 DEF InLogin, ConnectVolume, Goto, Fail, Return, hostVars
<1>8. ASSUME NEW c \in Callers, Look(c)
      PROVE  record'[target[d]] = Before(pc'[d])
  BY <1>4, <1>8 DEF InLogin, Look, Goto, hostVars
<1>9. ASSUME NEW c \in Callers, Login(c)
      PROVE  record'[target[d]] = Before(pc'[d])
  BY <1>4, <1>9 DEF InLogin, Login, Goto, Fail, Return
<1>10. ASSUME NEW c \in Callers, WaitForPathToExist(c)
       PROVE  record'[target[d]] = Before(pc'[d])
  BY <1>3, <1>4, <1>10 DEF InLogin, WaitForPathToExist, Goto, Fail, Return, hostVars
<1>11. ASSUME NEW c \in Callers, GetDeviceFileFromIscsiPath(c)
       PROVE  record'[target[d]] = Before(pc'[d])
  BY <1>4, <1>11 DEF InLogin, GetDeviceFileFromIscsiPath, Goto, Fail, Return, hostVars
<1>12. CASE UNCHANGED vars
  BY <1>3, <1>12 DEF InLogin, vars, hostVars, callerVars
<1> QED BY <1>5, <1>6, <1>7, <1>8, <1>9, <1>10, <1>11, <1>12
        DEF Next, Host, Connect

(***************************************************************************)
(* A caller on its own logs in with all of its credentials.                *)
(***************************************************************************)
THEOREM RecordAlwaysPrepared == Spec => []RecordPrepared
<1>1. Init => RecordPrepared
  BY DEF Init, RecordPrepared, InLogin
<1> QED BY <1>1, StepPrepares, TypeCorrect, PTL DEF Spec
-----------------------------------------------------------------------------
(***************************************************************************)
(* Nothing failed in a step that leaves no fault behind.                   *)
(***************************************************************************)
LEMMA NoFault ==
  ASSUME TypeOK, faults' = 0 PROVE ~Fault
BY HostAssumption DEF TypeOK, Fault

LEMMA FaultsGrow ==
  ASSUME TypeOK, [Next]_vars, faults' = 0 PROVE faults = 0
<1>1. faults' = faults \/ Fault
  BY DEF Next, Host, Connect, DeviceAppears, SessionLost, ConnectVolume, Look,
         Update, Login, WaitForPathToExist, GetDeviceFileFromIscsiPath, vars,
         Fault
<1> QED BY <1>1, NoFault

(***************************************************************************)
(* As long as nothing failed a record is complete, or somebody is in the   *)
(* middle of its commands who has not lost any of what it wrote: the one   *)
(* who made the record last.  Until then nobody is past its first command. *)
(***************************************************************************)
BeingWritten(v) ==
  \E d \in Callers : /\ target[d] = v
                     /\ pc[d] \in InLogin \ {"login"}
                     /\ Before(pc[d]) \subseteq record[v]

RecordInv ==
  (faults = 0 /\ Reached)
    => \A c \in Callers :
         (pc[c] \in InLogin /\ record[target[c]] # Settings) => BeingWritten(target[c])

LEMMA WriterKeeps ==
  ASSUME TypeOK, NEW v \in Volumes, NEW d \in Callers, target[d] = v,
         target' = target, pc[d] \in InLogin \ {"login"},
         Before(pc[d]) \subseteq record[v], pc'[d] = pc[d],
         record[v] \subseteq record'[v]
  PROVE  BeingWritten(v)'
BY DEF BeingWritten

LEMMA UpdateKeepsRecord ==
  ASSUME TypeOK, RecordInv, NEW e \in Callers, Update(e), faults = 0, Reached,
         ~Fault, NEW c \in Callers, pc'[c] \in InLogin,
         record'[target[c]] # Settings
  PROVE  BeingWritten(target[c])'
<1> DEFINE v == target[c]
<1>1. /\ pc[e] \in Updates
      /\ pc' = [pc EXCEPT ![e] = After(pc[e])]
      /\ record' = [record EXCEPT ![target[e]] =
                      IF pc[e] = "new" THEN {"node"} ELSE @ \cup {pc[e]}]
      /\ target' = target
  BY DEF Update, Written, Goto
<1>2. v \in Volumes /\ record[v] \in SUBSET Settings /\ pc'[e] = After(pc[e])
  BY <1>1 DEF TypeOK
<1>3. CASE target[e] = v /\ pc[e] = "new"
  <2>1. pc'[e] = "authmethod" /\ record'[v] = {"node"}
    BY <1>1, <1>2, <1>3 DEF After, TypeOK
  <2> QED BY <1>1, <1>3, <2>1 DEF BeingWritten, Before, InLogin
<1>4. CASE target[e] = v /\ pc[e] # "new"
  <2>1. record'[v] = record[v] \cup {pc[e]}
    BY <1>1, <1>2, <1>4 DEF TypeOK
  <2>2. pc[c] \in InLogin
    <3>1. CASE c = e
      BY <1>1, <1>4, <3>1 DEF Updates, InLogin
    <3>2. CASE c # e
      BY <1>1, <3>2 DEF TypeOK
    <3> QED BY <3>1, <3>2
  <2>3. record[v] # Settings
    BY <1>1, <2>1 DEF Updates, Settings, TypeOK
  <2>4. PICK d \in Callers : /\ target[d] = v
                             /\ pc[d] \in InLogin \ {"login"}
                             /\ Before(pc[d]) \subseteq record[v]
    BY <2>2, <2>3 DEF RecordInv, BeingWritten
  <2>5. CASE d = e
    <3>1. pc[e] # "password"
      BY <1>2, <2>1, <2>4, <2>5 DEF Before, Settings
    <3>2. pc'[e] \in InLogin \ {"login"}
      BY <1>1, <1>2, <1>4, <3>1 DEF Updates, After, InLogin
    <3>3. Before(pc'[e]) \subseteq record'[v]
      BY <1>1, <1>2, <1>4, <2>1, <2>4, <2>5, <3>1 DEF Updates, After, Before
    <3> QED BY <1>1, <1>4, <3>2, <3>3 DEF BeingWritten
  <2>6. CASE d # e
    <3>1. pc'[d] = pc[d]
      BY <1>1, <2>6 DEF TypeOK
    <3> QED BY <1>1, <1>2, <2>1, <2>4, <3>1, WriterKeeps
  <2> QED BY <2>5, <2>6
<1>5. CASE target[e] # v
  <2>1. c # e /\ pc'[c] = pc[c] /\ record'[v] = record[v]
    BY <1>1, <1>2, <1>5 DEF TypeOK
  <2>2. PICK d \in Callers : /\ target[d] = v
                             /\ pc[d] \in InLogin \ {"login"}
                             /\ Before(pc[d]) \subseteq record[v]
    BY <2>1 DEF RecordInv, BeingWritten
  <2>3. pc'[d] = pc[d]
    BY <1>1, <1>5, <2>2 DEF TypeOK
  <2> QED BY <1>1, <1>2, <2>1, <2>2, <2>3, WriterKeeps
<1> QED BY <1>3, <1>4, <1>5

(***************************************************************************)
(* Every other step leaves the records alone, and takes nobody into or out *)
(* of the middle of its commands.                                          *)
(***************************************************************************)
LEMMA OthersKeepRecord ==
  ASSUME TypeOK, RecordInv, UNCHANGED <<target, naming, record>>, faults = 0,
         \A d \in Callers : \/ pc'[d] = pc[d]
                             \/ /\ pc[d] \notin InLogin \ {"login"}
                                /\ pc'[d] \notin InLogin
  PROVE  RecordInv'
<1> SUFFICES ASSUME Reached, NEW c \in Callers, pc'[c] \in InLogin,
                    record[target[c]] # Settings
             PROVE  BeingWritten(target[c])'
  BY DEF RecordInv, Reached
<1>1. target[c] \in Volumes /\ pc[c] \in InLogin
  BY DEF TypeOK
<1>2. PICK d \in Callers : /\ target[d] = target[c]
                           /\ pc[d] \in InLogin \ {"login"}
                           /\ Before(pc[d]) \subseteq record[target[c]]
  BY <1>1 DEF RecordInv, BeingWritten
<1> QED BY <1>1, <1>2, WriterKeeps

LEMMA StepKeepsRecord ==
  ASSUME TypeOK, RecordInv, [Next]_vars PROVE RecordInv'
<1> SUFFICES ASSUME faults' = 0 PROVE RecordInv'
  BY DEF RecordInv
<1>1. faults = 0 /\ ~Fault /\ UNCHANGED <<target, naming>>
  BY FaultsGrow, NoFault, StepFixed
<1>2. ASSUME UNCHANGED <<record, pc>> PROVE RecordInv'
  BY <1>1, <1>2, OthersKeepRecord
<1>3. ASSUME NEW e \in Callers, NEW l, l \notin InLogin, record' = record,
             pc[e] \notin InLogin \ {"login"}, pc' = [pc EXCEPT ![e] = l]
      PROVE  RecordInv'
  BY <1>1, <1>3, OthersKeepRecord DEF TypeOK
<1>4. ASSUME NEW v \in Volumes, DeviceAppears(v) \/ SessionLost(v)
      PROVE  RecordInv'
  BY <1>2, <1>4 DEF DeviceAppears, SessionLost, callerVars
<1>5. ASSUME NEW e \in Callers, ConnectVolume(e) \/ Look(e) PROVE RecordInv'
  <2>1. /\ pc[e] \notin InLogin /\ record' = record
        /\ \E l \in {"idle", "look", "wait", "new"} : pc' = [pc EXCEPT ![e] = l]
    BY <1>5 DEF ConnectVolume, Look, Goto, Fail, Return, hostVars, InLogin
  <2> QED BY <1>3, <2>1 DEF InLogin
<1>6. ASSUME NEW e \in Callers, Update(e) PROVE RecordInv'
  BY <1>1, <1>6, UpdateKeepsRecord DEF RecordInv, Reached
<1>7. ASSUME NEW e \in Callers, Login(e) PROVE RecordInv'
  <2>1. /\ pc[e] = "login" /\ record' = record
        /\ \E l \in {"idle", "wait"} : pc' = [pc EXCEPT ![e] = l]
    BY <1>7 DEF Login, Goto, Fail, Return
  <2> QED BY <1>3, <2>1 DEF InLogin
<1>8. ASSUME NEW e \in Callers, WaitForPathToExist(e) PROVE RecordInv'
  <2>1. /\ pc[e] = "wait" /\ record' = record
        /\ pc' = pc \/ \E l \in {"idle", "resolve"} : pc' = [pc EXCEPT ![e] = l]
    BY <1>8 DEF WaitForPathToExist, Goto, Fail, Return, hostVars
  <2> QED BY <1>2, <1>3, <2>1 DEF InLogin
<1>9. ASSUME NEW e \in Callers, GetDeviceFileFromIscsiPath(e) PROVE RecordInv'
  <2>1. /\ pc[e] = "resolve" /\ record' = record
        /\ pc' = [pc EXCEPT ![e] = "idle"]
    BY <1>9 DEF GetDeviceFileFromIscsiPath, Goto, Fail, Return, hostVars
  <2> QED BY <1>3, <2>1 DEF InLogin
<1>10. CASE UNCHANGED vars
  BY <1>2, <1>10 DEF vars, hostVars, callerVars
<1> QED BY <1>4, <1>5, <1>6, <1>7, <1>8, <1>9, <1>10 DEF Next, Host, Connect

(***************************************************************************)
(* As long as nothing failed, a caller finds an incomplete record at its   *)
(* login only while another one is in the middle of its commands.          *)
(***************************************************************************)
THEOREM CredentialsAlwaysExplained == Spec => []CredentialsExplained
<1>1. Init => RecordInv
  BY DEF Init, RecordInv, InLogin
<1>2. RecordInv => CredentialsExplained
  BY DEF RecordInv, CredentialsExplained, BeingWritten, InLogin
<1> QED BY <1>1, <1>2, StepKeepsRecord, TypeCorrect, PTL DEF Spec
-----------------------------------------------------------------------------
(***************************************************************************)
(* A path leads to a device only while there is a session, and no two      *)
(* paths lead to the same one.                                             *)
(***************************************************************************)
DeviceInv ==
  /\ \A v \in Volumes : HasDevice(v) => v \in session
  /\ \A v, w \in Volumes : (HasDevice(v) /\ device[v] = device[w]) => v = w

LEMMA StepKeepsDevices ==
  ASSUME TypeOK, DeviceInv, [Next]_vars PROVE DeviceInv'
<1>1. ASSUME NEW v \in Volumes, DeviceAppears(v) PROVE DeviceInv'
  BY <1>1 DEF DeviceAppears, DeviceInv, HasDevice, TypeOK
<1>2. ASSUME NEW v \in Volumes, SessionLost(v) PROVE DeviceInv'
  BY <1>2 DEF SessionLost, DeviceInv, HasDevice, TypeOK
<1>3. ASSUME session \subseteq session', device' = device PROVE DeviceInv'
  BY <1>3 DEF DeviceInv, HasDevice
<1>4. ASSUME NEW c \in Callers, Connect(c) PROVE DeviceInv'
  <2>1. session \subseteq session' /\ device' = device
    BY <1>4 DEF Connect, ConnectVolume, Look, Update, Login, WaitForPathToExist,
                GetDeviceFileFromIscsiPath, hostVars
  <2> QED BY <1>3, <2>1
<1>5. CASE UNCHANGED vars
  BY <1>3, <1>5 DEF vars, hostVars
<1> QED BY <1>1, <1>2, <1>4, <1>5 DEF Next, Host

(***************************************************************************)
(* Devices belong to volumes that have a session, one device to one        *)
(* volume.                                                                 *)
(***************************************************************************)
THEOREM DeviceInvariant == Spec => []DeviceInv
<1>1. Init => DeviceInv
  BY DEF Init, DeviceInv, HasDevice
<1> QED BY <1>1, StepKeepsDevices, TypeCorrect, PTL DEF Spec

LEMMA ReturnsDeviceOfVolume ==
  ASSUME TypeOK, DeviceInv, [Next]_vars, NEW c \in Callers,
         ret'[c] # ret[c], ret'[c].err = "none"
  PROVE  /\ target[c] \in session'
         /\ {v \in Volumes : device'[v] = ret'[c].dev} = {target[c]}
<1>1. GetDeviceFileFromIscsiPath(c)
  <2>1. PICK d \in Callers : Connect(d)
    BY DEF Next, Host, DeviceAppears, SessionLost, callerVars, vars
  <2>2. ret' = ret \/ \E e, dev : ret' = [ret EXCEPT ![d] = [err |-> e, dev |-> dev]]
    BY <2>1 DEF Connect, ConnectVolume, Look, Update, Login, WaitForPathToExist,
                GetDeviceFileFromIscsiPath, Fail, Return
  <2>3. d = c
    BY <2>2 DEF TypeOK
  <2>4. ASSUME NEW e, e # "none" PROVE ~Fail(c, e)
    BY <2>4 DEF Fail, Return, TypeOK
  <2>5. ~ConnectVolume(c)
    BY <2>4 DEF ConnectVolume
  <2>6. ~Look(c)
    BY DEF Look
  <2>7. ~Update(c)
    BY <2>4 DEF Update
  <2>8. ~Login(c)
    BY <2>4 DEF Login
  <2>9. ~WaitForPathToExist(c)
    BY <2>4 DEF WaitForPathToExist
  <2> QED BY <2>1, <2>3, <2>5, <2>6, <2>7, <2>8, <2>9 DEF Connect
<1>2. /\ HasDevice(target[c])
      /\ ret'[c].dev = device[target[c]]
      /\ session' = session /\ device' = device
  BY <1>1 DEF GetDeviceFileFromIscsiPath, LsFails, PathExists, Fail, Return,
              hostVars, TypeOK
<1>3. target[c] \in Volumes
  BY DEF TypeOK
<1> QED BY <1>2, <1>3 DEF DeviceInv

(***************************************************************************)
(* The device returned is the one of the volume asked for.                 *)
(***************************************************************************)
THEOREM DeviceAlwaysOfVolume == Spec => DeviceOfVolume
<1>1. ASSUME TypeOK, DeviceInv, [Next]_vars
      PROVE  [\A c \in Callers :
                (ret'[c] # ret[c] /\ ret'[c].err = "none")
                  => /\ target[c] \in session'
                     /\ {v \in Volumes : device'[v] = ret'[c].dev}
                          = {target[c]}]_vars
  BY <1>1, ReturnsDeviceOfVolume
<1> QED BY <1>1, TypeCorrect, DeviceInvariant, PTL DEF Spec, DeviceOfVolume
-----------------------------------------------------------------------------
(***************************************************************************)
(* The course of a caller on its own as long as nothing failed.  Once its  *)
(* login was carried out the session stays, so from then on every call     *)
(* ends with the device, the wait or, while the device is missing, the     *)
(* login; before, no call has ended.                                       *)
(***************************************************************************)
Normal(c) ==
  /\ ret[c].err \in {"not called", "none", "missing", "login"}
  /\ ret[c].err # "none" => ret[c].dev = NoDevice
  /\ target[c] \in session => pc[c] \in {"wait", "resolve"} \/ ret[c].err # "not called"
  /\ pc[c] \in {"wait", "resolve"} \/ ret[c].err # "not called" => target[c] \in session
  /\ pc[c] = "resolve" => PathExists(target[c])
  /\ ret[c].err = "none" =>
        PathExists(target[c]) /\ pc[c] \in {"idle", "look", "wait", "resolve"}

NormalInv == faults = 0 => \A c \in Callers : Alone(c) /\ Reached => Normal(c)

(***************************************************************************)
(* Steps of the host and of callers of other volumes.                      *)
(***************************************************************************)
LEMMA OthersKeepNormal ==
  ASSUME TypeOK, NEW d \in Callers, Normal(d), UNCHANGED target,
         pc'[d] = pc[d], ret'[d] = ret[d],
         target[d] \in session' <=> target[d] \in session,
         PathExists(target[d]) => PathExists(target[d])'
  PROVE  Normal(d)'
BY DEF Normal, PathExists, HasDevice

LEMMA OwnStepNormal ==
  ASSUME TypeOK, DeviceInv, RecordPrepared, NEW d \in Callers, Alone(d),
         Reached, Normal(d), Connect(d), ~Fault
  PROVE  /\ Normal(d)'
         /\ (ret'[d] # ret[d] /\ ret'[d].err \notin {"none", "missing"})
               => ret'[d].err = "login" /\ ret[d].err = "missing"
<1> DEFINE R == [err |-> "login", dev |-> NoDevice]
<1>0. /\ target[d] \in Volumes
      /\ ret[d] = [err |-> ret[d].err, dev |-> ret[d].dev]
      /\ pc \in [Callers -> Locations] /\ ret \in [Callers -> Returns]
  BY DEF TypeOK, Returns
<1>1. CASE ConnectVolume(d)
  BY <1>0, <1>1 DEF ConnectVolume, Goto, hostVars, Normal, PathExists, HasDevice
<1>2. CASE Look(d)
  BY <1>0, <1>2 DEF Look, Attached, Goto, hostVars, Normal, PathExists, HasDevice, DeviceInv
<1>3. CASE Update(d)
  <2>1. /\ pc' = [pc EXCEPT ![d] = After(pc[d])]
        /\ pc[d] \in Updates
        /\ UNCHANGED <<fixed, session, device, ret>>
    BY <1>3 DEF Update, Goto
  <2>2. After(pc[d]) \notin {"wait", "resolve"} /\ pc[d] \notin {"wait", "resolve"}
    BY <2>1 DEF Updates, After
  <2>3. ret[d].err # "none"
    BY <2>1 DEF Normal, Updates
  <2> QED BY <1>0, <2>1, <2>2, <2>3 DEF Normal, PathExists, HasDevice
<1>4. CASE Login(d)
  <2>1. pc[d] = "login" /\ UNCHANGED <<fixed, device>> /\ ret[d].err # "none"
    BY <1>4 DEF Login, Normal
  <2>2. record[target[d]] = Settings
    BY <2>1 DEF RecordPrepared, Before, InLogin
  <2>3. CASE target[d] \in session
    <3>1. ret' = [ret EXCEPT ![d] = R] /\ pc' = [pc EXCEPT ![d] = "idle"]
          /\ session' = session
      BY <1>4, <2>3 DEF Login, LoginRefused, Fail, Return, Goto
    <3>2. ret'[d] = R /\ pc'[d] = "idle"
      BY <1>0, <3>1
    <3>3. ret[d].err \in {"missing", "login"}
      BY <2>1, <2>3 DEF Normal
    <3>4. ret[d].err = "login" => ret[d] = R
      BY <1>0 DEF Normal
    <3>5. ret'[d].err = "login" /\ ret'[d].dev = NoDevice
      BY <3>2
    <3>6. Normal(d)'
      BY <2>1, <2>3, <3>1, <3>2, <3>5 DEF Normal
    <3>7. ret'[d] # ret[d] => ret[d].err = "missing"
      BY <3>2, <3>3, <3>4
    <3> QED BY <3>5, <3>6, <3>7
  <2>4. CASE target[d] \notin session
    <3>1. /\ session' = session \cup {target[d]}
          /\ pc' = [pc EXCEPT ![d] = "wait"]
          /\ ret' = ret
      BY <1>4, <2>2, <2>4 DEF Login, LoginRefused, Goto
    <3> QED BY <1>0, <2>1, <3>1 DEF Normal, PathExists, HasDevice
  <2> QED BY <2>3, <2>4
<1>5. CASE WaitForPathToExist(d)
  <2>1. pc[d] = "wait" /\ UNCHANGED <<fixed, session, device>>
        /\ target[d] \in session
    BY <1>5 DEF WaitForPathToExist, hostVars, Normal
  <2>2. CASE PathExists(target[d])
    <3>1. pc' = [pc EXCEPT ![d] = "resolve"] /\ ret' = ret
      BY <1>5, <2>2 DEF WaitForPathToExist, Goto
    <3> QED BY <1>0, <2>1, <2>2, <3>1 DEF Normal, PathExists, HasDevice
  <2>3. CASE ~PathExists(target[d])
    <3>1. CASE pc' = pc /\ ret' = ret
      BY <2>1, <3>1 DEF Normal, PathExists, HasDevice
    <3>2. CASE Fail(d, "missing")
      <4> DEFINE N == [err |-> "missing", dev |-> NoDevice]
      <4>1. pc'[d] = "idle" /\ ret'[d] = N
        BY <1>0, <3>2 DEF Fail, Return, Goto
      <4>2. ret'[d].err = "missing" /\ ret'[d].dev = NoDevice
        BY <4>1
      <4>3. Normal(d)'
        BY <2>1, <4>1, <4>2 DEF Normal
      <4> QED BY <4>2, <4>3
    <3> QED BY <1>5, <2>3, <3>1, <3>2 DEF WaitForPathToExist
  <2> QED BY <2>2, <2>3
<1>6. CASE GetDeviceFileFromIscsiPath(d)
  <2>1. pc[d] = "resolve" /\ UNCHANGED <<fixed, session, device>>
        /\ target[d] \in session /\ PathExists(target[d])
    BY <1>6 DEF GetDeviceFileFromIscsiPath, hostVars, Normal
  <2>2. Return(d, "none", device[target[d]])
    BY <1>6, <2>1 DEF GetDeviceFileFromIscsiPath, LsFails
  <2>3. pc'[d] = "idle" /\ ret'[d] = [err |-> "none", dev |-> device[target[d]]]
    BY <1>0, <2>2 DEF Return, Goto
  <2>4. ret'[d].err = "none"
    BY <2>3
  <2>5. Normal(d)'
    BY <2>1, <2>3, <2>4 DEF Normal, PathExists, HasDevice
  <2> QED BY <2>4, <2>5
<1> QED BY <1>1, <1>2, <1>3, <1>4, <1>5, <1>6 DEF Connect

LEMMA StepNormal ==
  ASSUME TypeOK, DeviceInv, RecordPrepared, NormalInv, [Next]_vars, faults' = 0,
         NEW d \in Callers, Alone(d), Reached
  PROVE  /\ Normal(d)'
         /\ (ret'[d] # ret[d] /\ ret'[d].err \notin {"none", "missing"})
               => ret'[d].err = "login" /\ ret[d].err = "missing"
<1>1. Normal(d)
  BY FaultsGrow DEF NormalInv
<1>2. ASSUME NEW v \in Volumes, DeviceAppears(v)
      PROVE  Normal(d)' /\ ret' = ret
  <2>1. UNCHANGED <<fixed, session, pc, ret>>
    BY <1>2 DEF DeviceAppears, callerVars
  <2>2. PathExists(target[d]) => PathExists(target[d])'
    BY <1>2 DEF DeviceAppears, PathExists, HasDevice, TypeOK
  <2> QED BY <1>1, <2>1, <2>2, OthersKeepNormal
<1>3. ASSUME NEW v \in Volumes, SessionLost(v) PROVE FALSE
  BY <1>3, NoFault DEF SessionLost
<1>4. ASSUME NEW c \in Callers, Connect(c), c # d
      PROVE  Normal(d)' /\ ret'[d] = ret[d]
  <2>1. target[c] # target[d]
    BY <1>4 DEF Alone
  <2>2. UNCHANGED <<target, naming>>
    BY <1>4 DEF Connect, ConnectVolume, Look, Update, Login, WaitForPathToExist,
                GetDeviceFileFromIscsiPath
  <2>3. /\ session' = session \/ session' = session \cup {target[c]}
        /\ device' = device
    BY <1>4 DEF Connect, ConnectVolume, Look, Update, Login, WaitForPathToExist,
                GetDeviceFileFromIscsiPath, hostVars
  <2>4. /\ pc' = pc \/ \E l : pc' = [pc EXCEPT ![c] = l]
        /\ ret' = ret \/ \E e, v : ret' = [ret EXCEPT ![c] = [err |-> e, dev |-> v]]
    BY <1>4 DEF Connect, ConnectVolume, Look, Update, Login, WaitForPathToExist,
                GetDeviceFileFromIscsiPath, Fail, Return, Goto
  <2>5. pc'[d] = pc[d] /\ ret'[d] = ret[d]
    BY <1>4, <2>4 DEF TypeOK
  <2> QED BY <1>1, <2>1, <2>2, <2>3, <2>5, OthersKeepNormal DEF PathExists, HasDevice
<1>5. CASE UNCHANGED vars
  BY <1>1, <1>5 DEF vars, hostVars, callerVars, Normal, PathExists, HasDevice
<1>6. CASE Connect(d)
  BY <1>1, <1>6, NoFault, OwnStepNormal
<1> QED BY <1>2, <1>3, <1>4, <1>5, <1>6 DEF Next, Host

LEMMA StepNormalInv ==
  ASSUME TypeOK, DeviceInv, RecordPrepared, NormalInv, [Next]_vars
  PROVE  NormalInv'
<1>1. target' = target /\ naming' = naming
  BY StepFixed
<1>2. (Reached' <=> Reached) /\ \A d \in Callers : Alone(d)' <=> Alone(d)
  BY <1>1 DEF Alone, Reached
<1> QED BY <1>2, StepNormal DEF NormalInv

(***************************************************************************)
(* A caller on its own is refused its login only after it gave up waiting  *)
(* for the device of its own session, unless something failed.             *)
(***************************************************************************)
THEOREM LoginErrorAlwaysExplained == Spec => LoginErrorExplained
<1>1. ASSUME Init PROVE NormalInv
  <2>1. \A c \in Callers : /\ pc[c] = "idle"
                           /\ ret[c].err = "not called"
                           /\ ret[c].dev = NoDevice
                           /\ target[c] \notin session
    BY <1>1 DEF Init
  <2> QED BY <2>1 DEF NormalInv, Normal
<1>2. Spec => []NormalInv
  BY <1>1, StepNormalInv, TypeCorrect, DeviceInvariant, RecordAlwaysPrepared, PTL
     DEF Spec
<1>3. ASSUME TypeOK, DeviceInv, RecordPrepared, NormalInv, [Next]_vars
      PROVE  [\A c \in Callers :
                (/\ ret'[c] # ret[c]
                 /\ ret'[c].err \in Errors \ {"none", "missing"}
                 /\ Alone(c) /\ Reached
                 /\ faults' = 0)
                  => ret'[c].err = "login" /\ ret[c].err = "missing"]_vars
  BY <1>3, StepNormal
<1> QED BY <1>2, <1>3, TypeCorrect, DeviceInvariant, RecordAlwaysPrepared, PTL
        DEF Spec, LoginErrorExplained
=============================================================================

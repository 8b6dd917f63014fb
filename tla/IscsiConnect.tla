---------------------------- MODULE IscsiConnect ----------------------------
(***************************************************************************)
(* Client.ConnectVolume on one host, by several goroutines or programs: it *)
(* looks for the volume's device, logs in to the volume's target if there  *)
(* is none (LoginWithChap: five iscsiadm commands that share one node      *)
(* record, without undo), and waits for the device.  A caller that gets an *)
(* error calls again and meets what the earlier call left behind.          *)
(*                                                                         *)
(* The host is external: iscsiadm keeps the node record and the session of *)
(* a target, the kernel and udev make the device and its link by path.     *)
(* The portal and the path are both built from the client's SVIP, with and *)
(* without a port appended, and whether the host reads them as meant is a  *)
(* matter of the form of that SVIP.                                        *)
(***************************************************************************)
EXTENDS Naturals, FiniteSets

CONSTANTS
  Callers,      \* users of the package on this host
  Volumes,      \* volumes; a volume has a target, a node record and a path
  Devices,      \* device files under /dev
  Namings,      \* how the cluster and the host may write addresses
  MaxFaults     \* bound: commands, looks and sessions that fail

ASSUME HostAssumption == /\ IsFiniteSet(Volumes)
                         /\ MaxFaults \in Nat

NoDevice == "no device"
ASSUME NoDeviceAssumption == NoDevice \notin Devices

(***************************************************************************)
(* The forms of an address, by the ports in it; what initAccount finds in  *)
(* ClusterInfo as the SVIP, what udev writes into the link of a device,    *)
(* and the portals that iscsiadm takes for the target's.                   *)
(***************************************************************************)
Forms  == {"ip", "ip:port", "ip:port:port"}
Naming == [svip : Forms \ {"ip:port:port"}, link : Forms, portals : SUBSET Forms]
ASSUME NamingAssumption == Namings \subseteq Naming

Tries == 5      \* looks of the second WaitForPathToExist

VARIABLES
  target,     \* target[c]: the volume that c connects; it never changes
  naming,     \* how addresses are written; it never changes
  record,     \* record[v]: what the node record of v holds; {} if none
  session,    \* volumes with a session
  device,     \* device[v]: the device that the path of v leads to
  faults,     \* number of things that failed
  pc,         \* pc[c]: where in ConnectVolume caller c is
  tries,      \* tries[c]: looks that found nothing
  ret         \* ret[c]: what ConnectVolume returned to c last

fixed      == <<target, naming>>
hostVars   == <<record, session, device>>
callerVars == <<pc, tries, ret>>
vars       == <<fixed, hostVars, faults, callerVars>>

(***************************************************************************)
(* The node record exists, and the settings that the commands put into it. *)
(***************************************************************************)
Settings == {"node", "authmethod", "username", "password"}

(***************************************************************************)
(* The commands of LoginWithChap, each with the one after it.              *)
(***************************************************************************)
AfterWithoutPassword(cmd) ==                                      \* mutant
  CASE cmd = "new"        -> "authmethod"
    [] cmd = "authmethod" -> "username"
    [] OTHER              -> "login"

After(cmd) ==
  CASE cmd = "new"        -> "authmethod"
    [] cmd = "authmethod" -> "username"
    [] cmd = "username"   -> "password"
    [] cmd = "password"   -> "login"

Updates   == {"new", "authmethod", "username", "password"}
Locations == {"idle", "look", "login", "wait", "resolve"} \cup Updates
Errors    == {"none", "not called", "volume", "command", "login", "missing", "ls"}
Returns   == [err : Errors, dev : Devices \cup {NoDevice}]

Init ==
  /\ target \in [Callers -> Volumes]
  /\ naming \in Namings
  /\ record = [v \in Volumes |-> {}]
  /\ session = {}
  /\ device = [v \in Volumes |-> NoDevice]
  /\ faults = 0
  /\ pc = [c \in Callers |-> "idle"]
  /\ tries = [c \in Callers |-> 0]
  /\ ret = [c \in Callers |-> [err |-> "not called", dev |-> NoDevice]]
-----------------------------------------------------------------------------
(***************************************************************************)
(* The host.                                                               *)
(***************************************************************************)
Fault == faults < MaxFaults /\ faults' = faults + 1

HasDevice(v) == device[v] # NoDevice

DeviceAppears(v) ==
  /\ v \in session
  /\ ~HasDevice(v)
  /\ \E d \in Devices \ {device[w] : w \in Volumes} :
       device' = [device EXCEPT ![v] = d]
  /\ UNCHANGED <<fixed, record, session, faults, callerVars>>

SessionLost(v) ==
  /\ v \in session
  /\ Fault
  /\ session' = session \ {v}
  /\ device' = [device EXCEPT ![v] = NoDevice]
  /\ UNCHANGED <<fixed, record, callerVars>>

(***************************************************************************)
(* The path that ConnectVolume builds from the SVIP is the link of udev    *)
(* only if both write the address alike.                                   *)
(***************************************************************************)
PathExists(v) == HasDevice(v) /\ naming.svip = naming.link

(***************************************************************************)
(* LoginWithChap appends the port to the SVIP.  The commands for a portal  *)
(* that is not the target's do nothing to the target's record.             *)
(***************************************************************************)
WithPort(f) == IF f = "ip" THEN "ip:port" ELSE "ip:port:port"
Reached == WithPort(naming.svip) \in naming.portals

(***************************************************************************)
(* A new record takes the place of an old one.  The target wants CHAP, and *)
(* iscsiadm refuses a second session.                                      *)
(***************************************************************************)
Written(v, cmd) ==
  IF Reached
  THEN [record EXCEPT ![v] = IF cmd = "new" THEN {"node"} ELSE @ \cup {cmd}]
  ELSE record
LoginRefused(v) == ~Reached \/ record[v] # Settings \/ v \in session
-----------------------------------------------------------------------------
(***************************************************************************)
(* ConnectVolume.                                                          *)
(***************************************************************************)
Goto(c, l) == pc' = [pc EXCEPT ![c] = l]

Return(c, e, d) == /\ Goto(c, "idle")
                   /\ ret' = [ret EXCEPT ![c] = [err |-> e, dev |-> d]]
Fail(c, e) == Return(c, e, NoDevice)

(***************************************************************************)
(* GetVolume finds the volume or, for whatever reason, does not.           *)
(***************************************************************************)
ConnectVolume(c) ==
  /\ pc[c] = "idle"
  /\ \/ Goto(c, "look") /\ UNCHANGED <<faults, ret>>
     \/ Fault /\ Fail(c, "volume")
  /\ UNCHANGED <<fixed, hostVars, tries>>

(***************************************************************************)
(* WaitForPathToExist with one try.  A stat that fails for another reason  *)
(* than a missing file also counts as "not attached".                      *)
(***************************************************************************)
NeverAttached(v) == FALSE                                         \* mutant
Attached(v) == PathExists(v)

Look(c) ==
  /\ pc[c] = "look"
  /\ \/ Attached(target[c]) /\ Goto(c, "wait") /\ UNCHANGED faults
     \/ ~Attached(target[c]) /\ Goto(c, "new") /\ UNCHANGED faults
     \/ Fault /\ Goto(c, "new")
  /\ tries' = [tries EXCEPT ![c] = 0]
  /\ UNCHANGED <<fixed, hostVars, ret>>

(***************************************************************************)
(* LoginWithChap.  A command that fails may have done its work.            *)
(***************************************************************************)
Update(c) ==
  /\ pc[c] \in Updates
  /\ \/ /\ record' = Written(target[c], pc[c])
        /\ Goto(c, After(pc[c]))
        /\ UNCHANGED <<faults, ret>>
     \/ /\ Fault
        /\ record' \in {record, Written(target[c], pc[c])}
        /\ Fail(c, "command")
  /\ UNCHANGED <<fixed, session, device, tries>>

Login(c) ==
  /\ pc[c] = "login"
  /\ \/ /\ LoginRefused(target[c])
        /\ Fail(c, "login")
        /\ UNCHANGED <<session, faults>>
     \/ /\ ~LoginRefused(target[c])
        /\ session' = session \cup {target[c]}
        /\ Goto(c, "wait")
        /\ UNCHANGED <<faults, ret>>
     \/ /\ Fault
        /\ \/ UNCHANGED session
           \/ /\ ~LoginRefused(target[c])
              /\ session' = session \cup {target[c]}
        /\ Fail(c, "login")
  /\ UNCHANGED <<fixed, record, device, tries>>

(***************************************************************************)
(* WaitForPathToExist with several tries, a second apart; any stat that    *)
(* fails for another reason than a missing file ends it.                   *)
(***************************************************************************)
LooksAgainOnceMore(n) == n <= Tries                               \* mutant
LooksAgain(n)         == n < Tries

WaitForPathToExist(c) ==
  /\ pc[c] = "wait"
  /\ \/ /\ PathExists(target[c])
        /\ Goto(c, "resolve")
        /\ UNCHANGED <<faults, tries, ret>>
     \/ /\ ~PathExists(target[c])
        /\ LooksAgain(tries[c] + 1)
        /\ tries' = [tries EXCEPT ![c] = @ + 1]
        /\ UNCHANGED <<faults, pc, ret>>
     \/ /\ ~PathExists(target[c])
        /\ ~LooksAgain(tries[c] + 1)
        /\ Fail(c, "missing")
        /\ UNCHANGED <<faults, tries>>
     \/ /\ Fault
        /\ Fail(c, "missing")
        /\ UNCHANGED tries
  /\ UNCHANGED <<fixed, hostVars>>

(***************************************************************************)
(* GetDeviceFileFromIscsiPath reads the link again, with ls.               *)
(***************************************************************************)
LsNeverFails(v) == FALSE                                          \* mutant
LsFails(v) == ~PathExists(v)

GetDeviceFileFromIscsiPath(c) ==
  /\ pc[c] = "resolve"
  /\ \/ LsFails(target[c]) /\ Fail(c, "ls") /\ UNCHANGED faults
     \/ /\ ~LsFails(target[c])
        /\ Return(c, "none", device[target[c]])
        /\ UNCHANGED faults
     \/ Fault /\ Fail(c, "ls")
  /\ UNCHANGED <<fixed, hostVars, tries>>
-----------------------------------------------------------------------------
Connect(c) == \/ ConnectVolume(c)
              \/ Look(c)
              \/ Update(c)
              \/ Login(c)
              \/ WaitForPathToExist(c)
              \/ GetDeviceFileFromIscsiPath(c)

Host == \E v \in Volumes : DeviceAppears(v) \/ SessionLost(v)

Next == Host \/ \E c \in Callers : Connect(c)

Spec == Init /\ [][Next]_vars

(***************************************************************************)
(* A call under way goes on, and a caller that got an error calls again;   *)
(* one that has its device need not.  The device of a session appears in   *)
(* the end, if not before the caller's patience runs out.                  *)
(***************************************************************************)
Wanting(c) == pc[c] # "idle" \/ ret[c].err # "none"
FairSpec == /\ Spec
            /\ \A c \in Callers : WF_vars(Wanting(c) /\ Connect(c))
            /\ \A v \in Volumes : WF_vars(DeviceAppears(v))
-----------------------------------------------------------------------------
TypeOK ==
  /\ target \in [Callers -> Volumes]
  /\ naming \in Naming
  /\ record \in [Volumes -> SUBSET Settings]
  /\ session \subseteq Volumes
  /\ device \in [Volumes -> Devices \cup {NoDevice}]
  /\ faults \in 0 .. MaxFaults
  /\ pc \in [Callers -> Locations]
  /\ tries \in [Callers -> 0 .. Tries - 1]
  /\ ret \in [Callers -> Returns]

(***************************************************************************)
(* Nobody else on the host connects the same volume.                       *)
(***************************************************************************)
Alone(c) == \A d \in Callers : target[d] = target[c] => d = c

(***************************************************************************)
(* A caller on its own logs in with all of its credentials in the record,  *)
(* and with nothing of what an earlier call, cut short at any command, has *)
(* left in there.                                                          *)
(***************************************************************************)
Before(l) == CASE l = "authmethod" -> {"node"}
               [] l = "username"   -> {"node", "authmethod"}
               [] l = "password"   -> {"node", "authmethod", "username"}
               [] l = "login"      -> Settings
               [] OTHER            -> {}
InLogin == {"authmethod", "username", "password", "login"}
RecordPrepared ==
  \A c \in Callers :
    (Alone(c) /\ Reached /\ pc[c] \in InLogin) => record[target[c]] = Before(pc[c])

(***************************************************************************)
(* Callers who share a volume share its record, and one of them may be at  *)
(* its login while the record is not complete.  As long as no command      *)
(* fails there is always another one to explain it, in the middle of its   *)
(* commands: no caller leaves behind a record that would refuse the login  *)
(* of all the others.                                                      *)
(***************************************************************************)
CredentialsExplained ==
  (faults = 0 /\ Reached)
    => \A c \in Callers :
         (pc[c] = "login" /\ record[target[c]] # Settings)
           => \E d \in Callers : /\ target[d] = target[c]
                                 /\ pc[d] \in InLogin \ {"login"}

(***************************************************************************)
(* As long as nothing fails, a caller on its own is refused the login only *)
(* because its own session is there already: an earlier call of it logged  *)
(* in and gave up waiting for the device.  The first error of such a       *)
(* series is always that of the wait.                                      *)
(***************************************************************************)
LoginErrorExplained ==
  [][\A c \in Callers :
       (/\ ret'[c] # ret[c]
        /\ ret'[c].err \in Errors \ {"none", "missing"}
        /\ Alone(c) /\ Reached
        /\ faults' = 0)
         => ret'[c].err = "login" /\ ret[c].err = "missing"]_vars

(***************************************************************************)
(* The device that ConnectVolume returns is, at that moment, the one of    *)
(* the volume that was asked for and of no other volume, and its session   *)
(* is up: although names of devices are used again, and the session may be *)
(* lost between the wait that sees the path and the ls that reads it.      *)
(***************************************************************************)
DeviceOfVolume ==
  [][\A c \in Callers :
       (ret'[c] # ret[c] /\ ret'[c].err = "none")
         => /\ target[c] \in session'
            /\ {v \in Volumes : device'[v] = ret'[c].dev} = {target[c]}]_vars

(***************************************************************************)
(* A caller on its own that calls again after every error gets its device  *)
(* in the end, whatever an earlier call left behind, where the portal is   *)
(* the target's and the path is udev's.  (Callers who share a volume have  *)
(* no such promise: each may overwrite the record of the other before its  *)
(* login, for ever.)                                                       *)
(***************************************************************************)
EventuallyAttached ==
  (Reached /\ naming.svip = naming.link)
    => \A c \in Callers : Alone(c) ~> (ret[c].err = "none")

(***************************************************************************)
(* What the package says of itself (methods/README.md:5): it can perform   *)
(* iSCSI connect operations.  A caller on its own gets its device in the   *)
(* end, whatever the addresses look like.                                  *)
(***************************************************************************)
ConnectAttaches == \A c \in Callers : Alone(c) ~> (ret[c].err = "none")
=============================================================================

---------------------------- MODULE MCApiUpdate -----------------------------
EXTENDS ApiUpdate, ApiMethods

(***************************************************************************)
(* The methods of the API that change something that stays, each with the  *)
(* fields that tell which object.                                          *)
(***************************************************************************)
ObjectOf ==
  [ModifyAccount                |-> {"accountID"},
   ModifyBackupTarget           |-> {"backupTargetID"},
   ModifyClusterAdmin           |-> {"clusterAdminID"},
   ModifyClusterFullThreshold   |-> {},
   ModifyGroupSnapshot          |-> {"groupSnapshotID"},
   ModifyKeyServerKmip          |-> {"keyServerID"},
   ModifyQoSPolicy              |-> {"qosPolicyID"},
   ModifySchedule               |-> {"scheduleID"},
   ModifySnapMirrorEndpoint     |-> {"snapMirrorEndpointID"},
   ModifySnapMirrorRelationship |-> {"destinationVolume", "snapMirrorEndpointID"},
   ModifySnapshot               |-> {"snapshotID"},
   ModifyStorageContainer       |-> {"storageContainerID"},
   ModifyVasaProviderInfo       |-> {},
   ModifyVirtualNetwork         |-> {},
   ModifyVirtualVolume          |-> {"virtualVolumeID"},
   ModifyVirtualVolumeHost      |-> {"virtualVolumeHostID"},
   ModifyVirtualVolumeMetadata  |-> {"virtualVolumeID"},
   ModifyVolume                 |-> {"volumeID"},
   ModifyVolumeAccessGroup      |-> {"volumeAccessGroupID"},
   ModifyVolumePair             |-> {"volumeID"},
   ModifyVolumes                |-> {"volumeIDs"},
   SetDefaultQoS                |-> {},
   SetLldpConfig                |-> {},
   SetLoginBanner               |-> {},
   SetLoginSessionInfo          |-> {},
   SetNtpInfo                   |-> {},
   SetSnmpInfo                  |-> {},
   SetSnmpTrapInfo              |-> {},
   UpdateBulkVolumeStatus       |-> {"key"},
   UpdateIdpConfiguration       |-> {"idpConfigurationID"}]

Updating == DOMAIN ObjectOf

(***************************************************************************)
(* A method that changes nothing that stays has no object; what every call *)
(* of it must give takes the place.                                        *)
(***************************************************************************)
KeyOf(m) ==
  CASE m \in Updating             -> ObjectOf[m]
    [] m = "CreateGroupSnapshot" -> {"volumes"}
    [] m = "DeleteGroupSnapshot" -> {"groupSnapshotID"}
    [] OTHER                     -> Wrappers[m].required

(***************************************************************************)
(* What a change cannot do without.  No other Modify or Set method needs   *)
(* more than its object.                                                   *)
(***************************************************************************)
NeededBy(m) ==
  CASE m = "DeleteGroupSnapshot"         -> {"saveMembers"}
    [] m = "ModifySchedule"              -> {"attributes", "hours", "minutes",
                                             "scheduleName", "scheduleType"}
    [] m = "ModifyVirtualVolumeMetadata" -> {"metadata", "removeKeys"}
    [] m = "SetNtpInfo"                  -> {"servers"}
    [] m = "SetSnmpTrapInfo"             -> {"clusterFaultTrapsEnabled",
                                             "clusterFaultResolvedTrapsEnabled",
                                             "clusterEventTrapsEnabled"}
    [] m = "UpdateBulkVolumeStatus"      -> {"status"}
    [] OTHER                             -> {}

MethodOf(m) ==
  MethodRecord(m, Wrappers[m], KeyOf(m), NeededBy(m), m \in Updating)

(***************************************************************************)
(* These three hold a struct by value that has required fields, so a       *)
(* caller who does not name it sends it nevertheless.  StorePromise fails  *)
(* for each of them (generated_model.go:6684, 6686, 6948, 7329).           *)
(***************************************************************************)
StructAlwaysSent ==
  {"ListSnapMirrorRelationships", "ResyncSnapMirrorRelationship",
   "TestLdapAuthentication"}

AllMethods  == {MethodOf(m) : m \in DOMAIN Wrappers \ StructAlwaysSent}
WithFields  == {m \in AllMethods : FieldsOf(m) # {}}

(***************************************************************************)
(* Nothing tells the callers apart.                                        *)
(***************************************************************************)
UsersAlike == Permutations(Callers)

VolumePair == {MethodOf("ModifyVolumePair")}
=============================================================================

-------------------------- MODULE StorageRequests ---------------------------
(***************************************************************************)
(* The requests about what the cluster stores: volumes and their copies,   *)
(* snapshots, virtual volumes, accounts, access groups, schedules, mirrors,*)
(* and the asynchronous jobs on them.                                      *)
(***************************************************************************)
EXTENDS ApiRequests

FastCloneVirtualVolumeRequest ==
  WithObjects({"virtualVolumeID"},
              {"name", "metadata", "callingVirtualVolumeHostID"},
              [qos |-> QoS])
GetVirtualVolumeTaskUpdateRequest ==
  Fields({"virtualVolumeTaskID"}, {"callingVirtualVolumeHostID"})
CancelVirtualVolumeTaskRequest ==
  Fields({"virtualVolumeTaskID"}, {"callingVirtualVolumeHostID"})
CreateVirtualVolumeRequest ==
  WithObjects({"name", "storageContainerID", "virtualVolumeType", "totalSize"},
              {"metadata", "callingVirtualVolumeHostID"},
              [qos |-> QoS])
GetVirtualVolumeUnsharedChunksRequest ==
  Fields({"virtualVolumeID", "baseVirtualVolumeID", "segmentStart",
          "segmentLength", "chunkSize"},
         {"callingVirtualVolumeHostID"})
GetVirtualVolumeUnsharedBitmapRequest ==
  Fields({"virtualVolumeID", "baseVirtualVolumeID", "segmentStart",
          "segmentLength", "chunkSize"},
         {"callingVirtualVolumeHostID"})
SnapshotVirtualVolumeRequest ==
  Fields({"virtualVolumeID", "timeout"},
         {"metadata", "callingVirtualVolumeHostID"})
CopyDiffsToVirtualVolumeRequest ==
  Fields({"virtualVolumeID", "baseVirtualVolumeID", "dstVirtualVolumeID"},
         {"callingVirtualVolumeHostID"})
GetVirtualVolumeAllocatedBitmapRequest ==
  Fields({"virtualVolumeID", "segmentStart", "segmentLength", "chunkSize"},
         {"callingVirtualVolumeHostID"})
QueryVirtualVolumeMetadataRequest ==
  Fields({},
         {"queryConstraints", "wildcardConstraints",
          "callingVirtualVolumeHostID"})
ModifyVasaProviderInfoRequest ==
  Fields({}, {"keystore", "vasaProviderID", "options"})
CloneVirtualVolumeRequest ==
  WithObjects({"virtualVolumeID"},
              {"name", "metadata", "newContainerID",
               "callingVirtualVolumeHostID"},
              [qos |-> QoS])
CreateVirtualVolumeHostRequest ==
  Fields({"virtualVolumeHostID", "clusterID"},
         {"initiatorNames", "visibleProtocolEndpointIDs", "hostAddress",
          "callingVirtualVolumeHostID"})
DeleteVirtualVolumesRequest ==
  Fields({"virtualVolumes"}, {"callingVirtualVolumeHostID"})
PrepareVirtualSnapshotRequest ==
  Fields({"virtualVolumeID"},
         {"name", "writableSnapshot", "callingVirtualVolumeHostID"})
ModifyVirtualVolumeRequest ==
  WithObjects({"virtualVolumeID"},
              {"totalSize", "callingVirtualVolumeHostID"},
              [qos |-> QoS])
ModifyVirtualVolumeMetadataRequest ==
  Fields({"virtualVolumeID", "metadata", "removeKeys"},
         {"callingVirtualVolumeHostID"})
RollbackVirtualVolumeRequest ==
  Fields({"srcVirtualVolumeID", "dstVirtualVolumeID"},
         {"callingVirtualVolumeHostID"})
ListSnapMirrorVolumesRequest ==
  Fields({}, {"snapMirrorEndpointID", "vserver", "name", "type"})
CreateVolumeAccessGroupRequest ==
  Fields({"name"},
         {"initiators", "volumes", "virtualNetworkID", "virtualNetworkTags",
          "attributes"})
ListSnapMirrorPoliciesRequest == Fields({}, {"snapMirrorEndpointID"})
GetVolumeStatsRequest == Fields({"volumeID"}, {})
ListDeletedVolumesRequest == Fields({}, {"includeVirtualVolumes"})
ModifyVolumePairRequest ==
  Fields({"volumeID"}, {"pausedManual", "mode", "pauseLimit"})
GetStorageContainerEfficiencyRequest == Fields({"storageContainerID"}, {})
StartBulkVolumeWriteRequest ==
  Fields({"volumeID", "format"}, {"script", "scriptParameters", "attributes"})
ModifyStorageContainerRequest ==
  Fields({"storageContainerID"}, {"initiatorSecret", "targetSecret"})
CloneMultipleVolumesRequest ==
  Fields({"volumes"}, {"access", "groupSnapshotID", "newAccountID"})
AddInitiatorsToVolumeAccessGroupRequest ==
  Fields({"volumeAccessGroupID", "initiators"}, {})
CreateVolumeRequest ==
  Fields({"name", "accountID", "totalSize", "enable512e"},
         {"qos", "attributes", "sliceCount", "associateWithQoSPolicy",
          "access", "enableSnapMirrorReplication", "qosPolicyID",
          "protectionScheme"})
AbortRecoverDeadVolumesRequest == Fields({}, {"volumeIDs", "sliceIDs"})
RecoverDeadVolumesRequest == Fields({}, {"volumeIDs", "sliceIDs"})
RollbackToSnapshotRequest ==
  Fields({"volumeID", "snapshotID", "saveCurrentState"},
         {"name", "attributes"})
ModifyVolumeAccessGroupLunAssignmentsRequest ==
  Fields({"volumeAccessGroupID", "lunAssignments"}, {})
ListSnapMirrorVserversRequest ==
  Fields({}, {"snapMirrorEndpointID", "vserverType", "vserverName"})
CloneVolumeFromDeadRequest ==
  Fields({"volumeID", "srcServiceID", "name", "enable512e"},
         {"newAccountID", "newSize", "access", "snapshotID", "attributes"})
UnbindVirtualVolumesRequest ==
  Fields({"unbindContext", "virtualVolumeHostID", "unbindArgs"}, {})
ListVolumeStatsByVolumeAccessGroupRequest ==
  Fields({}, {"volumeAccessGroups", "includeVirtualVolumes"})
StartBulkVolumeReadRequest ==
  Fields({"volumeID", "format"},
         {"snapshotID", "script", "scriptParameters", "attributes"})
InitializeSnapMirrorRelationshipRequest ==
  Fields({"snapMirrorEndpointID", "destinationVolume"}, {"maxTransferRate"})
CreateScheduleRequest ==
  WithObjects({"scheduleName", "scheduleType", "attributes", "scheduleID"},
              {"monthdays", "weekdays", "hours", "minutes", "lastRunStatus",
               "runNextInterval", "paused", "recurring", "hasError",
               "startingDate", "toBeDeleted", "snapMirrorLabel"},
              [scheduleInfo |-> ScheduleInfo])
ModifyBackupTargetRequest ==
  Fields({"backupTargetID"}, {"name", "attributes"})
ModifyQoSPolicyRequest ==
  WithObjects({"qosPolicyID"}, {"name"}, [qos |-> QoS])
ModifyInitiatorsRequest == Fields({"initiators"}, {})
ListActiveVolumesRequest ==
  Fields({}, {"startVolumeID", "limit", "includeVirtualVolumes"})
CreateSnapMirrorVolumeRequest ==
  Fields({"snapMirrorEndpointID", "vserver", "name", "aggregate", "size"},
         {"type"})
DeleteSnapMirrorRelationshipsRequest ==
  Fields({"snapMirrorEndpointID", "destinationVolumes"}, {})
ModifyVolumeRequestQosAlways ==                                   \* mutant
  Fields({"volumeID", "qos"},
         {"accountID", "access", "totalSize", "setCreateTime",
          "createTime", "attributes", "associateWithQoSPolicy", "qosPolicyID",
          "enableSnapMirrorReplication"})
ModifyVolumeRequest ==
  Fields({"volumeID"},
         {"accountID", "access", "qos", "totalSize", "setCreateTime",
          "createTime", "attributes", "associateWithQoSPolicy", "qosPolicyID",
          "enableSnapMirrorReplication"})
DeleteStorageContainersRequest == Fields({"storageContainerIDs"}, {})
ListVirtualVolumeTasksRequest == Fields({}, {"virtualVolumeTaskIDs"})
ListVolumeQoSHistogramsRequest == Fields({}, {"volumeIDs"})
ListVirtualVolumesRequest ==
  Fields({},
         {"details", "limit", "recursive", "startVirtualVolumeID",
          "virtualVolumeIDs"})
GetAccountEfficiencyRequest == Fields({"accountID"}, {})
RemoveAccountRequest == Fields({"accountID"}, {})
ListSnapMirrorLunsRequest ==
  Fields({"snapMirrorEndpointID", "destinationVolume"}, {})
DeleteSnapMirrorEndpointsRequest == Fields({"snapMirrorEndpointIDs"}, {})
ComputeVolumeChecksumRequest ==
  Fields({"volumeID"}, {"snapshotID", "forceReadFromDiskAndRecompute"})
RestoreDeletedVolumeRequest == Fields({"volumeID"}, {})
ListVolumeStatsByAccountRequest ==
  Fields({}, {"accounts", "includeVirtualVolumes"})
GetAsyncResultRequest == Fields({"asyncHandle"}, {"keepResult"})
SetDefaultQoSRequest == Fields({}, {"minIOPS", "maxIOPS", "burstIOPS"})
ListVolumesRequest ==
  Fields({},
         {"startVolumeID", "limit", "volumeStatus", "accounts", "isPaired",
          "volumeIDs", "volumeName", "includeVirtualVolumes",
          "protectionSchemes"})
StartVolumePairingRequest == Fields({"volumeID"}, {"mode"})
ListSnapMirrorRelationshipsRequest ==
  WithObjects({},
              {"snapMirrorEndpointID", "vserver", "relationshipID"},
              [destinationVolume |-> SnapMirrorVolumeInfo, sourceVolume |-> SnapMirrorVolumeInfo])
DeleteVolumesRequest ==
  Fields({}, {"accountIDs", "volumeAccessGroupIDs", "volumeIDs"})
DeleteStandbySlicesRequest == Fields({"sliceIDs"}, {})
RollbackToGroupSnapshotRequest ==
  Fields({"groupSnapshotID", "saveCurrentState"}, {"name", "attributes"})
BreakSnapMirrorRelationshipRequest ==
  Fields({"snapMirrorEndpointID", "destinationVolume"}, {})
ListSnapMirrorNetworkInterfacesRequest ==
  Fields({}, {"snapMirrorEndpointID", "interfaceRole"})
ListVolumeAccessGroupsRequest ==
  Fields({}, {"startVolumeAccessGroupID", "limit", "volumeAccessGroups"})
UpdateSnapMirrorRelationshipRequest ==
  Fields({"snapMirrorEndpointID", "destinationVolume"}, {"maxTransferRate"})
GetVolumeEfficiencyRequest == Fields({"volumeID"}, {})
PurgeDeletedVolumesRequest ==
  Fields({}, {"volumeIDs", "accountIDs", "volumeAccessGroupIDs"})
BreakSnapMirrorVolumeRequest ==
  Fields({"volumeID"}, {"snapshotID", "preserve", "access"})
RemoveInitiatorsFromVolumeAccessGroupRequest ==
  Fields({"volumeAccessGroupID", "initiators"}, {"deleteOrphanInitiators"})
CreateMultipleVolumesRequest ==
  WithObjects({"names", "accountID", "totalSize", "enable512e"},
              {"attributes", "associateWithQoSPolicy", "qosPolicyID",
               "access", "volumeIDs", "__skipFullnessCheck",
               "enableSnapMirrorReplication", "protectionScheme"},
              [qos |-> QoS])
ResyncSnapMirrorRelationshipRequest ==
  WithObjects({"snapMirrorEndpointID", "destinationVolume"},
              {"maxTransferRate"},
              [sourceVolume |-> SnapMirrorVolumeInfo])
ListStorageContainersRequest == Fields({}, {"storageContainerIDs"})
DeleteVolumeRequest == Fields({"volumeID"}, {})
GetVolumeAccessGroupEfficiencyRequest == Fields({"volumeAccessGroupID"}, {})
ModifyGroupSnapshotRequest ==
  Fields({"groupSnapshotID"},
         {"expirationTime", "enableRemoteReplication", "snapMirrorLabel"})
GetQoSPolicyRequest == Fields({"qosPolicyID"}, {})
QuiesceSnapMirrorRelationshipRequest ==
  Fields({"snapMirrorEndpointID", "destinationVolume"}, {})
ListGroupSnapshotsRequest == Fields({}, {"volumes", "groupSnapshotID"})
DeleteQoSPolicyRequest == Fields({"qosPolicyID"}, {})
CreateGroupSnapshotRequest ==
  Fields({"volumes"},
         {"name", "enableRemoteReplication", "retention", "attributes",
          "snapMirrorLabel", "ensureSerialCreation"})
GetVolumeAccessGroupLunAssignmentsRequest ==
  Fields({"volumeAccessGroupID"}, {})
CreateInitiatorsRequest == Fields({"initiators"}, {})
CheckVolumeStandbysAssignedRequest == Fields({"nodeID"}, {})
ListVirtualVolumeBindingsRequest == Fields({}, {"virtualVolumeBindingIDs"})
CreateQoSPolicyRequest == Fields({"name", "qos"}, {})
ModifyVolumesRequest ==
  WithObjects({"volumeIDs"},
              {"accountID", "access", "totalSize", "associateWithQoSPolicy",
               "qosPolicyID", "attributes", "enableSnapMirrorReplication"},
              [qos |-> QoS])
ListVolumeStatsRequest == Fields({}, {"volumeIDs"})
GetSnapMirrorClusterIdentityRequest == Fields({}, {"snapMirrorEndpointID"})
ListAccountsRequest ==
  Fields({}, {"startAccountID", "limit", "includeStorageContainers"})
GetBackupTargetRequest == Fields({"backupTargetID"}, {})
ListSnapMirrorAggregatesRequest == Fields({}, {"snapMirrorEndpointID"})
AddVolumesToVolumeAccessGroupRequest ==
  Fields({"volumeAccessGroupID", "volumes"}, {})
ModifySnapshotRequest ==
  Fields({"snapshotID"},
         {"expirationTime", "enableRemoteReplication", "snapMirrorLabel"})
AddAccountRequest ==
  Fields({"username"}, {"initiatorSecret", "targetSecret", "attributes"})
ModifySnapMirrorRelationshipRequest ==
  Fields({"destinationVolume", "snapMirrorEndpointID"},
         {"maxTransferRate", "policyName", "scheduleName"})
ListInitiatorsRequest ==
  Fields({}, {"startInitiatorID", "limit", "initiators"})
ModifySnapMirrorEndpointRequest ==
  Fields({"snapMirrorEndpointID"}, {"managementIP", "username", "password"})
ListSnapshotsRequest == Fields({}, {"volumeID", "snapshotID", "internal"})
ResurrectDeadVirtualVolumeRequest == Fields({"volumeID", "deadServiceID"}, {})
DeleteGroupSnapshotRequest == Fields({"groupSnapshotID", "saveMembers"}, {})
CreateSnapshotRequest ==
  Fields({"volumeID"},
         {"snapshotID", "name", "enableRemoteReplication", "retention",
          "attributes", "snapMirrorLabel"})
CreateSnapMirrorEndpointRequest ==
  Fields({"managementIP", "username", "password"}, {})
CreateBackupTargetRequest == Fields({"name", "attributes"}, {})
CopyVolumeRequest == Fields({"volumeID", "dstVolumeID"}, {"snapshotID"})
BindVirtualVolumesRequest ==
  Fields({"virtualVolumeIDs", "virtualVolumeHostID", "bindContext"}, {})
ListVirtualVolumeHostsRequest == Fields({}, {"virtualVolumeHostIDs"})
ModifyVolumeAccessGroupRequest ==
  Fields({"volumeAccessGroupID"},
         {"virtualNetworkID", "virtualNetworkTags", "name", "initiators",
          "volumes", "deleteOrphanInitiators", "attributes"})
ListSnapMirrorNodesRequest == Fields({}, {"snapMirrorEndpointID"})
ListVolumeStatsByVirtualVolumeRequest == Fields({}, {"virtualVolumeIDs"})
CompleteVolumePairingRequest == Fields({"volumePairingKey", "volumeID"}, {})
ListActivePairedVolumesRequest == Fields({}, {"startVolumeID", "limit"})
RemoveVolumesFromVolumeAccessGroupRequest ==
  Fields({"volumeAccessGroupID", "volumes"}, {})
RemoveBackupTargetRequest == Fields({"backupTargetID"}, {})
ModifyAccountRequest ==
  Fields({"accountID"},
         {"username", "status", "initiatorSecret", "targetSecret",
          "attributes"})
RemoveVolumePairRequest == Fields({"volumeID"}, {})
ModifyScheduleRequest ==
  WithObjects({"scheduleName", "hours", "minutes", "scheduleType",
               "attributes", "scheduleID"},
              {"monthdays", "weekdays", "lastRunStatus", "runNextInterval",
               "paused", "recurring", "hasError", "startingDate",
               "toBeDeleted", "snapMirrorLabel"},
              [scheduleInfo |-> ScheduleInfo])
DeleteSnapshotRequest == Fields({"snapshotID"}, {})
CancelCloneRequest == Fields({"cloneID"}, {})
ListSnapMirrorEndpointsRequest == Fields({}, {"snapMirrorEndpointIDs"})
PurgeDeletedVolumeRequest == Fields({"volumeID"}, {})
GetAccountByNameRequest == Fields({"username"}, {})
DeleteInitiatorsRequest == Fields({"initiators"}, {})
ListAsyncResultsRequest == Fields({}, {"asyncResultTypes"})
ResumeSnapMirrorRelationshipRequest ==
  Fields({"snapMirrorEndpointID", "destinationVolume"}, {})
GetAccountByIDRequest == Fields({"accountID"}, {})
CloneVolumeRequest ==
  Fields({"volumeID", "name", "enable512e"},
         {"newAccountID", "newSize", "access", "snapshotID", "attributes",
          "enableSnapMirrorReplication"})
ListVolumeStatsByVolumeRequest == Fields({}, {"includeVirtualVolumes"})
ModifyVirtualVolumeHostRequest ==
  Fields({"virtualVolumeHostID"},
         {"clusterID", "visibleProtocolEndpointIDs", "initiatorNames",
          "hostAddress", "callingVirtualVolumeHostID"})
CreateStorageContainerRequest ==
  Fields({"name"}, {"initiatorSecret", "targetSecret", "accountID"})
ListVolumesForAccountRequest ==
  Fields({"accountID"}, {"startVolumeID", "limit", "includeVirtualVolumes"})
DeleteVolumeAccessGroupRequest ==
  Fields({"volumeAccessGroupID"}, {"deleteOrphanInitiators", "force"})
UnbindAllVirtualVolumesFromHostRequest == Fields({"virtualVolumeHostID"}, {})
UpdateBulkVolumeStatusRequest ==
  Fields({"key", "status"}, {"percentComplete", "message", "attributes"})
GetScheduleRequest == Fields({"scheduleID"}, {})
CreateSnapMirrorRelationshipRequest ==
  Fields({"snapMirrorEndpointID", "sourceVolume", "destinationVolume"},
         {"relationshipType", "policyName", "scheduleName", "maxTransferRate"})
AbortSnapMirrorRelationshipRequest ==
  Fields({"snapMirrorEndpointID", "destinationVolume"}, {"clearCheckpoint"})
ListSnapMirrorSchedulesRequest == Fields({}, {"snapMirrorEndpointID"})
CancelGroupCloneRequest == Fields({"groupCloneID"}, {})
=============================================================================

---------------------------- MODULE ApiMethods ----------------------------
(*****************************************************************************)
(* The methods of the API (sdk/generated_methods.go).  Each is one           *)
(* wrapper, and all wrappers are alike: it hands its own name, its request   *)
(* if it takes one, and a result of its own type to MakeSFCall, and          *)
(* returns that result with the error.  So a wrapper is given by the         *)
(* request that it sends.  The groups stand in the order of the file and     *)
(* are cut where they are long.                                              *)
(*****************************************************************************)
EXTENDS StorageRequests, ClusterRequests, TLC

NoRequest == Fields({}, {})

Wrappers1 ==
  [ListClusterPairs |-> NoRequest,
   ListSnapMirrorPolicies |-> ListSnapMirrorPoliciesRequest,
   RollbackVirtualVolume |-> RollbackVirtualVolumeRequest,
   GetVolumeStats |-> GetVolumeStatsRequest,
   ListDeletedVolumes |-> ListDeletedVolumesRequest,
   GetDriveHardwareInfo |-> GetDriveHardwareInfoRequest,
   GetVirtualVolumeCount |-> NoRequest,
   ModifyVolumePair |-> ModifyVolumePairRequest,
   GetStorageContainerEfficiency |-> GetStorageContainerEfficiencyRequest,
   CopyDiffsToVirtualVolume |-> CopyDiffsToVirtualVolumeRequest,
   StartBulkVolumeWrite |-> StartBulkVolumeWriteRequest,
   AddClusterAdmin |-> AddClusterAdminRequest,
   SetConfig |-> SetConfigRequest,
   RestartNetworking |-> RestartNetworkingRequest,
   ModifyStorageContainer |-> ModifyStorageContainerRequest,
   GetAPI |-> GetAPIRequest,
   ListKeyProvidersKmip |-> ListKeyProvidersKmipRequest,
   CreateClusterInterfacePreference |-> CreateClusterInterfacePreferenceRequest,
   GetKeyProviderKmip |-> GetKeyProviderKmipRequest]

Wrappers2 ==
  [ListVirtualNetworks |-> ListVirtualNetworksRequest,
   ListProtocolEndpoints |-> ListProtocolEndpointsRequest,
   CloneMultipleVolumes |-> CloneMultipleVolumesRequest,
   GetClusterHardwareInfo |-> GetClusterHardwareInfoRequest,
   ListSnapMirrorObjectAttributes |-> NoRequest,
   AddInitiatorsToVolumeAccessGroup |-> AddInitiatorsToVolumeAccessGroupRequest,
   ReadSliceLBAChecksum |-> NoRequest,
   SetNodeSSLCertificate |-> SetNodeSSLCertificateRequest,
   SnmpSendTestTraps |-> NoRequest,
   GetVirtualVolumeUnsharedChunks |-> GetVirtualVolumeUnsharedChunksRequest,
   CreateVolume |-> CreateVolumeRequest,
   ModifyClusterInterfacePreference |-> ModifyClusterInterfacePreferenceRequest,
   CreateAuthSession |-> CreateAuthSessionRequest,
   ListEvents |-> ListEventsRequest, ListBulkVolumeJobs |-> NoRequest,
   SetConstants |-> NoRequest, GetEncryptionAtRestInfo |-> NoRequest,
   AbortRecoverDeadVolumes |-> AbortRecoverDeadVolumesRequest]

Wrappers3 ==
  [GetActiveTlsCiphers |-> NoRequest, GetLocalStats |-> NoRequest,
   RecoverDeadVolumes |-> RecoverDeadVolumesRequest,
   SetProtectionDomainLayout |-> SetProtectionDomainLayoutRequest,
   IsUpgradeInProgress |-> NoRequest,
   ClearClusterFaults |-> ClearClusterFaultsRequest,
   GetOrigin |-> GetOriginRequest, ForceWholeFileSync |-> NoRequest,
   RollbackToSnapshot |-> RollbackToSnapshotRequest,
   TestPing |-> TestPingRequest, ListFibreChannelSessions |-> NoRequest,
   TestKeyServerKmip |-> TestKeyServerKmipRequest,
   ModifyVolumeAccessGroupLunAssignments |-> ModifyVolumeAccessGroupLunAssignmentsRequest,
   CreateSupportBundle |-> CreateSupportBundleRequest,
   GetDebugOptions |-> NoRequest, ListNetworkInterfaces |-> NoRequest]

Wrappers4 ==
  [ListSnapMirrorVservers |-> ListSnapMirrorVserversRequest,
   CloneVolumeFromDead |-> CloneVolumeFromDeadRequest,
   EnableProtectionSchemes |-> EnableProtectionSchemesRequest,
   SetClusterConfig |-> SetClusterConfigRequest, FillSlice |-> NoRequest,
   GetNetworkConfig |-> GetNetworkConfigRequest,
   SetSnmpACL |-> SetSnmpACLRequest, GetNvramInfo |-> GetNvramInfoRequest,
   CreateEvent |-> NoRequest, GetKeyServerKmip |-> GetKeyServerKmipRequest,
   UnbindVirtualVolumes |-> UnbindVirtualVolumesRequest,
   ListClusterAdmins |-> ListClusterAdminsRequest,
   GetConfig |-> GetConfigRequest,
   QueryVirtualVolumeMetadata |-> QueryVirtualVolumeMetadataRequest,
   ListVolumeStatsByVolumeAccessGroup |-> ListVolumeStatsByVolumeAccessGroupRequest,
   GetNodeHardwareInfo |-> GetNodeHardwareInfoRequest,
   StartClusterPairing |-> NoRequest, ProtocolVersionUpgrade |-> NoRequest,
   ListActiveNodes |-> NoRequest]

Wrappers5 ==
  [StartBulkVolumeRead |-> StartBulkVolumeReadRequest,
   GetNtpInfo |-> NoRequest, GetClusterStructure |-> NoRequest,
   InitializeSnapMirrorRelationship |-> InitializeSnapMirrorRelationshipRequest,
   GetIpmiConfig |-> GetIpmiConfigRequest,
   SecureEraseDrives |-> SecureEraseDrivesRequest,
   ModifySliceReserveUsedThresholdPct |-> NoRequest,
   CreateSchedule |-> CreateScheduleRequest,
   DisableStandbySliceAssignments |-> NoRequest,
   ModifyQoSPolicy |-> ModifyQoSPolicyRequest,
   ModifyBackupTarget |-> ModifyBackupTargetRequest,
   GetClusterVersionInfo |-> NoRequest, EnableClusterSsh |-> NoRequest,
   GetNodeConstants |-> GetNodeConstantsRequest,
   TestConnectSvip |-> TestConnectSvipRequest,
   ListBackupTargets |-> NoRequest,
   ModifyInitiators |-> ModifyInitiatorsRequest,
   ListDriveStats |-> ListDriveStatsRequest]

Wrappers6 ==
  [ListActiveVolumes |-> ListActiveVolumesRequest,
   GetNodeActiveTlsCiphers |-> NoRequest,
   CreateSnapMirrorVolume |-> CreateSnapMirrorVolumeRequest,
   DeleteSnapMirrorRelationships |-> DeleteSnapMirrorRelationshipsRequest,
   ModifyVolume |-> ModifyVolumeRequest, GetClusterCapacity |-> NoRequest,
   ListIdpConfigurations |-> ListIdpConfigurationsRequest,
   ListPendingNodes |-> NoRequest,
   DeleteStorageContainers |-> DeleteStorageContainersRequest,
   ListVirtualVolumeTasks |-> ListVirtualVolumeTasksRequest,
   CreateIdpAuthSession |-> CreateIdpAuthSessionRequest,
   GetGCStatus |-> NoRequest, RemoveNodeSSLCertificate |-> NoRequest,
   ReassignSlicesForZoneTolerance |-> NoRequest,
   GetBinAssignments |-> NoRequest, ListRepositories |-> NoRequest,
   MovePrimariesAwayFromNode |-> NoRequest,
   GetNodeStats |-> GetNodeStatsRequest,
   ListVolumeQoSHistograms |-> ListVolumeQoSHistogramsRequest]

Wrappers7 ==
  [RegenerateClusterUuid |-> NoRequest, ResetNode |-> ResetNodeRequest,
   ListVirtualVolumes |-> ListVirtualVolumesRequest,
   GetProtectionDomainLayout |-> NoRequest,
   GetAccountEfficiency |-> GetAccountEfficiencyRequest,
   DisableProtectionSchemes |-> DisableProtectionSchemesRequest,
   RemoveAccount |-> RemoveAccountRequest, GetClusterInfo |-> NoRequest,
   EnableFeature |-> EnableFeatureRequest,
   ListSnapMirrorLuns |-> ListSnapMirrorLunsRequest,
   CreateVirtualVolumeHost |-> CreateVirtualVolumeHostRequest,
   DeleteSnapMirrorEndpoints |-> DeleteSnapMirrorEndpointsRequest,
   ComputeVolumeChecksum |-> ComputeVolumeChecksumRequest,
   RestoreDeletedVolume |-> RestoreDeletedVolumeRequest,
   GetLdapConfiguration |-> NoRequest,
   CreateSnapMirrorEndpointUnmanaged |-> NoRequest,
   GetBootstrapConfig |-> NoRequest,
   ListVolumeStatsByAccount |-> ListVolumeStatsByAccountRequest,
   RebalanceSlices |-> NoRequest, GetVolumeCount |-> NoRequest]

Wrappers8 ==
  [GetAsyncResult |-> GetAsyncResultRequest,
   EnableEncryptionAtRest |-> EnableEncryptionAtRestRequest,
   SetDefaultQoS |-> SetDefaultQoSRequest, GetSystemStatus |-> NoRequest,
   StartUpgrade |-> NoRequest, ListNodeStats |-> NoRequest,
   ListVolumes |-> ListVolumesRequest, ResetDrives |-> ResetDrivesRequest,
   SetAptSourceLines |-> NoRequest,
   GetNodeSupportedTlsCiphers |-> NoRequest,
   ResetNodeSupplementalTlsCiphers |-> NoRequest,
   StartVolumePairing |-> StartVolumePairingRequest,
   RemoveClusterAdmin |-> RemoveClusterAdminRequest,
   DeleteVolumes |-> DeleteVolumesRequest,
   ListSnapMirrorRelationships |-> ListSnapMirrorRelationshipsRequest]

Wrappers9 ==
  [RemoveVirtualNetwork |-> RemoveVirtualNetworkRequest,
   DeleteStandbySlices |-> DeleteStandbySlicesRequest,
   GetDefaultQoS |-> NoRequest, ListExpiredAuthSessions |-> NoRequest,
   GetSliceReserveUsedThresholdPct |-> NoRequest,
   GetIdpAuthenticationState |-> NoRequest,
   ModifySnapMirrorEndpointUnmanaged |-> NoRequest,
   ListTests |-> ListTestsRequest,
   GetVirtualVolumeUnsharedBitmap |-> GetVirtualVolumeUnsharedBitmapRequest,
   ListCurrentClusterAdmins |-> NoRequest, ListServices |-> NoRequest,
   RollbackToGroupSnapshot |-> RollbackToGroupSnapshotRequest,
   ResetSupplementalTlsCiphers |-> NoRequest,
   ModifyVasaProviderInfo |-> ModifyVasaProviderInfoRequest,
   EnableStandbySliceAssignments |-> NoRequest,
   BreakSnapMirrorRelationship |-> BreakSnapMirrorRelationshipRequest,
   AddKeyServerToProviderKmip |-> AddKeyServerToProviderKmipRequest,
   ListSnapMirrorNetworkInterfaces |-> ListSnapMirrorNetworkInterfacesRequest,
   DeleteVirtualVolumeHosts |-> NoRequest]

Wrappers10 ==
  [ListVolumeAccessGroups |-> ListVolumeAccessGroupsRequest,
   GetVolumeEfficiency |-> GetVolumeEfficiencyRequest,
   PurgeDeletedVolumes |-> PurgeDeletedVolumesRequest,
   DeleteAuthSessionsByClusterAdmin |-> DeleteAuthSessionsByClusterAdminRequest,
   UpdateSnapMirrorRelationship |-> UpdateSnapMirrorRelationshipRequest,
   SetInitiatorID |-> NoRequest,
   BreakSnapMirrorVolume |-> BreakSnapMirrorVolumeRequest,
   GetConstants |-> GetConstantsRequest, ReassignSlice |-> NoRequest,
   RemoveInitiatorsFromVolumeAccessGroup |-> RemoveInitiatorsFromVolumeAccessGroupRequest,
   CreateMultipleVolumes |-> CreateMultipleVolumesRequest,
   SetLldpConfig |-> SetLldpConfigRequest,
   GetThreadBacktraces |-> NoRequest,
   CheckProposedCluster |-> CheckProposedClusterRequest,
   RemoveClusterPair |-> RemoveClusterPairRequest,
   DeleteVirtualVolumes |-> DeleteVirtualVolumesRequest,
   ListClusterFaults |-> ListClusterFaultsRequest,
   ListStorageContainers |-> ListStorageContainersRequest]

Wrappers11 ==
  [DeleteVolume |-> DeleteVolumeRequest,
   GetVolumeAccessGroupEfficiency |-> GetVolumeAccessGroupEfficiencyRequest,
   RemoveNodes |-> RemoveNodesRequest,
   ResyncSnapMirrorRelationship |-> ResyncSnapMirrorRelationshipRequest,
   SetProtectionDomainLayoutChassisOverride |-> SetProtectionDomainLayoutChassisOverrideRequest,
   CreateClusterFault |-> NoRequest,
   ModifyGroupSnapshot |-> ModifyGroupSnapshotRequest,
   GetClusterState |-> GetClusterStateRequest,
   GetVolumeSetEfficiency |-> NoRequest, ListCloneJobs |-> NoRequest,
   SetRsyslogInfo |-> NoRequest,
   PromoteClusterMaster |-> PromoteClusterMasterRequest,
   CreateDatabaseEntry |-> NoRequest, GetReport |-> NoRequest,
   CancelVirtualVolumeTask |-> CancelVirtualVolumeTaskRequest,
   UpdateIdpConfiguration |-> UpdateIdpConfigurationRequest,
   GetQoSPolicy |-> GetQoSPolicyRequest]

Wrappers12 ==
  [GetRawStats |-> NoRequest,
   CreatePublicPrivateKeyPair |-> CreatePublicPrivateKeyPairRequest,
   TestConnectMvip |-> TestConnectMvipRequest,
   GetVirtualVolumeAllocatedBitmap |-> GetVirtualVolumeAllocatedBitmapRequest,
   PairCluster |-> NoRequest, PurgeAllDeletedVolumes |-> NoRequest,
   ListKeyServersKmip |-> ListKeyServersKmipRequest,
   QuiesceSnapMirrorRelationship |-> QuiesceSnapMirrorRelationshipRequest,
   GetCompleteStats |-> NoRequest,
   ListGroupSnapshots |-> ListGroupSnapshotsRequest,
   GetSliceFileSizeReport |-> NoRequest, GetSnmpInfo |-> NoRequest,
   SetSnmpInfo |-> SetSnmpInfoRequest, GetRemoteLoggingHosts |-> NoRequest,
   ListProtectionDomainLevels |-> NoRequest,
   ListAptSourceLines |-> NoRequest, PairVolume |-> NoRequest,
   ListNodeFibreChannelPortInfo |-> NoRequest,
   ModifyVirtualVolumeMetadata |-> ModifyVirtualVolumeMetadataRequest]

Wrappers13 ==
  [CreateCluster |-> CreateClusterRequest,
   GetClusterConfig |-> GetClusterConfigRequest,
   DeleteQoSPolicy |-> DeleteQoSPolicyRequest,
   GetVolumeAccessGroupLunAssignments |-> GetVolumeAccessGroupLunAssignmentsRequest,
   DisableBmcColdReset |-> NoRequest,
   CreateGroupSnapshot |-> CreateGroupSnapshotRequest,
   SetRemoteLoggingHosts |-> SetRemoteLoggingHostsRequest,
   AddBlockToBS |-> AddBlockToBSRequest,
   CreateInitiators |-> CreateInitiatorsRequest,
   ReconfigureEnsemble |-> NoRequest,
   CheckVolumeStandbysAssigned |-> CheckVolumeStandbysAssignedRequest,
   ListAuthSessionsByClusterAdmin |-> ListAuthSessionsByClusterAdminRequest,
   SetAuthConfiguration |-> SetAuthConfigurationRequest,
   GetSupportedTlsCiphers |-> NoRequest,
   GetDriveConfig |-> GetDriveConfigRequest, SetUpgradeNodeId |-> NoRequest,
   ListVirtualVolumeBindings |-> ListVirtualVolumeBindingsRequest,
   SetSSLCertificate |-> SetSSLCertificateRequest]

Wrappers14 ==
  [CreateIdpConfiguration |-> CreateIdpConfigurationRequest,
   CompleteClusterPairing |-> CompleteClusterPairingRequest,
   CreateQoSPolicy |-> CreateQoSPolicyRequest,
   ModifyVolumes |-> ModifyVolumesRequest,
   DeleteSnapMirrorObjectAttributes |-> NoRequest,
   SetClusterSettings |-> NoRequest, DisconnectISCSISessions |-> NoRequest,
   ListVolumeStats |-> ListVolumeStatsRequest,
   RemoveDrives |-> RemoveDrivesRequest,
   GetHardwareConfig |-> GetHardwareConfigRequest,
   GetSnapMirrorClusterIdentity |-> GetSnapMirrorClusterIdentityRequest,
   GetLoginBanner |-> NoRequest, GetLldpInfo |-> NoRequest,
   ListActiveAuthSessions |-> NoRequest,
   DeleteIdpConfiguration |-> DeleteIdpConfigurationRequest,
   FinishUpgrade |-> NoRequest, ListAccounts |-> ListAccountsRequest,
   DeleteDatabaseEntry |-> NoRequest]

Wrappers15 ==
  [GetBackupTarget |-> GetBackupTargetRequest, GetLimits |-> NoRequest,
   DeleteSnapshotSnapMirrorObjectAttributes |-> NoRequest,
   GetClusterSettings |-> NoRequest, Shutdown |-> ShutdownRequest,
   DemoteClusterMaster |-> DemoteClusterMasterRequest,
   GetClusterFullThreshold |-> NoRequest, GetSnmpState |-> NoRequest,
   TestLdapAuthentication |-> TestLdapAuthenticationRequest,
   ListSnapMirrorAggregates |-> ListSnapMirrorAggregatesRequest,
   CreateKeyServerKmip |-> CreateKeyServerKmipRequest,
   ModifyKeyServerKmip |-> ModifyKeyServerKmipRequest,
   EnableIdpAuthentication |-> EnableIdpAuthenticationRequest,
   GetRsyslogInfo |-> NoRequest,
   CreateVirtualVolume |-> CreateVirtualVolumeRequest,
   AddVolumesToVolumeAccessGroup |-> AddVolumesToVolumeAccessGroupRequest,
   AddIdpClusterAdmin |-> AddIdpClusterAdminRequest, StartGC |-> NoRequest]

Wrappers16 ==
  [ModifyVirtualNetwork |-> ModifyVirtualNetworkRequest,
   AddDrives |-> AddDrivesRequest, ModifySnapshot |-> ModifySnapshotRequest,
   SetClusterFullThresholds |-> NoRequest,
   ModifySnapMirrorRelationship |-> ModifySnapMirrorRelationshipRequest,
   AddAccount |-> AddAccountRequest, EnableBmcColdReset |-> NoRequest,
   RemoveKeyServerFromProviderKmip |-> RemoveKeyServerFromProviderKmipRequest,
   DisableSnmp |-> NoRequest, GetSnmpACL |-> NoRequest,
   GetSnmpTrapInfo |-> NoRequest, ListInitiators |-> ListInitiatorsRequest,
   SetRepositories |-> NoRequest, GetSliceInfo |-> NoRequest,
   ListSnapshots |-> ListSnapshotsRequest,
   ResurrectDeadVirtualVolume |-> ResurrectDeadVirtualVolumeRequest,
   ListDrives |-> NoRequest]

Wrappers17 ==
  [ModifySnapMirrorEndpoint |-> ModifySnapMirrorEndpointRequest,
   UpdateAuthSession |-> UpdateAuthSessionRequest,
   SetLoginSessionInfo |-> SetLoginSessionInfoRequest,
   ListSliceBranchesByService |-> NoRequest,
   DeleteGroupSnapshot |-> DeleteGroupSnapshotRequest,
   GetImmutableValues |-> NoRequest,
   DeleteAuthSessionsByUsername |-> DeleteAuthSessionsByUsernameRequest,
   CheckProposedNodeAdditions |-> CheckProposedNodeAdditionsRequest,
   CreateSnapshot |-> CreateSnapshotRequest,
   PrepareVirtualSnapshot |-> PrepareVirtualSnapshotRequest,
   EnableLdapAuthentication |-> EnableLdapAuthenticationRequest,
   StopClusterBSCheck |-> NoRequest,
   DeleteKeyServerKmip |-> DeleteKeyServerKmipRequest,
   TestConnectEnsemble |-> TestConnectEnsembleRequest,
   ListClusterInterfacePreferences |-> NoRequest,
   GetDatabaseEntry |-> NoRequest, ForceRecycle |-> NoRequest,
   ModifyClusterFault |-> NoRequest,
   CreateKeyProviderKmip |-> CreateKeyProviderKmipRequest,
   RestartServices |-> RestartServicesRequest]

Wrappers18 ==
  [CreateSnapMirrorEndpoint |-> CreateSnapMirrorEndpointRequest,
   AddLdapClusterAdmin |-> AddLdapClusterAdminRequest,
   APIWriteBlock |-> NoRequest, ListSchedules |-> NoRequest,
   CopyVolume |-> CopyVolumeRequest,
   CreateBackupTarget |-> CreateBackupTargetRequest,
   SetDaemonStatus |-> NoRequest,
   GetFeatureStatus |-> GetFeatureStatusRequest, ReadSliceLBA |-> NoRequest,
   SetNetworkConfig |-> SetNetworkConfigRequest,
   GetNodeSSLCertificate |-> NoRequest,
   BindVirtualVolumes |-> BindVirtualVolumesRequest,
   ListVirtualVolumeHosts |-> ListVirtualVolumeHostsRequest,
   ModifyVolumeAccessGroup |-> ModifyVolumeAccessGroupRequest,
   DeleteAllSupportBundles |-> NoRequest,
   GetFibreChannelVolumeAccessInfo |-> NoRequest,
   GetLldpConfig |-> NoRequest, GetFipsReport |-> NoRequest,
   DeleteClusterInterfacePreference |-> DeleteClusterInterfacePreferenceRequest]

Wrappers19 ==
  [RemoveBlockFromBS |-> RemoveBlockFromBSRequest,
   GetHardwareInfo |-> NoRequest,
   ListVolumeStatsByVirtualVolume |-> ListVolumeStatsByVirtualVolumeRequest,
   ListSnapMirrorNodes |-> ListSnapMirrorNodesRequest,
   GetAuthConfiguration |-> GetAuthConfigurationRequest,
   GetCurrentClusterAdmin |-> NoRequest,
   ListDriveHardware |-> ListDriveHardwareRequest,
   BDTPipeline |-> NoRequest, EnableSnmp |-> EnableSnmpRequest,
   ModifyClusterFullThreshold |-> ModifyClusterFullThresholdRequest,
   GetSSLCertificate |-> NoRequest, GetConnectivityReport |-> NoRequest,
   ListClusterCapacityHistory |-> NoRequest,
   ListPendingActiveNodes |-> NoRequest,
   CompleteVolumePairing |-> CompleteVolumePairingRequest,
   ListActivePairedVolumes |-> ListActivePairedVolumesRequest,
   RemoveVolumesFromVolumeAccessGroup |-> RemoveVolumesFromVolumeAccessGroupRequest,
   SetClusterStructure |-> NoRequest, GetIpmiInfo |-> GetIpmiInfoRequest,
   ProtocolVersionUpgradeAvailable |-> NoRequest]

Wrappers20 ==
  [ListFibreChannelPortInfo |-> NoRequest,
   DisableLdapAuthentication |-> NoRequest, ReleaseFreeMemory |-> NoRequest,
   GetVasaProviderInfo |-> NoRequest,
   RemoveBackupTarget |-> RemoveBackupTargetRequest,
   RemoveVolumePair |-> RemoveVolumePairRequest,
   ModifySchedule |-> ModifyScheduleRequest,
   DeleteSnapshot |-> DeleteSnapshotRequest,
   ModifyAccount |-> ModifyAccountRequest, ListSyncJobs |-> NoRequest,
   TestClientConnectivity |-> NoRequest, ListAllNodes |-> NoRequest,
   CancelClone |-> CancelCloneRequest, RemoveSSLCertificate |-> NoRequest,
   SetDebugOptions |-> NoRequest,
   ListSnapMirrorEndpoints |-> ListSnapMirrorEndpointsRequest,
   SetLoginBanner |-> SetLoginBannerRequest,
   NotifyIntentToRestart |-> NoRequest,
   PurgeDeletedVolume |-> PurgeDeletedVolumeRequest]

Wrappers21 ==
  [DeleteInitiators |-> DeleteInitiatorsRequest,
   ListDatabaseChildrenData |-> NoRequest,
   GetAccountByName |-> GetAccountByNameRequest,
   GetClusterStats |-> NoRequest,
   DeleteVolumeSnapMirrorObjectAttributes |-> NoRequest,
   ResetConstants |-> ResetConstantsRequest,
   ResumeSnapMirrorRelationship |-> ResumeSnapMirrorRelationshipRequest,
   ListAsyncResults |-> ListAsyncResultsRequest,
   GetClusterInterfacePreference |-> GetClusterInterfacePreferenceRequest,
   ListQoSPolicies |-> NoRequest, CopyVolumeToSnapshot |-> NoRequest,
   DisableClusterSsh |-> NoRequest,
   CheckPingOnVlan |-> CheckPingOnVlanRequest,
   GetPendingOperation |-> NoRequest,
   DeleteKeyProviderKmip |-> DeleteKeyProviderKmipRequest,
   GetClientCertificateSignRequest |-> NoRequest,
   GetAccountByID |-> GetAccountByIDRequest,
   CloneVolume |-> CloneVolumeRequest,
   ListVolumeStatsByVolume |-> ListVolumeStatsByVolumeRequest]

Wrappers22 ==
  [AddVirtualNetwork |-> AddVirtualNetworkRequest,
   GetVirtualVolumeTaskUpdate |-> GetVirtualVolumeTaskUpdateRequest,
   DeleteAuthSession |-> DeleteAuthSessionRequest,
   GetLoginSessionInfo |-> NoRequest, GetDaemonStatus |-> NoRequest,
   GetProtectionSchemes |-> GetProtectionSchemesRequest,
   ModifyVirtualVolumeHost |-> ModifyVirtualVolumeHostRequest,
   GetClusterMasterNodeID |-> NoRequest,
   ResizeDrives |-> ResizeDrivesRequest,
   DisableEncryptionAtRest |-> DisableEncryptionAtRestRequest,
   CreateStorageContainer |-> CreateStorageContainerRequest,
   ListVolumesForAccount |-> ListVolumesForAccountRequest,
   DeleteVolumeAccessGroup |-> DeleteVolumeAccessGroupRequest,
   GetEnsemble |-> NoRequest,
   FastCloneVirtualVolume |-> FastCloneVirtualVolumeRequest,
   CheckClusterPair |-> NoRequest]

Wrappers23 ==
  [ListDatabaseChildren |-> NoRequest,
   UnbindAllVirtualVolumesFromHost |-> UnbindAllVirtualVolumesFromHostRequest,
   UpdateBulkVolumeStatus |-> UpdateBulkVolumeStatusRequest,
   DisableIdpAuthentication |-> NoRequest, CheckBlock |-> NoRequest,
   AddNodes |-> AddNodesRequest, TestDrives |-> TestDrivesRequest,
   ListISCSISessions |-> NoRequest, SetNtpInfo |-> SetNtpInfoRequest,
   SetDatabaseEntry |-> NoRequest,
   GetOntapVersionInfo |-> GetOntapVersionInfoRequest,
   GetSchedule |-> GetScheduleRequest,
   CreateSnapMirrorRelationship |-> CreateSnapMirrorRelationshipRequest,
   GetNodeFipsDrivesReport |-> NoRequest,
   CloneVirtualVolume |-> CloneVirtualVolumeRequest,
   GetClusterSshInfo |-> NoRequest, GetServiceStatus |-> NoRequest,
   SetSnmpTrapInfo |-> SetSnmpTrapInfoRequest,
   TestKeyProviderKmip |-> TestKeyProviderKmipRequest,
   ModifyVirtualVolume |-> ModifyVirtualVolumeRequest]

Wrappers24 ==
  [SetDefaultProtectionScheme |-> SetDefaultProtectionSchemeRequest,
   FindMismatchedSliceLBAs |-> NoRequest,
   AbortSnapMirrorRelationship |-> AbortSnapMirrorRelationshipRequest,
   ListAuthSessionsByUsername |-> ListAuthSessionsByUsernameRequest,
   ListSnapMirrorSchedules |-> ListSnapMirrorSchedulesRequest,
   SnapshotVirtualVolume |-> SnapshotVirtualVolumeRequest,
   SetSupplementalTlsCiphers |-> SetSupplementalTlsCiphersRequest,
   SetNodeSupplementalTlsCiphers |-> SetNodeSupplementalTlsCiphersRequest,
   GetDriveStats |-> GetDriveStatsRequest,
   InvokeSFApi |-> InvokeSFApiRequest,
   ModifyClusterAdmin |-> ModifyClusterAdminRequest,
   CancelGroupClone |-> CancelGroupCloneRequest,
   GetCodeTimings |-> NoRequest,
   StartClusterBSCheck |-> StartClusterBSCheckRequest,
   CreateVolumeAccessGroup |-> CreateVolumeAccessGroupRequest,
   ListSnapMirrorVolumes |-> ListSnapMirrorVolumesRequest,
   ListUtilities |-> ListUtilitiesRequest]

Wrappers ==
  Wrappers1 @@ Wrappers2 @@ Wrappers3 @@ Wrappers4 @@ Wrappers5
    @@ Wrappers6 @@ Wrappers7 @@ Wrappers8 @@ Wrappers9 @@ Wrappers10
    @@ Wrappers11 @@ Wrappers12 @@ Wrappers13 @@ Wrappers14 @@ Wrappers15
    @@ Wrappers16 @@ Wrappers17 @@ Wrappers18 @@ Wrappers19 @@ Wrappers20
    @@ Wrappers21 @@ Wrappers22 @@ Wrappers23 @@ Wrappers24
=============================================================================

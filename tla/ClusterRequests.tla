-------------------------- MODULE ClusterRequests ---------------------------
(***************************************************************************)
(* The requests about the cluster itself: its nodes, drives, networks,     *)
(* administrators, sessions, keys and settings.                            *)
(***************************************************************************)
EXTENDS ApiRequests

StartClusterBSCheckRequest ==
  Fields({},
         {"asyncHandle", "serviceID", "sliceID", "volumeID", "sliceIDs",
          "volumeIDs"})
ListUtilitiesRequest == Fields({}, {"force", "includeHints"})
GetDriveHardwareInfoRequest == Fields({"driveID"}, {})
AddClusterAdminRequest ==
  Fields({"username", "password", "access", "acceptEula"}, {"attributes"})
SetConfigRequest == Fields({"config"}, {})
RestartNetworkingRequest == Fields({"force"}, {})
GetAPIRequest == Fields({"__includeSecretMethods"}, {})
ListKeyProvidersKmipRequest ==
  Fields({}, {"keyProviderIsActive", "kmipKeyProviderHasServerAssigned"})
CreateClusterInterfacePreferenceRequest == Fields({"name", "value"}, {})
GetClusterHardwareInfoRequest == Fields({}, {"type"})
GetKeyProviderKmipRequest == Fields({"keyProviderID"}, {})
ListVirtualNetworksRequest ==
  Fields({},
         {"virtualNetworkID", "virtualNetworkTag", "virtualNetworkIDs",
          "virtualNetworkTags"})
ListProtocolEndpointsRequest == Fields({}, {"protocolEndpointIDs"})
ModifyClusterInterfacePreferenceRequest == Fields({"name", "value"}, {})
CreateAuthSessionRequest ==
  Fields({"username", "clusterAdminIDs"}, {"desiredExpirationDuration"})
SetNodeSSLCertificateRequest == Fields({"certificate", "privateKey"}, {})
ListEventsRequest ==
  Fields({},
         {"maxEvents", "startEventID", "endEventID", "eventQueueType",
          "eventType", "serviceID", "nodeID", "driveID", "startReportTime",
          "endReportTime", "startPublishTime", "endPublishTime"})
SetProtectionDomainLayoutRequest ==
  Fields({"protectionDomainLayout"},
         {"forceForWitnessNode", "forceIncompleteProtectionDomainLayout"})
ClearClusterFaultsRequest == Fields({}, {"faultTypes"})
GetOriginRequest == Fields({"force"}, {})
TestPingRequest ==
  Fields({},
         {"attempts", "hosts", "totalTimeoutSec", "packetSize",
          "pingTimeoutMsec", "prohibitFragmentation", "force"})
CreateSupportBundleRequest ==
  Fields({}, {"bundleName", "extraArgs", "timeoutSec"})
TestKeyServerKmipRequest == Fields({"keyServerID"}, {})
EnableProtectionSchemesRequest == Fields({"protectionSchemes"}, {})
SetClusterConfigRequest == Fields({"cluster"}, {"force", "__useTheForceLuke"})
GetNvramInfoRequest == Fields({}, {"force"})
GetNetworkConfigRequest == Fields({}, {"force", "includeHints"})
SetSnmpACLRequest == Fields({"networks", "usmUsers"}, {})
ListClusterAdminsRequest == Fields({}, {"showHidden"})
GetConfigRequest == Fields({}, {"force", "includeHints"})
GetKeyServerKmipRequest == Fields({"keyServerID"}, {})
GetNodeHardwareInfoRequest == Fields({"nodeID"}, {})
SecureEraseDrivesRequest == Fields({"drives"}, {})
GetIpmiConfigRequest == Fields({"force"}, {"chassisType"})
GetNodeConstantsRequest == Fields({}, {"constants", "changedOnly"})
TestConnectSvipRequest == Fields({}, {"svip", "force"})
ListDriveStatsRequest == Fields({}, {"drives"})
ListIdpConfigurationsRequest == Fields({}, {"idpMetadataUrl"})
CreateIdpAuthSessionRequest ==
  Fields({"samlAttributeStatements", "username"},
         {"desiredExpirationDuration"})
GetNodeStatsRequest == Fields({"nodeID"}, {})
ResetNodeRequest ==
  Fields({"build", "force"}, {"reboot", "options", "__useTheForceLuke"})
DisableProtectionSchemesRequest == Fields({"protectionSchemes"}, {})
EnableFeatureRequest == Fields({"feature"}, {})
EnableEncryptionAtRestRequest ==
  Fields({}, {"keyProviderID", "forceDuringBinSync"})
RemoveClusterAdminRequest == Fields({"clusterAdminID"}, {})
ResetDrivesRequest == Fields({"drives", "force"}, {})
RemoveVirtualNetworkRequest ==
  Fields({}, {"virtualNetworkID", "virtualNetworkTag"})
ListTestsRequest == Fields({"includeHints", "force"}, {})
AddKeyServerToProviderKmipRequest ==
  Fields({"keyProviderID", "keyServerID"}, {})
DeleteAuthSessionsByClusterAdminRequest == Fields({"clusterAdminID"}, {})
GetConstantsRequest == Fields({}, {"constants", "changedOnly"})
ListClusterFaultsRequest ==
  Fields({}, {"exceptions", "bestPractices", "update", "faultTypes"})
SetLldpConfigRequest ==
  Fields({}, {"enableLldp", "enableMed", "enableOtherProtocols"})
CheckProposedClusterRequest == Fields({"nodes"}, {})
RemoveClusterPairRequest == Fields({"clusterPairID"}, {})
RemoveNodesRequest == Fields({"nodes"}, {"ignoreEnsembleToleranceChange"})
SetProtectionDomainLayoutChassisOverrideRequest ==
  Fields({"protectionDomainLayout"}, {"forceForWitnessNode"})
GetClusterStateRequest == Fields({"force"}, {"includeHints"})
PromoteClusterMasterRequest == Fields({}, {"nodeID", "serviceID"})
UpdateIdpConfigurationRequest ==
  Fields({"idpConfigurationID"},
         {"idpMetadataUrl", "refreshCertificateExpirationTime"})
CreatePublicPrivateKeyPairRequest ==
  Fields({},
         {"commonName", "organization", "organizationalUnit", "locality",
          "state", "country", "emailAddress"})
TestConnectMvipRequest == Fields({}, {"mvip", "force"})
ListKeyServersKmipRequest ==
  Fields({},
         {"keyProviderID", "kmipAssignedProviderIsActive",
          "kmipHasProviderAssigned"})
SetSnmpInfoRequest ==
  Fields({}, {"networks", "enabled", "snmpV3Enabled", "usmUsers"})
CreateClusterRequest ==
  Fields({"mvip", "svip", "username", "password", "nodes"},
         {"acceptEula", "allow2NodeEnsemble",
          "supportedTestOnlyProtectionSchemes", "attributes",
          "skipNodeTypeChecks"})
GetClusterConfigRequest == Fields({}, {"includeHints", "force"})
AddBlockToBSRequest ==
  Fields({"hashData", "hash"}, {"validateData", "protectionSchemes"})
SetRemoteLoggingHostsRequest == Fields({"remoteHosts"}, {})
ListAuthSessionsByClusterAdminRequest == Fields({"clusterAdminID"}, {})
SetAuthConfigurationRequest ==
  Fields({"authType", "version", "configuration"}, {})
GetDriveConfigRequest == Fields({}, {"force"})
SetSSLCertificateRequest == Fields({"certificate", "privateKey"}, {})
CreateIdpConfigurationRequest == Fields({"idpMetadataUrl"}, {})
CompleteClusterPairingRequest == Fields({"clusterPairingKey"}, {})
RemoveDrivesRequest ==
  Fields({"drives"}, {"forceDuringUpgrade", "ignoreUnbalancedClusterCheck"})
GetHardwareConfigRequest == Fields({}, {"force"})
DeleteIdpConfigurationRequest == Fields({"idpConfigurationID"}, {})
DemoteClusterMasterRequest == Fields({}, {"nodeID", "serviceID"})
ShutdownRequest == Fields({"nodes"}, {"option"})
TestLdapAuthenticationRequest ==
  WithObjects({"username", "password"},
              {},
              [ldapConfiguration |-> LdapConfiguration])
EnableIdpAuthenticationRequest == Fields({}, {"idpConfigurationID"})
CreateKeyServerKmipRequest ==
  Fields({"kmipCaCertificate", "kmipClientCertificate",
          "kmipKeyServerHostnames", "kmipKeyServerName"},
         {"kmipKeyServerPort"})
ModifyKeyServerKmipRequest ==
  Fields({"keyServerID"},
         {"kmipCaCertificate", "kmipClientCertificate",
          "kmipKeyServerHostnames", "kmipKeyServerName", "kmipKeyServerPort"})
AddIdpClusterAdminRequest ==
  Fields({"username", "access"}, {"acceptEula", "attributes"})
AddDrivesRequest ==
  Fields({"drives"},
         {"forceDuringUpgrade", "forceNonFips", "forceDuringBinSync",
          "ignoreUnbalancedClusterCheck", "ignoreUsableCapacityCheck",
          "ignoreProtectionDomainLayoutCheck"})
ModifyVirtualNetworkRequest ==
  Fields({},
         {"virtualNetworkID", "virtualNetworkTag", "name", "addressBlocks",
          "netmask", "svip", "gateway", "namespace", "attributes"})
RemoveKeyServerFromProviderKmipRequest == Fields({"keyServerID"}, {})
DeleteAuthSessionsByUsernameRequest == Fields({}, {"username", "authMethod"})
UpdateAuthSessionRequest == Fields({"sessionID"}, {})
SetLoginSessionInfoRequest == Fields({}, {"timeout"})
CheckProposedNodeAdditionsRequest == Fields({"nodes"}, {})
EnableLdapAuthenticationRequest ==
  Fields({"serverURIs"},
         {"authType", "groupSearchBaseDN", "groupSearchCustomFilter",
          "groupSearchType", "searchBindDN", "searchBindPassword",
          "userDNTemplate", "userSearchBaseDN", "userSearchFilter"})
DeleteKeyServerKmipRequest == Fields({"keyServerID"}, {})
TestConnectEnsembleRequest == Fields({}, {"ensemble", "force"})
AddLdapClusterAdminRequest ==
  Fields({"username", "access"}, {"acceptEula", "attributes"})
CreateKeyProviderKmipRequest == Fields({"keyProviderName"}, {})
RestartServicesRequest == Fields({"force"}, {"service", "action"})
SetNetworkConfigRequest == Fields({"network"}, {"force", "__useTheForceLuke"})
GetFeatureStatusRequest == Fields({}, {"feature"})
DeleteClusterInterfacePreferenceRequest == Fields({"name"}, {})
RemoveBlockFromBSRequest == Fields({"hash"}, {"protectionSchemes"})
ModifyClusterFullThresholdRequest ==
  Fields({},
         {"stage2AwareThreshold", "stage3BlockThresholdPercent",
          "stage3MetadataThresholdPercent", "maxMetadataOverProvisionFactor"})
GetAuthConfigurationRequest == Fields({"authType"}, {})
ListDriveHardwareRequest == Fields({"force"}, {})
EnableSnmpRequest == Fields({"snmpV3Enabled"}, {})
GetIpmiInfoRequest == Fields({"force"}, {})
SetLoginBannerRequest == Fields({}, {"banner", "enabled"})
GetClusterInterfacePreferenceRequest == Fields({"name"}, {})
ResetConstantsRequest == Fields({}, {"constants", "resetAll"})
CheckPingOnVlanRequest ==
  Fields({"interface", "virtualNetworkTag", "hosts"},
         {"sourceAddressV4", "sourceAddressV6"})
DeleteKeyProviderKmipRequest == Fields({"keyProviderID"}, {})
AddVirtualNetworkRequest ==
  Fields({"virtualNetworkTag", "name", "addressBlocks", "netmask", "svip"},
         {"gateway", "namespace", "attributes"})
DeleteAuthSessionRequest == Fields({"sessionID"}, {})
ResizeDrivesRequest == Fields({"drives", "newUsableSize"}, {})
GetProtectionSchemesRequest == Fields({}, {"force"})
DisableEncryptionAtRestRequest == Fields({}, {"forceDuringBinSync"})
TestDrivesRequest == Fields({}, {"minutes", "force"})
AddNodesRequest ==
  Fields({"pendingNodes"},
         {"autoInstall", "forceDuringUpgrade", "forceNonFips", "forceNE",
          "skipNodeTypeChecks"})
SetNtpInfoRequest == Fields({"servers"}, {"broadcastclient"})
GetOntapVersionInfoRequest == Fields({}, {"snapMirrorEndpointID"})
SetSnmpTrapInfoRequest ==
  Fields({"clusterFaultTrapsEnabled", "clusterFaultResolvedTrapsEnabled",
          "clusterEventTrapsEnabled"},
         {"trapRecipients"})
SetDefaultProtectionSchemeRequest == Fields({"defaultProtectionScheme"}, {})
TestKeyProviderKmipRequest == Fields({"keyProviderID"}, {})
ListAuthSessionsByUsernameRequest == Fields({}, {"username", "authMethod"})
SetSupplementalTlsCiphersRequest == Fields({"supplementalCiphers"}, {})
SetNodeSupplementalTlsCiphersRequest == Fields({"supplementalCiphers"}, {})
ModifyClusterAdminRequest ==
  Fields({"clusterAdminID"}, {"password", "access", "attributes"})
GetDriveStatsRequest == Fields({"driveID"}, {})
InvokeSFApiRequest == Fields({"method"}, {"parameters"})
=============================================================================

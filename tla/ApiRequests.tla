---------------------------- MODULE ApiRequests ----------------------------
(*****************************************************************************)
(* The request types of the SDK (sdk/generated_model.go): what               *)
(* encoding/json makes of each of them in MakeSFCall. A field whose tag      *)
(* says omitempty is left out of the message when it holds the zero value    *)
(* of its Go type, the others are always in it. Of the types of the fields   *)
(* nothing matters but this: a field that is itself a struct is never left   *)
(* out, whatever its tag says, and its own fields follow the same rule.      *)
(* StorageRequests and ClusterRequests hold the requests; the definitions    *)
(* keep the names of the types and stand in the order of the file.           *)
(*****************************************************************************)

Fields(required, optional) ==
  [required |-> required, optional |-> optional, objects |-> <<>>]

WithObjects(required, optional, objects) ==
  [required |-> required, optional |-> optional, objects |-> objects]
-----------------------------------------------------------------------------
(*****************************************************************************)
(* The structs that a request holds by value under omitempty.                *)
(*****************************************************************************)
SnapMirrorVolumeInfo == Fields({"type", "volumeID", "vserver", "name"}, {})
LdapConfiguration ==
  Fields({"authType", "enabled", "groupSearchBaseDN",
          "groupSearchCustomFilter", "groupSearchType", "searchBindDN",
          "serverURIs", "userDNTemplate", "userSearchBaseDN",
          "userSearchFilter"},
         {})
QoS == Fields({}, {"minIOPS", "maxIOPS", "burstIOPS", "burstTime", "curve"})
ScheduleInfo ==
  Fields({},
         {"name", "volumeID", "volumes", "enableRemoteReplication",
          "retention"})
=============================================================================

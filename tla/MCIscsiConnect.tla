--------------------------- MODULE MCIscsiConnect ---------------------------
(***************************************************************************)
(* IscsiConnect for TLC: two callers on a host with two volumes, which     *)
(* they may share.                                                         *)
(***************************************************************************)
EXTENDS IscsiConnect

(***************************************************************************)
(* udev writes the port into its links.  The SVIP of the cluster has none. *)
(* If it had, as the SVIP of the package's own sample configuration, the   *)
(* portal would have two: iscsiadm may or may not read past the second.    *)
(***************************************************************************)
OfCluster == [svip |-> "ip", link |-> "ip:port", portals |-> {"ip:port"}]
Refused   == [OfCluster EXCEPT !.svip = "ip:port"]
Lenient   == [Refused EXCEPT !.portals = {"ip:port", "ip:port:port"}]

AllNamings    == {OfCluster, Refused, Lenient}
ClusterNaming == {OfCluster}
=============================================================================

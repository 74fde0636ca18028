---------------------------- MODULE MCSubnetScan ----------------------------
(***************************************************************************)
(* SubnetScan for TLC, over the addresses that ExpandCIDR makes of a subnet*)
(* of four.                                                                *)
(***************************************************************************)
EXTENDS SubnetScan, AddressRange

MCSubnet    == [is4 |-> FALSE, bits |-> Width6 - 2, addr |-> 8]
MCAddresses == UNION {{out[k] : k \in DOMAIN out} : out \in ExpandCIDR(MCSubnet, 4)}

(* What the feeder of a scan starts from are the hosts of the subnet, for  *)
(* any subnet and max_hosts: see IsExact.                                  *)
RangeIsExact == feed = Addresses => IsExact
=============================================================================

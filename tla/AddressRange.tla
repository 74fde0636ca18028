----------------------------- MODULE AddressRange -----------------------------
(***************************************************************************)
(* ExpandCIDR of internal/discovery/scan.go: the addresses of a subnet     *)
(* that a scan probes.  Addresses are numbers of Width4 or Width6 bits,    *)
(* where the program has 32 and 128; counts are numbers of Word bits,      *)
(* where it has 64, so that only the wide addresses can exceed them.       *)
(***************************************************************************)
EXTENDS Naturals, Sequences

CONSTANTS
    Width4, Width6, \* bits of an address of either family
    Word,           \* bits of a count
    Limits          \* values of discovery.max_hosts

ASSUME RangeAssumptions ==
    /\ {Width4, Width6, Word} \cup Limits \subseteq Nat \ {0}
    /\ Width4 < Word
    /\ \A n \in Limits : n < 2^Word - 1

BitLen(p)   == IF p.is4 THEN Width4 ELSE Width6
HostBits(p) == BitLen(p) - p.bits

(* A masked prefix.                                                        *)
Prefixes ==
    {p \in [is4 : BOOLEAN, bits : 0..(Width4 + Width6), addr : 0..(2^(Width4 + Width6) - 1)] :
        p.bits <= BitLen(p) /\ p.addr < 2^BitLen(p) /\ p.addr % 2^HostBits(p) = 0}

(* Mutant: what does not fit the word is lost.                             *)
WrappedCount(p) == 2^HostBits(p) % 2^Word
HostCount(p)    == IF HostBits(p) >= Word THEN 2^Word - 1 ELSE 2^HostBits(p)

(* prefix.Contains.  2^BitLen is what Next makes of the last address: an   *)
(* invalid one, which no prefix contains.                                  *)
Contains(p, a) == a < 2^BitLen(p) /\ a - (a % 2^HostBits(p)) = p.addr

SkipEdges(p)      == p.is4 /\ p.bits < BitLen(p) - 1
IsNetwork(p, a)   == a = p.addr
IsBroadcast(p, a) == SkipEdges(p) /\ ~Contains(p, a + 1)

Probeable(p, a) == ~SkipEdges(p) \/ (~IsNetwork(p, a) /\ ~IsBroadcast(p, a))

(* The addresses in the order of the walk, or {} for an error.             *)
ExpandCIDR(p, maxHosts) ==
    LET walk[a \in p.addr..(2^BitLen(p))] ==
            IF ~Contains(p, a) THEN <<>>
            ELSE (IF Probeable(p, a) THEN <<a>> ELSE <<>>) \o walk[a + 1]
    IN  IF HostCount(p) > maxHosts THEN {} ELSE {walk[p.addr]}

-----------------------------------------------------------------------------
(* Reference: the block of the prefix, without its first and last address  *)
(* where those are the network and the broadcast address.                  *)
Block(p) == p.addr..(p.addr + 2^HostBits(p) - 1)
Hosts(p) ==
    IF p.is4 /\ HostBits(p) > 1
    THEN Block(p) \ {p.addr, p.addr + 2^HostBits(p) - 1}
    ELSE Block(p)

(* A subnet is refused if and only if it has more addresses than max_hosts,*)
(* however wide the prefix; else the result is every host address once, in *)
(* order, for single addresses, pairs, and blocks at the very end of the   *)
(* address space too.                                                      *)
IsExact ==
    \A p \in Prefixes, n \in Limits :
        /\ ExpandCIDR(p, n) = {} <=> 2^HostBits(p) > n
        /\ \A out \in ExpandCIDR(p, n) :
              /\ {out[k] : k \in DOMAIN out} = Hosts(p)
              /\ \A j, k \in DOMAIN out : j < k => out[j] < out[k]
===============================================================================

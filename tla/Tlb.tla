-------------------------------- MODULE Tlb --------------------------------
(***************************************************************************)
(* The fully associative translation look-aside buffer (src/tlb.sv), used  *)
(* twice by the MMU.  A TLB is a record: entries maps each index to an     *)
(* entry or NoEntry (valid bit clear), tree is the pseudo-LRU tree.        *)
(*                                                                         *)
(* A virtual page number is a triple <<vpn2, vpn1, vpn0>>; lvl is the page *)
(* table level the translation came from: 1 (1G page), 2 (2M), 3 (4K).     *)
(***************************************************************************)
EXTENDS Integers, FiniteSets

CONSTANTS
  LogEntries,   \* $clog2(TLB_ENTRIES)
  NoEntry

ASSUME TlbAssumption == LogEntries \in Nat \ {0}

\* Arithmetic, for proofs: what a power of two is.
ASSUME PowersOfTwo ==
  /\ 2 ^ 0 = 1
  /\ \A n \in 0 .. LogEntries - 1 : 2 ^ n \in Nat \ {0} /\ 2 ^ (n + 1) = 2 * 2 ^ n

TLB_ENTRIES == 2 ^ LogEntries
Index       == 0 .. TLB_ENTRIES - 1
TreeNodes   == 0 .. TLB_ENTRIES - 2

EmptyTlb == [entries |-> [i \in Index |-> NoEntry],
             tree    |-> [n \in TreeNodes |-> 0]]

\* translation: a level-l page is identified by the first l parts of the VPN.
\* The code takes the last of several hits; there is never more than one
\* (SingleHit in module Mmu).
Matches(e, asid, vpn) ==
  e # NoEntry /\ e.asid = asid /\ \A k \in 1 .. e.lvl : e.vpn[k] = vpn[k]

lu_hit(tlb, asid, vpn) == {i \in Index : Matches(tlb.entries[i], asid, vpn)}

lu_entry(tlb, asid, vpn) ==
  LET hits == lu_hit(tlb, asid, vpn)
  IN  IF hits = {} THEN NoEntry
      ELSE tlb.entries[CHOOSE i \in hits : \A j \in hits : j <= i]

\* plru_replacement: on the path from the root to leaf i, node and branch at
\* depth d.
Node(i, d)   == 2 ^ d - 1 + (i \div 2 ^ (LogEntries - d))
Branch(i, d) == (i \div 2 ^ (LogEntries - d - 1)) % 2

replace_en(tree, i) == \A d \in 0 .. LogEntries - 1 : tree[Node(i, d)] = Branch(i, d)

\* An access that hits turns every node on the entry's path away from it.
Touch(tree, hits) ==
  LET depths(i, n) == {d \in 0 .. LogEntries - 1 : Node(i, d) = n}
      below(n)     == {i \in hits : depths(i, n) # {}}
  IN  [n \in TreeNodes |->
         IF below(n) = {} THEN tree[n]
         ELSE LET i == CHOOSE i \in below(n) : \A j \in below(n) : j <= i
              IN  1 - Branch(i, CHOOSE d \in depths(i, n) : TRUE)]

update_flushLate(tlb, update, flush, asid) ==
  [i \in Index |->
     IF update # NoEntry /\ replace_en(tlb.tree, i) THEN update
     ELSE IF flush /\ ~(tlb.entries[i] # NoEntry /\ asid # 0 /\ tlb.entries[i].asid # asid)
     THEN NoEntry ELSE tlb.entries[i]]

(***************************************************************************)
(* One clock edge: update is a new entry or NoEntry; flush removes the     *)
(* entries of the current address space, or all of them if that is 0, and  *)
(* takes precedence over the update; access and the lookup arguments drive *)
(* the replacement tree.                                                   *)
(***************************************************************************)
update_flush(tlb, update, flush, asid) ==
  [i \in Index |->
     IF flush
     THEN IF tlb.entries[i] # NoEntry /\ asid # 0 /\ tlb.entries[i].asid # asid
          THEN tlb.entries[i] ELSE NoEntry
     ELSE IF update # NoEntry /\ replace_en(tlb.tree, i) THEN update
     ELSE tlb.entries[i]]

TlbCycle(tlb, update, flush, access, asid, vpn) ==
  [entries |-> update_flush(tlb, update, flush, asid),
   tree    |-> IF access THEN Touch(tlb.tree, lu_hit(tlb, asid, vpn)) ELSE tlb.tree]
============================================================================

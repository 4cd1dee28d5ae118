----------------------------- MODULE MmuProofs -----------------------------
(***************************************************************************)
(* For every TLB size, page table contents and mix of address spaces: the  *)
(* walker loses track of an answer of the data cache in one way only, what *)
(* the TLBs hold is what a walk of the current page tables finds, and the  *)
(* MMU answers its two clients what the reference algorithm says.          *)
(***************************************************************************)
EXTENDS Mmu, WellFoundedInduction, FiniteSetTheorems, TLAPS

\* A cycle of a flush leaves the walker at rest or waiting for an answer.
Walking == state_q \in {"WAIT_GRANT", "PTE_LOOKUP", "PROPAGATE_ERROR"}
Asking  == state_q \in {"WAIT_GRANT", "PTE_LOOKUP"}

\* The walker's registers, and what the data cache owes it: at most one answer,
\* which it waits for unless every address space is due a fence.
WalkerInv ==
  /\ state_q \in {"IDLE", "WAIT_GRANT", "PTE_LOOKUP", "WAIT_RVALID", "PROPAGATE_ERROR"}
  /\ ptw_lvl_q \in 1 .. 3
  /\ is_instr_ptw_q \in BOOLEAN /\ global_mapping_q \in BOOLEAN
  /\ data_rvalid_q \in BOOLEAN
  /\ resp = <<>> \/ resp = <<resp[1]>>
  /\ Awaited => resp # <<>>
  /\ Stray => unfenced = Asids

\* What a clock edge does to the control state, one conjunct per situation.
LEMMA WalkerSteps ==
  ASSUME WalkerInv,
         NEW gnt \in BOOLEAN, NEW rvalid \in BOOLEAN,
         NEW ctl \in Flushes \cup {"none"}, Cycle(gnt, rvalid, ctl)
  PROVE  /\ ctl \in Flushes => ~Walking'
         /\ ctl \notin Flushes /\ Asking' =>
              \/ Asking /\ ~Descends /\ ~Looked /\ (state_q = "WAIT_GRANT" \/ state_q' = state_q)
              \/ Descends /\ state_q' = "WAIT_GRANT"
              \/ (StartInstr \/ StartData) /\ state_q' = "WAIT_GRANT"
         /\ state_q' = "PROPAGATE_ERROR" => Looked /\ ~Descends /\ ~Installs
  BY DEF WalkerInv, Cycle, ptw, flushed_state, walk_state, Walking, Asking,
         data_req, Looked, Descends, Installs, StartInstr, StartData, ptw_error

LEMMA OneAnswer ==
  ASSUME NEW x
  PROVE  /\ Tail(<<x>>) = <<>> /\ <<>> \o <<>> = <<>>
         /\ <<x>> \o <<>> = <<x>> /\ <<>> \o <<x>> = <<x>>
         /\ <<x>>[1] = x /\ <<x>> # <<>> /\ Len(<<x>>) = 1 /\ Len(<<>>) = 0
  OBVIOUS

\* Without a flush the address space and the CSR bits stay, and an edit of
\* the page tables or a stray answer marks every address space.
LEMMA SoftwareSteps ==
  ASSUME NEW gnt \in BOOLEAN, NEW rvalid \in BOOLEAN,
         NEW ctl \in Flushes \cup {"none"}, Cycle(gnt, rvalid, ctl)
  PROVE  /\ ctl \notin Flushes => asid' = asid /\ ctx' = ctx
         /\ ctl \notin Flushes => (pt' = pt /\ unfenced' = unfenced) \/ unfenced' = Asids
         /\ pt' # pt \/ Stray' => unfenced' = Asids
         /\ pt' = pt => \/ unfenced' = Asids \/ unfenced' = unfenced
                       \/ /\ ctl = "sfence" /\ asid' = asid
                          /\ unfenced' = IF asid = 0 THEN {} ELSE unfenced \ {asid}
         /\ setup' = setup /\ Asids' = Asids /\ Contexts' = Contexts
         /\ LsuVpns' = LsuVpns /\ Stores' = Stores /\ FetchVpns' = FetchVpns
         /\ asid' \in Asids \cup {asid} /\ ctx' \in Contexts \cup {ctx}
<1>1. Software(ctl) /\ setup' = setup
  BY DEF Cycle
<1>2. ctl \notin Flushes => ctl # "context" /\ ctl # "satp" /\ ctl # "sfence"
  BY DEF Flushes
<1> QED BY <1>1, <1>2 DEF Software, Asids, Contexts, LsuVpns, Stores, FetchVpns

\* A grant comes when nothing is owed, or with what is.
LEMMA GrantsOne ==
  ASSUME WalkerInv, NEW gnt \in BOOLEAN, NEW rvalid \in BOOLEAN,
         NEW ctl \in Flushes \cup {"none"}, Cycle(gnt, rvalid, ctl)
  PROVE  resp' = IF gnt THEN <<pt[ptw_pptr_q]>> ELSE IF rvalid THEN <<>> ELSE resp
<1>1. /\ gnt => resp = <<>> \/ rvalid
      /\ rvalid => resp # <<>>
      /\ resp' = (IF rvalid THEN Tail(resp) ELSE resp)
                   \o (IF gnt THEN <<pt[ptw_pptr_q]>> ELSE <<>>)
  BY DEF Cycle, DCachePort
<1>2. resp = <<>> \/ resp = <<resp[1]>>
  BY DEF WalkerInv
<1>3. CASE rvalid
  <2>1. Tail(resp) = <<>>
    BY <1>1, <1>2, <1>3, OneAnswer
  <2> QED BY <1>1, <1>3, <2>1, OneAnswer
<1>4. CASE ~rvalid
  <2>1. resp \o <<>> = resp
    BY <1>2, OneAnswer
  <2> QED BY <1>1, <1>4, <2>1, OneAnswer
<1> QED BY <1>3, <1>4

LEMMA WalkerInvStep ==
  ASSUME WalkerInv,
         NEW gnt \in BOOLEAN, NEW rvalid \in BOOLEAN,
         NEW ctl \in Flushes \cup {"none"}, Cycle(gnt, rvalid, ctl)
  PROVE  WalkerInv'
<1>1. /\ gnt => state_q = "WAIT_GRANT"
      /\ rvalid => resp # <<>>
      /\ resp' = (IF rvalid THEN Tail(resp) ELSE resp)
                   \o (IF gnt THEN <<pt[ptw_pptr_q]>> ELSE <<>>)
      /\ data_rvalid_q' = rvalid
  BY DEF Cycle, DCachePort, data_req
<1>2. /\ state_q' = IF ctl \in Flushes THEN flushed_state(gnt) ELSE walk_state(gnt)
      /\ ptw_lvl_q' = ptw_lvl_d
      /\ global_mapping_q' = IF state_q = "IDLE" THEN FALSE
                             ELSE global_mapping_q \/ (Looked /\ pte.g)
      /\ is_instr_ptw_q' = IF state_q = "IDLE" THEN StartInstr ELSE is_instr_ptw_q
  BY DEF Cycle, ptw
<1>3. ptw_lvl_q' \in 1 .. 3
  BY <1>2 DEF WalkerInv, ptw_lvl_d, Descends
<1>4. is_instr_ptw_q' \in BOOLEAN /\ global_mapping_q' \in BOOLEAN
  BY <1>2 DEF WalkerInv, StartInstr, Looked
<1>5. resp' = IF gnt THEN <<pt[ptw_pptr_q]>> ELSE IF rvalid THEN <<>> ELSE resp
  BY GrantsOne
<1>6. resp' = <<>> \/ resp' = <<resp'[1]>>
  BY <1>5, OneAnswer DEF WalkerInv
<1>7. state_q' \in {"IDLE", "WAIT_GRANT", "PTE_LOOKUP", "WAIT_RVALID", "PROPAGATE_ERROR"}
  BY <1>2 DEF WalkerInv, flushed_state, walk_state
<1>8. Awaited' => resp' # <<>>
  <2>1. CASE gnt
    BY <1>5, <2>1, OneAnswer
  <2>2. CASE ~gnt
    <3>1. Awaited' => Awaited /\ ~rvalid
      BY <1>1, <1>2, <2>2 DEF WalkerInv, Awaited, flushed_state, walk_state, data_req, Looked,
         Descends, Installs, StartInstr, StartData, ptw_error
    <3> QED BY <1>5, <2>2, <3>1 DEF WalkerInv
  <2> QED BY <2>1, <2>2
<1>9. Stray' => unfenced' = Asids'
  BY SoftwareSteps
<1> QED BY <1>1, <1>3, <1>4, <1>6, <1>7, <1>8, <1>9 DEF WalkerInv

----------------------------------------------------------------------------
(***************************************************************************)
(* Lookups.                                                                *)
(***************************************************************************)

LEMMA IndexFacts == TLB_ENTRIES \in Nat \ {0} /\ Index = 0 .. TLB_ENTRIES - 1
<1>1. LogEntries - 1 \in 0 .. LogEntries - 1 /\ (LogEntries - 1) + 1 = LogEntries
  BY TlbAssumption
<1> QED BY <1>1, PowersOfTwo DEF TLB_ENTRIES, Index

LEMMA LeastExists ==
  ASSUME NEW S \in SUBSET Nat, S # {}
  PROVE  \E x \in S : \A y \in S : x <= y
<1>1. PICK x \in S : \A y \in S : ~ (<<y, x>> \in OpToRel(<, Nat))
  BY WFMin, NatLessThanWellFounded
<1>2. \A y \in S : ~ (y < x)
  BY <1>1 DEF OpToRel
<1> QED BY <1>2

\* A set of indices has a greatest member: the CHOOSE of a lookup is one.
LEMMA GreatestExists ==
  ASSUME NEW S \in SUBSET Index, S # {}
  PROVE  \E i \in S : \A j \in S : j <= i
<1> DEFINE n == TLB_ENTRIES
           T == {n - i : i \in S}
<1>1. n \in Nat /\ \A i \in S : i \in Nat /\ i < n
  BY IndexFacts
<1>2. T \subseteq Nat /\ T # {}
  BY <1>1
<1>3. PICK i \in S : \A y \in T : n - i <= y
  BY <1>2, LeastExists
<1>4. ASSUME NEW j \in S PROVE j <= i
  <2>1. n - i <= n - j
    BY <1>3
  <2> QED BY <1>1, <2>1
<1> QED BY <1>4

\* A lookup finds an entry that matches, and none only if there is none.
LEMMA LookupFacts ==
  ASSUME NEW tlb, NEW a, NEW vpn
  PROVE  /\ lu_hit(tlb, a, vpn) = {} => lu_entry(tlb, a, vpn) = NoEntry
         /\ lu_hit(tlb, a, vpn) # {} =>
              \E i \in Index : /\ lu_entry(tlb, a, vpn) = tlb.entries[i]
                              /\ Matches(tlb.entries[i], a, vpn)
         /\ lu_entry(tlb, a, vpn) = NoEntry <=> lu_hit(tlb, a, vpn) = {}
<1> DEFINE hits == lu_hit(tlb, a, vpn)
<1>1. hits \in SUBSET Index /\ \A i \in hits : Matches(tlb.entries[i], a, vpn)
  BY DEF lu_hit
<1>2. hits = {} => lu_entry(tlb, a, vpn) = NoEntry
  BY DEF lu_entry
<1>3. ASSUME hits # {}
      PROVE  \E i \in Index : /\ lu_entry(tlb, a, vpn) = tlb.entries[i]
                             /\ Matches(tlb.entries[i], a, vpn)
  <2> DEFINE i == CHOOSE i \in hits : \A j \in hits : j <= i
  <2>1. i \in hits
    BY <1>1, <1>3, GreatestExists
  <2>2. lu_entry(tlb, a, vpn) = tlb.entries[i]
    BY <1>3 DEF lu_entry
  <2> QED BY <1>1, <2>1, <2>2
<1>4. hits # {} => lu_entry(tlb, a, vpn) # NoEntry
  BY <1>3 DEF Matches
<1> QED BY <1>2, <1>3, <1>4

----------------------------------------------------------------------------
(***************************************************************************)
(* A walk is for a request that is still being made, misses in its TLB,    *)
(* and belongs to the current address space.                               *)
(***************************************************************************)
SideTlb == IF is_instr_ptw_q THEN itlb ELSE dtlb

Requested ==
  /\ tlb_update_asid_q = asid
  /\ lu_hit(SideTlb, asid, vpn_q) = {}
  /\ IF is_instr_ptw_q THEN fetch # None /\ fetch = vpn_q
                       ELSE lsu # None /\ lsu.vpn = vpn_q

WalkInv == Walking => Requested

\* What becomes of an entry of a TLB: it stays, is replaced by the update, or
\* is flushed; an SFENCE.VMA leaves only entries of other address spaces.
LEMMA EntrySteps ==
  ASSUME NEW tlb, NEW update, NEW flush \in BOOLEAN, NEW i \in Index
  PROVE  LET new == update_flush(tlb, update, flush, asid)
         IN  /\ DOMAIN new = Index
             /\ \/ new[i] = NoEntry
                \/ new[i] = tlb.entries[i] /\ (flush => asid # 0 /\ new[i].asid # asid)
                \/ ~flush /\ update # NoEntry /\ new[i] = update
                   /\ replace_en(tlb.tree, i)
             /\ ~flush => new[i] = tlb.entries[i] \/ new[i] = update
             /\ update = NoEntry /\ ~flush => new[i] = tlb.entries[i]
             /\ ~flush /\ update # NoEntry /\ replace_en(tlb.tree, i) => new[i] = update
             /\ ~flush /\ ~replace_en(tlb.tree, i) => new[i] = tlb.entries[i]
  BY DEF update_flush

LEMMA WalkInvStep ==
  ASSUME WalkerInv, WalkInv,
         NEW gnt \in BOOLEAN, NEW rvalid \in BOOLEAN,
         NEW ctl \in Flushes \cup {"none"}, Cycle(gnt, rvalid, ctl)
  PROVE  WalkInv'
<1> SUFFICES ASSUME Walking' PROVE Requested'
  BY DEF WalkInv
<1>1. ctl \notin Flushes /\ asid' = asid /\ ctl # "sfence"
  BY WalkerSteps, SoftwareSteps DEF Flushes
<1>2. /\ itlb'.entries = update_flush(itlb, itlb_update, FALSE, asid)
      /\ dtlb'.entries = update_flush(dtlb, dtlb_update, FALSE, asid)
  BY <1>1 DEF Cycle, TlbCycle
<1>3. /\ is_instr_ptw_q' = IF state_q = "IDLE" THEN StartInstr ELSE is_instr_ptw_q
      /\ vpn_q' = IF StartInstr THEN fetch ELSE IF StartData THEN lsu.vpn ELSE vpn_q
      /\ tlb_update_asid_q' = IF StartInstr \/ StartData THEN asid ELSE tlb_update_asid_q
  BY DEF Cycle, ptw
<1>4. /\ lsu' \in IF lsu = None \/ LsuDone
                  THEN {None} \cup [vpn : LsuVpns, st : Stores] ELSE {lsu}
      /\ fetch' \in IF fetch = None \/ FetchAnswer # None
                    THEN {None} \cup FetchVpns ELSE {fetch}
  BY <1>1 DEF Cycle, Requests
<1>5. /\ ~Installs /\ state_q # "PROPAGATE_ERROR"
      /\ Walking \/ (state_q = "IDLE" /\ (StartInstr \/ StartData))
  BY <1>1, WalkerSteps DEF WalkerInv, Cycle, ptw, walk_state, Walking, data_req, Looked,
     Descends, Installs, StartInstr, StartData, ptw_error
<1>6. /\ \A i \in Index : itlb'.entries[i] = itlb.entries[i]
      /\ \A i \in Index : dtlb'.entries[i] = dtlb.entries[i]
  <2>1. itlb_update = NoEntry /\ dtlb_update = NoEntry
    BY <1>5 DEF itlb_update, dtlb_update
  <2>2. ASSUME NEW i \in Index PROVE itlb'.entries[i] = itlb.entries[i]
    BY <1>2, <2>1 DEF update_flush
  <2>3. ASSUME NEW i \in Index PROVE dtlb'.entries[i] = dtlb.entries[i]
    BY <1>2, <2>1 DEF update_flush
  <2> QED BY <2>2, <2>3
<1>7. \A a, vpn : /\ lu_hit(itlb', a, vpn) = lu_hit(itlb, a, vpn)
                 /\ lu_hit(dtlb', a, vpn) = lu_hit(dtlb, a, vpn)
  BY <1>6 DEF lu_hit
<1>8. CASE Walking
  <2>1. Requested /\ ~StartInstr /\ ~StartData /\ state_q # "IDLE"
    BY <1>8 DEF WalkInv, Walking, StartInstr, StartData
  <2>2. /\ is_instr_ptw_q' = is_instr_ptw_q /\ vpn_q' = vpn_q
        /\ tlb_update_asid_q' = tlb_update_asid_q
    BY <1>3, <2>1
  <2>3. is_instr_ptw_q => fetch' = fetch
    <3>1. is_instr_ptw_q => FetchAnswer = None
      BY <1>5, <2>1, LookupFacts
         DEF Requested, SideTlb, itlb_entry, itlb_hit, FetchAnswer, ptw_error
    <3> QED BY <1>4, <2>1, <3>1 DEF Requested
  <2>4. ~is_instr_ptw_q => lsu' = lsu
    <3>1. ~is_instr_ptw_q => ~LsuDone
      BY <1>5, <2>1, LookupFacts
         DEF Requested, SideTlb, dtlb_entry, dtlb_hit, LsuDone, ptw_error
    <3> QED BY <1>4, <2>1, <3>1 DEF Requested
  <2> QED BY <1>1, <1>7, <2>1, <2>2, <2>3, <2>4 DEF Requested, SideTlb, WalkerInv
<1>9. CASE state_q = "IDLE" /\ StartInstr
  <2>1. fetch # None /\ lu_hit(itlb, asid, fetch) = {} /\ FetchAnswer = None
    BY <1>9, LookupFacts DEF StartInstr, itlb_hit, itlb_entry, FetchAnswer, ptw_active
  <2>2. fetch' = fetch
    BY <1>4, <2>1
  <2> QED BY <1>1, <1>3, <1>7, <1>9, <2>1, <2>2 DEF Requested, SideTlb
<1>10. CASE state_q = "IDLE" /\ ~StartInstr /\ StartData
  <2>1. lsu # None /\ lu_hit(dtlb, asid, lsu.vpn) = {} /\ ~LsuDone
    BY <1>10, LookupFacts DEF StartData, lsu_req, dtlb_hit, dtlb_entry, LsuDone, ptw_active
  <2>2. lsu' = lsu
    BY <1>4, <2>1
  <2> QED BY <1>1, <1>3, <1>7, <1>10, <2>1, <2>2 DEF Requested, SideTlb
<1> QED BY <1>5, <1>8, <1>9, <1>10

----------------------------------------------------------------------------
(***************************************************************************)
(* A walk whose address space is not being unfenced is on the path of the    *)
(* reference algorithm.                                                    *)
(***************************************************************************)
AddressOf(mem, l, a, vpn) ==
  CASE l = 1 -> <<a, vpn[1]>>
    [] l = 2 -> <<EntryAt(mem, 1, a, vpn).ppn, vpn[2]>>
    [] l = 3 -> <<EntryAt(mem, 2, a, vpn).ppn, vpn[3]>>

OnPath ==
  /\ ptw_pptr_q = AddressOf(pt, ptw_lvl_q, tlb_update_asid_q, vpn_q)
  /\ \A k \in 1 .. 3 : k < ptw_lvl_q => IsPointer(EntryAt(pt, k, tlb_update_asid_q, vpn_q))
  /\ state_q = "PTE_LOOKUP" =>
       (IF data_rvalid_q THEN data_rdata_q ELSE resp[1])
          = EntryAt(pt, ptw_lvl_q, tlb_update_asid_q, vpn_q)

PathInv ==
  /\ asid \in Asids
  /\ Asking /\ tlb_update_asid_q \notin unfenced => OnPath

LEMMA EntryFacts ==
  ASSUME NEW mem, NEW a, NEW vpn
  PROVE  /\ \A l \in 1 .. 3 : EntryAt(mem, l, a, vpn) = mem[AddressOf(mem, l, a, vpn)]
         /\ AddressOf(mem, 1, a, vpn) = <<a, vpn[1]>>
         /\ \A l \in {1, 2} :
              AddressOf(mem, l + 1, a, vpn) = <<EntryAt(mem, l, a, vpn).ppn, vpn[l + 1]>>
  BY DEF EntryAt, AddressOf

\* The first entry on the path that is not a pointer is the leaf.
LEMMA LeafFacts ==
  ASSUME NEW mem, NEW a, NEW vpn, NEW l \in 1 .. 3,
         \A k \in 1 .. 3 : k < l => IsPointer(EntryAt(mem, k, a, vpn)),
         l = 3 \/ ~IsPointer(EntryAt(mem, l, a, vpn))
  PROVE  LeafLevel(mem, a, vpn) = l /\ Leaf(mem, a, vpn) = EntryAt(mem, l, a, vpn)
  BY DEF LeafLevel, Leaf

LEMMA PathInvStep ==
  ASSUME WalkerInv, WalkInv, PathInv,
         NEW gnt \in BOOLEAN, NEW rvalid \in BOOLEAN,
         NEW ctl \in Flushes \cup {"none"}, Cycle(gnt, rvalid, ctl)
  PROVE  PathInv'
<1>1. asid' \in Asids'
  BY SoftwareSteps DEF PathInv
<1> SUFFICES ASSUME Asking', (tlb_update_asid_q \notin unfenced)' PROVE OnPath'
  BY <1>1 DEF PathInv
<1>2. ctl \notin Flushes /\ asid' = asid
  BY WalkerSteps, SoftwareSteps DEF Asking, Walking
<1>3. tlb_update_asid_q' = asid
  BY <1>2, WalkInvStep DEF WalkInv, Requested, Asking, Walking
<1>4. pt' = pt /\ unfenced' = unfenced /\ asid \notin unfenced /\ ~Stray
  BY <1>2, <1>3, SoftwareSteps DEF PathInv, WalkerInv
<1>5. /\ gnt => state_q = "WAIT_GRANT"
      /\ rvalid => resp # <<>>
      /\ resp' = IF gnt THEN <<pt[ptw_pptr_q]>> ELSE IF rvalid THEN <<>> ELSE resp
      /\ data_rvalid_q' = rvalid
      /\ data_rdata_q' = IF rvalid THEN Head(resp) ELSE None
      /\ state_q' = walk_state(gnt)
      /\ ptw_lvl_q' = ptw_lvl_d
      /\ vpn_q' = IF StartInstr THEN fetch ELSE IF StartData THEN lsu.vpn ELSE vpn_q
      /\ ptw_pptr_q' = IF StartInstr THEN <<asid, fetch[1]>>
                       ELSE IF StartData THEN <<asid, lsu.vpn[1]>>
                       ELSE IF Descends THEN <<pte.ppn, vpn_q[ptw_lvl_q + 1]>>
                       ELSE ptw_pptr_q
  BY <1>2, GrantsOne DEF Cycle, DCachePort, data_req, ptw
<1> DEFINE Entry(l) == EntryAt(pt, l, asid, vpn_q)
<1>6. CASE state_q = "IDLE"
  <2>1. (StartInstr \/ StartData) /\ state_q' = "WAIT_GRANT" /\ ptw_lvl_q' = 1
    BY <1>5, <1>6 DEF walk_state, Asking, data_req, Descends, Looked, Installs, ptw_error,
       ptw_lvl_d
  <2>2. ptw_pptr_q' = <<asid, vpn_q'[1]>>
    BY <1>5, <2>1
  <2>3. AddressOf(pt, 1, asid, vpn_q') = <<asid, vpn_q'[1]>>
    BY EntryFacts
  <2>4. ptw_pptr_q' = AddressOf(pt, ptw_lvl_q, tlb_update_asid_q, vpn_q)'
    BY <1>3, <1>4, <2>1, <2>2, <2>3
  <2> QED BY <2>1, <2>4 DEF OnPath
<1>7. CASE state_q # "IDLE"
  <2>1. Asking /\ vpn_q' = vpn_q /\ tlb_update_asid_q = asid /\ OnPath
        /\ ~StartInstr /\ ~StartData
    <3>1. Asking /\ ~StartInstr /\ ~StartData
      BY <1>2, <1>7, WalkerSteps DEF StartInstr, StartData, Looked, Descends, Asking
    <3>2. tlb_update_asid_q = asid
      BY <3>1 DEF WalkInv, Requested, Asking, Walking
    <3> QED BY <1>4, <1>5, <3>1, <3>2 DEF PathInv
  <2>2. /\ ptw_pptr_q = AddressOf(pt, ptw_lvl_q, asid, vpn_q)
        /\ \A k \in 1 .. 3 : k < ptw_lvl_q => IsPointer(Entry(k))
        /\ ptw_lvl_q \in 1 .. 3
    BY <2>1 DEF OnPath, WalkerInv
  <2>3. CASE Descends
    <3>1. /\ state_q' = "WAIT_GRANT" /\ ptw_lvl_q' = ptw_lvl_q + 1 /\ ptw_lvl_q \in {1, 2}
          /\ ptw_pptr_q' = <<pte.ppn, vpn_q[ptw_lvl_q + 1]>>
      <4>1. state_q = "PTE_LOOKUP" /\ ptw_lvl_q < 3 /\ ~Installs /\ ~ptw_error
        BY <2>3 DEF Descends, Looked, Installs, ptw_error
      <4>2. state_q' = "WAIT_GRANT"
        BY <1>5, <2>1, <2>3, <4>1 DEF walk_state, data_req
      <4> QED BY <1>5, <2>1, <2>2, <2>3, <4>1, <4>2 DEF ptw_lvl_d
    <3>2. pte = Entry(ptw_lvl_q) /\ IsPointer(pte)
      BY <2>1, <2>3 DEF OnPath, Descends, Looked, pte, Invalid, LeafPte, IsPointer, IsInvalid
    <3>3. ptw_pptr_q' = AddressOf(pt, ptw_lvl_q', asid, vpn_q)
      BY <3>1, <3>2, EntryFacts
    <3>4. \A k \in 1 .. 3 : k < ptw_lvl_q' => IsPointer(Entry(k))
      BY <2>2, <3>1, <3>2
    <3> QED BY <1>3, <1>4, <2>1, <3>1, <3>3, <3>4 DEF OnPath
  <2>4. CASE ~Descends
    <3>1. ptw_lvl_q' = ptw_lvl_q /\ ptw_pptr_q' = ptw_pptr_q
      BY <1>5, <1>7, <2>1, <2>4 DEF ptw_lvl_d
    <3>2. state_q' = "PTE_LOOKUP" =>
            (IF data_rvalid_q' THEN data_rdata_q' ELSE resp'[1]) = Entry(ptw_lvl_q)
      <4>1. CASE state_q = "WAIT_GRANT"
        <5>1. resp = <<>> /\ ~rvalid
          BY <1>4, <1>5, <4>1 DEF Stray, Awaited
        <5>2. state_q' = "PTE_LOOKUP" => gnt
          BY <1>5, <2>1, <4>1 DEF walk_state, data_req, Looked, Descends, Installs, ptw_error
        <5>3. gnt => resp' = <<pt[ptw_pptr_q]>>
          BY <1>5
        <5>4. pt[ptw_pptr_q] = Entry(ptw_lvl_q)
          BY <2>2, EntryFacts
        <5> QED BY <1>5, <5>1, <5>2, <5>3, <5>4, OneAnswer
      <4>2. CASE state_q = "PTE_LOOKUP"
        <5>1. state_q' = "PTE_LOOKUP" => ~data_rvalid_q
          BY <1>5, <2>1, <2>4, <4>2
             DEF walk_state, data_req, Looked, Descends, Installs, ptw_error
        <5>2. ~data_rvalid_q => resp = <<resp[1]>> /\ resp[1] = Entry(ptw_lvl_q)
          BY <2>1, <4>2 DEF WalkerInv, Awaited, OnPath
        <5>3. ~gnt
          BY <1>5, <4>2
        <5>4. ~data_rvalid_q /\ rvalid => data_rdata_q' = Entry(ptw_lvl_q)
          BY <1>5, <5>2, OneAnswer
        <5>5. ~data_rvalid_q /\ ~rvalid => resp' = resp
          BY <1>5, <5>3
        <5> QED BY <1>5, <5>1, <5>2, <5>4, <5>5
      <4> QED BY <2>1, <4>1, <4>2 DEF Asking
    <3> QED BY <1>3, <1>4, <2>1, <2>2, <3>1, <3>2 DEF OnPath
  <2> QED BY <2>3, <2>4
<1> QED BY <1>6, <1>7

----------------------------------------------------------------------------
(***************************************************************************)
(* The replacement tree names one victim: two indices on whose path every  *)
(* node points their way share the path.                                   *)
(***************************************************************************)

\* The part of an index that is decided above depth d.
Prefix(i, d) == i \div 2 ^ (LogEntries - d)

LEMMA PrefixFacts ==
  ASSUME NEW i \in Index
  PROVE  /\ Prefix(i, 0) = 0 /\ Prefix(i, LogEntries) = i
         /\ \A d \in 0 .. LogEntries - 1 :
              /\ Prefix(i, d) = Prefix(i, d + 1) \div 2
              /\ Branch(i, d) = Prefix(i, d + 1) % 2
              /\ Node(i, d) = 2 ^ d - 1 + Prefix(i, d)
              /\ Prefix(i, d + 1) \in Nat
<1>1. i \in Nat /\ i < 2 ^ LogEntries /\ 2 ^ LogEntries \in Nat \ {0}
  BY IndexFacts DEF TLB_ENTRIES
<1>2. LogEntries - 0 = LogEntries /\ LogEntries - LogEntries = 0
  BY TlbAssumption
<1>3. i \div 2 ^ LogEntries = 0
  BY <1>1
<1>4. i \div 2 ^ 0 = i
  BY <1>1, PowersOfTwo
<1>5. ASSUME NEW d \in 0 .. LogEntries - 1
      PROVE  /\ Prefix(i, d) = Prefix(i, d + 1) \div 2
             /\ Branch(i, d) = Prefix(i, d + 1) % 2
             /\ Node(i, d) = 2 ^ d - 1 + Prefix(i, d)
             /\ Prefix(i, d + 1) \in Nat
  <2> DEFINE n == LogEntries - d - 1
  <2>1. /\ n \in 0 .. LogEntries - 1
        /\ LogEntries - d = n + 1 /\ LogEntries - (d + 1) = n
    BY TlbAssumption
  <2>2. PICK p \in Nat \ {0} : 2 ^ n = p /\ 2 ^ (n + 1) = 2 * p
    BY <2>1, PowersOfTwo
  <2>3. i \div (2 * p) = (i \div p) \div 2 /\ i \div p \in Nat
    BY <1>1
  <2>4. Prefix(i, d) = i \div (2 * p) /\ Prefix(i, d + 1) = i \div p
    BY <2>1, <2>2 DEF Prefix
  <2>5. Branch(i, d) = (i \div p) % 2
    BY <2>2 DEF Branch
  <2>6. Node(i, d) = 2 ^ d - 1 + Prefix(i, d)
    BY DEF Node, Prefix
  <2> QED BY <2>3, <2>4, <2>5, <2>6
<1> QED BY <1>2, <1>3, <1>4, <1>5 DEF Prefix

LEMMA UniqueVictim ==
  ASSUME NEW tree, NEW i \in Index, NEW j \in Index,
         replace_en(tree, i), replace_en(tree, j)
  PROVE  i = j
<1> DEFINE Apart == {d \in 0 .. LogEntries : Prefix(i, d) # Prefix(j, d)}
<1>1. CASE Apart = {}
  <2>1. LogEntries \in 0 .. LogEntries
    BY TlbAssumption
  <2>2. Prefix(i, LogEntries) = Prefix(j, LogEntries)
    BY <1>1, <2>1
  <2> QED BY <2>2, PrefixFacts
<1>2. CASE Apart # {}
  <2>1. Apart \in SUBSET Nat
    BY TlbAssumption
  <2>2. PICK d \in Apart : \A y \in Apart : d <= y
    BY <1>2, <2>1, LeastExists
  <2>3. d # 0
    BY <2>2, PrefixFacts
  <2>4. PICK c \in 0 .. LogEntries - 1 : d = c + 1
    <3>1. d - 1 \in 0 .. LogEntries - 1 /\ d = (d - 1) + 1
      BY <2>2, <2>3, TlbAssumption
    <3> QED BY <3>1
  <2>5. Prefix(i, c) = Prefix(j, c)
    <3>1. c \in 0 .. LogEntries /\ ~ (d <= c)
      BY <2>4, TlbAssumption
    <3>2. c \notin Apart
      BY <2>2, <3>1
    <3> QED BY <3>1, <3>2
  <2>6. Node(i, c) = Node(j, c)
    BY <2>5, PrefixFacts
  <2>7. Branch(i, c) = Branch(j, c)
    BY <2>6 DEF replace_en
  <2>8. /\ Prefix(i, c + 1) \div 2 = Prefix(j, c + 1) \div 2
        /\ Prefix(i, c + 1) % 2 = Prefix(j, c + 1) % 2
        /\ Prefix(i, c + 1) \in Nat /\ Prefix(j, c + 1) \in Nat
    BY <2>5, <2>7, PrefixFacts
  <2>9. ASSUME NEW m \in Nat, NEW n \in Nat, m \div 2 = n \div 2, m % 2 = n % 2
        PROVE  m = n
    BY <2>9
  <2>10. Prefix(i, d) = Prefix(j, d)
    BY <2>4, <2>8, <2>9
  <2> QED BY <2>2, <2>10
<1> QED BY <1>1, <1>2

----------------------------------------------------------------------------
(***************************************************************************)
(* What the TLBs hold.                                                     *)
(***************************************************************************)

\* An entry of an address space without unfenced edits is what a walk finds.
EntryOK(e, mem, stale, spaces) ==
  e # NoEntry =>
    /\ e.asid \in spaces /\ e.lvl \in 1 .. 3
    /\ e.asid \notin stale =>
         /\ Mapped(mem, e.asid, e.vpn)
         /\ e.lvl = LeafLevel(mem, e.asid, e.vpn)
         /\ e.pte = Leaf(mem, e.asid, e.vpn)

\* No two entries of such an address space translate the same page.
NoOverlap(tlb, stale) ==
  \A a, v : \A i, j \in Index :
    /\ a \notin stale
    /\ Matches(tlb.entries[i], a, v) /\ Matches(tlb.entries[j], a, v)
    => i = j

TlbOK(tlb, mem, stale, spaces) ==
  /\ DOMAIN tlb.entries = Index
  /\ \A i \in Index : EntryOK(tlb.entries[i], mem, stale, spaces)
  /\ NoOverlap(tlb, stale)

TlbInv == TlbOK(itlb, pt, unfenced, Asids) /\ TlbOK(dtlb, pt, unfenced, Asids)

LEMMA LeafLevelType ==
  ASSUME NEW mem, NEW a, NEW vpn
  PROVE  LeafLevel(mem, a, vpn) \in 1 .. 3
  BY DEF LeafLevel

\* A page is decided by the parts of the page number down to its level.
LEMMA SamePage ==
  ASSUME NEW mem, NEW a, NEW u, NEW v,
         \A k \in 1 .. LeafLevel(mem, a, u) : u[k] = v[k]
  PROVE  /\ LeafLevel(mem, a, v) = LeafLevel(mem, a, u)
         /\ Leaf(mem, a, v) = Leaf(mem, a, u)
         /\ Mapped(mem, a, v) <=> Mapped(mem, a, u)
<1> DEFINE l == LeafLevel(mem, a, u)
<1>1. l \in 1 .. 3 /\ u[1] = v[1] /\ (l >= 2 => u[2] = v[2]) /\ (l = 3 => u[3] = v[3])
  BY LeafLevelType
<1>2. /\ EntryAt(mem, 1, a, v) = EntryAt(mem, 1, a, u)
      /\ l >= 2 => EntryAt(mem, 2, a, v) = EntryAt(mem, 2, a, u)
      /\ l = 3 => EntryAt(mem, 3, a, v) = EntryAt(mem, 3, a, u)
  BY <1>1 DEF EntryAt
<1>3. LeafLevel(mem, a, v) = l
  BY <1>1, <1>2 DEF LeafLevel
<1>4. Leaf(mem, a, v) = Leaf(mem, a, u)
  BY <1>1, <1>2, <1>3 DEF Leaf
<1> QED BY <1>3, <1>4 DEF Mapped

LEMMA MatchFacts ==
  ASSUME NEW e, NEW a, NEW v, NEW mem, NEW stale, NEW spaces,
         EntryOK(e, mem, stale, spaces), a \notin stale, Matches(e, a, v)
  PROVE  /\ Mapped(mem, a, v)
         /\ e.lvl = LeafLevel(mem, a, v)
         /\ e.pte = Leaf(mem, a, v)
<1>1. e # NoEntry /\ e.asid = a /\ \A k \in 1 .. e.lvl : e.vpn[k] = v[k]
  BY DEF Matches
<1>2. /\ Mapped(mem, a, e.vpn)
      /\ e.lvl = LeafLevel(mem, a, e.vpn)
      /\ e.pte = Leaf(mem, a, e.vpn)
  BY <1>1 DEF EntryOK
<1> QED BY <1>1, <1>2, SamePage

\* What the walker installs.
LEMMA UpdateFacts ==
  ASSUME WalkerInv, WalkInv, PathInv, Installs
  PROVE  /\ ptw_update.asid = asid /\ ptw_update.vpn = vpn_q
         /\ ptw_update.lvl = ptw_lvl_q /\ ptw_update.pte = pte
         /\ lu_hit(SideTlb, asid, vpn_q) = {}
         /\ EntryOK(ptw_update, pt, unfenced, Asids)
<1>1. state_q = "PTE_LOOKUP" /\ data_rvalid_q /\ LeafPte /\ Permitted /\ Aligned
  BY DEF Installs, Looked
<1>2. Requested
  BY <1>1 DEF WalkInv, Walking
<1>3. /\ ptw_update.asid = asid /\ ptw_update.vpn = vpn_q
      /\ ptw_update.lvl = ptw_lvl_q /\ ptw_update.pte = pte
  BY <1>2 DEF ptw_update, Requested
<1>4. ASSUME asid \notin unfenced
      PROVE  /\ Mapped(pt, asid, vpn_q)
             /\ ptw_lvl_q = LeafLevel(pt, asid, vpn_q)
             /\ pte = Leaf(pt, asid, vpn_q)
  <2>1. OnPath /\ tlb_update_asid_q = asid
    BY <1>1, <1>2, <1>4 DEF PathInv, Asking, Requested
  <2>2. /\ pte = EntryAt(pt, ptw_lvl_q, asid, vpn_q)
        /\ \A k \in 1 .. 3 : k < ptw_lvl_q => IsPointer(EntryAt(pt, k, asid, vpn_q))
    BY <1>1, <2>1 DEF OnPath, pte
  <2>3. ~IsInvalid(pte) /\ ~IsPointer(pte)
    BY <1>1 DEF LeafPte, Invalid, IsInvalid, IsPointer
  <2>4. ptw_lvl_q = LeafLevel(pt, asid, vpn_q) /\ pte = Leaf(pt, asid, vpn_q)
    BY <2>2, <2>3, LeafFacts DEF WalkerInv
  <2>5. pte.align <= ptw_lvl_q /\ pte.a
    BY <1>1 DEF Aligned, Permitted
  <2> QED BY <2>3, <2>4, <2>5 DEF Mapped
<1>5. EntryOK(ptw_update, pt, unfenced, Asids)
  BY <1>3, <1>4 DEF EntryOK, PathInv, WalkerInv
<1> QED BY <1>2, <1>3, <1>5 DEF Requested

\* A cycle keeps what is true of an entry that an SFENCE.VMA leaves.
LEMMA EntryStays ==
  ASSUME NEW gnt \in BOOLEAN, NEW rvalid \in BOOLEAN,
         NEW ctl \in Flushes \cup {"none"}, Cycle(gnt, rvalid, ctl),
         NEW e, EntryOK(e, pt, unfenced, Asids),
         ctl = "sfence" => asid # 0 /\ e.asid # asid
  PROVE  EntryOK(e, pt', unfenced', Asids')
<1> SUFFICES ASSUME e # NoEntry, e.asid \notin unfenced'
             PROVE  pt' = pt /\ e.asid \notin unfenced
  BY SoftwareSteps DEF EntryOK
<1>1. e.asid \in Asids
  BY DEF EntryOK
<1>2. unfenced' # Asids
  BY <1>1
<1>3. pt' = pt
  BY <1>2, SoftwareSteps
<1>4. unfenced' = unfenced \/ (ctl = "sfence" /\ unfenced' = IF asid = 0 THEN {} ELSE unfenced \ {asid})
  BY <1>2, <1>3, SoftwareSteps
<1> QED BY <1>3, <1>4

\* One clock edge of a TLB: the walker's update is of the page it walked for,
\* which the TLB does not hold yet.
LEMMA TlbStep ==
  ASSUME NEW gnt \in BOOLEAN, NEW rvalid \in BOOLEAN,
         NEW ctl \in Flushes \cup {"none"}, Cycle(gnt, rvalid, ctl),
         NEW tlb, TlbOK(tlb, pt, unfenced, Asids),
         NEW update, EntryOK(update, pt, unfenced, Asids),
         update # NoEntry => lu_hit(tlb, update.asid, update.vpn) = {},
         NEW new, new.entries = update_flush(tlb, update, ctl = "sfence", asid)
  PROVE  TlbOK(new, pt', unfenced', Asids')
<1> DEFINE Kept(i) == /\ new.entries[i] = tlb.entries[i]
                      /\ ctl = "sfence" => asid # 0 /\ new.entries[i].asid # asid
           Written(i) == /\ ctl # "sfence" /\ update # NoEntry
                         /\ new.entries[i] = update /\ replace_en(tlb.tree, i)
<1>1. DOMAIN new.entries = Index
  BY DEF update_flush
<1>2. \A i \in Index : new.entries[i] = NoEntry \/ Kept(i) \/ Written(i)
  BY DEF update_flush
<1>3. ASSUME NEW i \in Index PROVE EntryOK(new.entries[i], pt', unfenced', Asids')
  <2>1. CASE new.entries[i] = NoEntry
    BY <2>1 DEF EntryOK
  <2>2. CASE Kept(i)
    BY <2>2, EntryStays DEF TlbOK
  <2>3. CASE Written(i)
    BY <2>3, EntryStays
  <2> QED BY <1>2, <2>1, <2>2, <2>3
<1>4. NoOverlap(new, unfenced')
  <2> SUFFICES ASSUME NEW a, NEW v, NEW i \in Index, NEW j \in Index, a \notin unfenced',
                      Matches(new.entries[i], a, v), Matches(new.entries[j], a, v),
                      i # j
               PROVE  FALSE
    BY DEF NoOverlap
  <2>1. /\ new.entries[i] # NoEntry /\ new.entries[j] # NoEntry
        /\ new.entries[i].asid = a /\ new.entries[j].asid = a
    BY DEF Matches
  <2>2. a \in Asids /\ a \in Asids' /\ unfenced' # Asids
    BY <1>3, <2>1, SoftwareSteps DEF EntryOK
  <2>3. /\ Kept(i) \/ Written(i)
        /\ Kept(j) \/ Written(j)
    BY <1>2, <2>1
  <2>4. a \notin unfenced
    <3>1. unfenced' = unfenced \/ (ctl = "sfence" /\ unfenced' = IF asid = 0 THEN {} ELSE unfenced \ {asid})
      BY <2>2, SoftwareSteps
    <3>2. ctl = "sfence" => asid # 0 /\ a # asid
      BY <2>1, <2>3
    <3> QED BY <3>1, <3>2
  <2>5. CASE Kept(i) /\ Kept(j)
    BY <2>4, <2>5 DEF TlbOK, NoOverlap
  <2>6. ASSUME NEW m \in Index, NEW n \in Index, Kept(m), Written(n),
               Matches(new.entries[m], a, v), Matches(new.entries[n], a, v)
        PROVE  FALSE
    <3>1. Matches(tlb.entries[m], a, v) /\ Matches(update, a, v) /\ update # NoEntry
      BY <2>6
    <3>2. EntryOK(tlb.entries[m], pt, unfenced, Asids)
      BY DEF TlbOK
    <3>3. tlb.entries[m].lvl = LeafLevel(pt, a, v) /\ update.lvl = LeafLevel(pt, a, v)
      BY <2>4, <3>1, <3>2, MatchFacts
    <3>4. update.asid = a /\ \A k \in 1 .. update.lvl : update.vpn[k] = v[k]
      BY <3>1 DEF Matches
    <3>5. Matches(tlb.entries[m], a, update.vpn)
      BY <3>1, <3>3, <3>4 DEF Matches
    <3>6. m \in lu_hit(tlb, update.asid, update.vpn)
      BY <3>4, <3>5 DEF lu_hit
    <3> QED BY <3>1, <3>6
  <2>7. CASE Written(i) /\ Written(j)
    BY <2>7, UniqueVictim
  <2> QED BY <2>3, <2>5, <2>6, <2>7
<1> QED BY <1>1, <1>3, <1>4 DEF TlbOK

LEMMA TlbInvStep ==
  ASSUME WalkerInv, WalkInv, PathInv, TlbInv,
         NEW gnt \in BOOLEAN, NEW rvalid \in BOOLEAN,
         NEW ctl \in Flushes \cup {"none"}, Cycle(gnt, rvalid, ctl)
  PROVE  TlbInv'
<1>1. /\ itlb'.entries = update_flush(itlb, itlb_update, ctl = "sfence", asid)
      /\ dtlb'.entries = update_flush(dtlb, dtlb_update, ctl = "sfence", asid)
  BY DEF Cycle, TlbCycle
<1>2. /\ EntryOK(itlb_update, pt, unfenced, Asids)
      /\ itlb_update # NoEntry => lu_hit(itlb, itlb_update.asid, itlb_update.vpn) = {}
  <2>1. CASE Installs /\ is_instr_ptw_q
    BY <2>1, UpdateFacts DEF itlb_update, SideTlb
  <2>2. CASE ~(Installs /\ is_instr_ptw_q)
    BY <2>2 DEF itlb_update, EntryOK
  <2> QED BY <2>1, <2>2
<1>3. /\ EntryOK(dtlb_update, pt, unfenced, Asids)
      /\ dtlb_update # NoEntry => lu_hit(dtlb, dtlb_update.asid, dtlb_update.vpn) = {}
  <2>1. CASE Installs /\ ~is_instr_ptw_q
    BY <2>1, UpdateFacts DEF dtlb_update, SideTlb
  <2>2. CASE ~(Installs /\ ~is_instr_ptw_q)
    BY <2>2 DEF dtlb_update, EntryOK
  <2> QED BY <2>1, <2>2
<1>4. TlbOK(itlb', pt', unfenced', Asids')
  BY <1>1, <1>2, TlbStep DEF TlbInv
<1>5. TlbOK(dtlb', pt', unfenced', Asids')
  BY <1>1, <1>3, TlbStep DEF TlbInv
<1> QED BY <1>4, <1>5 DEF TlbInv

LEMMA TlbConsistentFollows ==
  ASSUME WalkerInv, TlbInv
  PROVE  TlbConsistent
<1>1. Len(resp) <= 1
  BY OneAnswer DEF WalkerInv
<1>2. TypeOK
  BY <1>1 DEF TypeOK, WalkerInv, TlbInv, TlbOK
<1>3. TlbCoherent
  BY DEF TlbCoherent, TlbInv, TlbOK, EntryOK
<1>4. SingleHit
  <2> SUFFICES ASSUME NEW tlb \in {itlb, dtlb}, NEW a \in Asids \ unfenced, NEW v
               PROVE  Cardinality(lu_hit(tlb, a, v)) <= 1
    BY DEF SingleHit
  <2>1. \A i, j \in lu_hit(tlb, a, v) : i = j
    BY DEF TlbInv, TlbOK, NoOverlap, lu_hit
  <2>2. CASE lu_hit(tlb, a, v) = {}
    BY <2>2, FS_EmptySet
  <2>3. CASE lu_hit(tlb, a, v) # {}
    <3>1. PICK i : lu_hit(tlb, a, v) = {i}
      BY <2>1, <2>3
    <3> QED BY <3>1, FS_Singleton
  <2> QED BY <2>2, <2>3
<1> QED BY <1>2, <1>3, <1>4 DEF TlbConsistent

----------------------------------------------------------------------------
(***************************************************************************)
(* What the MMU answers.  The DTLB does not record whether an entry was    *)
(* installed as readable because of MXR, so this part supposes that the    *)
(* bit does not change while the translations it decided on are in use.    *)
(***************************************************************************)
MxrFixed ==
  \A s \in DOMAIN Setups : \A c, d \in Setups[s].contexts :
    c.priv \in {"S", "U"} /\ c.mxr = d.mxr

ContextInv == setup \in DOMAIN Setups /\ ctx \in Contexts

Readable(p, mxr) == p.r \/ (p.x /\ mxr)

\* The rights the walker checks before it installs an entry.
RightsInv ==
  \A i \in Index :
    /\ itlb.entries[i] # NoEntry => itlb.entries[i].pte.x
    /\ dtlb.entries[i] # NoEntry => Readable(dtlb.entries[i].pte, ctx.mxr)

\* The registered request and what the DTLB said to it.
RequestInv ==
  lsu_q # None /\ lsu_q.live /\ lsu_q.entry # NoEntry =>
    /\ EntryOK(lsu_q.entry, pt, unfenced, Asids)
    /\ Matches(lsu_q.entry, asid, lsu_q.vpn)
    /\ Readable(lsu_q.entry.pte, ctx.mxr)

\* An error the walker reports is one of the page it walked for.
Refused ==
  IF is_instr_ptw_q
  THEN ~(Mapped(pt, asid, vpn_q) /\ Leaf(pt, asid, vpn_q).x)
  ELSE lsu_q # None =>
         /\ lsu_q.vpn = vpn_q
         /\ ~(/\ Mapped(pt, asid, vpn_q)
              /\ Readable(Leaf(pt, asid, vpn_q), ctx.mxr)
              /\ lsu_q.st => Leaf(pt, asid, vpn_q).w /\ Leaf(pt, asid, vpn_q).d)

ErrorInv == state_q = "PROPAGATE_ERROR" /\ asid \notin unfenced => Refused

AnswerInv == ContextInv /\ RightsInv /\ RequestInv /\ ErrorInv

LEMMA ContextStep ==
  ASSUME MxrFixed, ContextInv,
         NEW gnt \in BOOLEAN, NEW rvalid \in BOOLEAN,
         NEW ctl \in Flushes \cup {"none"}, Cycle(gnt, rvalid, ctl)
  PROVE  ContextInv' /\ ctx'.mxr = ctx.mxr
<1>1. setup' = setup /\ ctx' \in Contexts /\ Contexts' = Contexts
  BY SoftwareSteps DEF ContextInv
<1>2. ctx'.mxr = ctx.mxr
  BY <1>1 DEF ContextInv, MxrFixed, Contexts
<1> QED BY <1>1, <1>2 DEF ContextInv

LEMMA RightsStep ==
  ASSUME WalkerInv, ContextInv, RightsInv, MxrFixed,
         NEW gnt \in BOOLEAN, NEW rvalid \in BOOLEAN,
         NEW ctl \in Flushes \cup {"none"}, Cycle(gnt, rvalid, ctl)
  PROVE  RightsInv'
<1>1. /\ itlb'.entries = update_flush(itlb, itlb_update, ctl = "sfence", asid)
      /\ dtlb'.entries = update_flush(dtlb, dtlb_update, ctl = "sfence", asid)
  BY DEF Cycle, TlbCycle
<1>2. itlb_update # NoEntry => itlb_update.pte.x
  BY DEF itlb_update, ptw_update, Installs, Permitted
<1>3. dtlb_update # NoEntry => Readable(dtlb_update.pte, ctx.mxr)
  BY DEF dtlb_update, ptw_update, Installs, Permitted, Readable
<1>4. ctx'.mxr = ctx.mxr
  BY ContextStep
<1> SUFFICES ASSUME NEW i \in Index
             PROVE  /\ itlb'.entries[i] # NoEntry => itlb'.entries[i].pte.x
                    /\ dtlb'.entries[i] # NoEntry => Readable(dtlb'.entries[i].pte, ctx'.mxr)
  BY DEF RightsInv
<1>5. /\ itlb'.entries[i] \in {NoEntry, itlb.entries[i], itlb_update}
      /\ dtlb'.entries[i] \in {NoEntry, dtlb.entries[i], dtlb_update}
  BY <1>1 DEF update_flush
<1> QED BY <1>2, <1>3, <1>4, <1>5 DEF RightsInv

LEMMA RequestStep ==
  ASSUME ContextInv, RightsInv, TlbInv, MxrFixed,
         NEW gnt \in BOOLEAN, NEW rvalid \in BOOLEAN,
         NEW ctl \in Flushes \cup {"none"}, Cycle(gnt, rvalid, ctl)
  PROVE  RequestInv'
<1> SUFFICES ASSUME lsu_q' # None, lsu_q'.live, lsu_q'.entry # NoEntry
             PROVE  /\ EntryOK(lsu_q'.entry, pt', unfenced', Asids')
                    /\ Matches(lsu_q'.entry, asid', lsu_q'.vpn)
                    /\ Readable(lsu_q'.entry.pte, ctx'.mxr)
  BY DEF RequestInv
<1>1. /\ lsu # None /\ lsu_q'.entry = lu_entry(dtlb, asid, lsu.vpn)
      /\ lsu_q'.vpn = lsu.vpn /\ ctl \notin Flushes
  BY DEF Cycle, dtlb_entry, lsu_req
<1>2. asid' = asid /\ ctx'.mxr = ctx.mxr /\ ctl # "sfence"
  BY <1>1, SoftwareSteps, ContextStep DEF Flushes
<1>3. PICK i \in Index : /\ lsu_q'.entry = dtlb.entries[i]
                         /\ Matches(dtlb.entries[i], asid, lsu.vpn)
  BY <1>1, LookupFacts
<1>4. EntryOK(dtlb.entries[i], pt, unfenced, Asids)
  BY DEF TlbInv, TlbOK
<1>5. EntryOK(dtlb.entries[i], pt', unfenced', Asids')
  BY <1>2, <1>4, EntryStays
<1>6. Readable(dtlb.entries[i].pte, ctx.mxr)
  BY <1>3 DEF RightsInv, Matches
<1> QED BY <1>1, <1>2, <1>3, <1>5, <1>6

LEMMA ErrorStep ==
  ASSUME WalkerInv, WalkInv, PathInv, ContextInv, MxrFixed,
         NEW gnt \in BOOLEAN, NEW rvalid \in BOOLEAN,
         NEW ctl \in Flushes \cup {"none"}, Cycle(gnt, rvalid, ctl)
  PROVE  ErrorInv'
<1> SUFFICES ASSUME state_q' = "PROPAGATE_ERROR", asid' \notin unfenced'
             PROVE  Refused'
  BY DEF ErrorInv
<1>1. /\ Looked /\ ~Descends /\ ~Installs /\ state_q = "PTE_LOOKUP"
      /\ ctl \notin Flushes /\ asid' = asid
  BY WalkerSteps, SoftwareSteps DEF Walking, Looked
<1>2. pt' = pt /\ unfenced' = unfenced /\ asid \notin unfenced /\ ctx'.mxr = ctx.mxr
  BY <1>1, SoftwareSteps, ContextStep DEF PathInv
<1>3. Requested /\ OnPath /\ tlb_update_asid_q = asid
  BY <1>1, <1>2 DEF WalkInv, Walking, PathInv, Asking, Requested
<1>4. vpn_q' = vpn_q /\ is_instr_ptw_q' = is_instr_ptw_q
  BY <1>1 DEF Cycle, ptw, StartInstr, StartData
<1>5. /\ pte = EntryAt(pt, ptw_lvl_q, asid, vpn_q)
      /\ \A k \in 1 .. 3 : k < ptw_lvl_q => IsPointer(EntryAt(pt, k, asid, vpn_q))
      /\ ptw_lvl_q \in 1 .. 3
  BY <1>1, <1>3 DEF OnPath, pte, Looked, WalkerInv
<1>6. ptw_lvl_q = LeafLevel(pt, asid, vpn_q) /\ pte = Leaf(pt, asid, vpn_q)
  <2>1. ptw_lvl_q = 3 \/ ~IsPointer(pte)
    BY <1>1, <1>5 DEF Descends, Invalid, LeafPte, IsPointer, IsInvalid
  <2> QED BY <1>5, <2>1, LeafFacts
<1>7. IsInvalid(pte) \/ IsPointer(pte) \/ ~Permitted \/ ~Aligned
  BY <1>1 DEF Installs, Invalid, LeafPte, IsPointer, IsInvalid
<1>8. CASE is_instr_ptw_q
  <2>1. ~(Mapped(pt, asid, vpn_q) /\ pte.x)
    BY <1>6, <1>7, <1>8 DEF Permitted, Aligned, Mapped
  <2> QED BY <1>1, <1>2, <1>4, <1>6, <1>8, <2>1 DEF Refused
<1>9. CASE ~is_instr_ptw_q
  <2>1. lsu # None /\ lsu.vpn = vpn_q
    BY <1>3, <1>9 DEF Requested
  <2>2. lsu_q' = [vpn |-> lsu.vpn, st |-> lsu.st, entry |-> dtlb_entry,
                  live |-> ~(ctl \in Flushes)]
    BY <2>1 DEF Cycle
  <2>3. lsu_q'.vpn = vpn_q /\ lsu_q'.st = lsu.st
    BY <2>1, <2>2
  <2>4. ~(Mapped(pt, asid, vpn_q) /\ Readable(pte, ctx.mxr) /\ (lsu.st => pte.w /\ pte.d))
    BY <1>6, <1>7, <1>9, <2>1 DEF Permitted, Aligned, Mapped, Readable
  <2> QED BY <1>1, <1>2, <1>4, <1>6, <1>9, <2>3, <2>4 DEF Refused
<1> QED BY <1>8, <1>9

LEMMA InterfaceFollows ==
  ASSUME WalkerInv, WalkInv, TlbInv, AnswerInv, MxrFixed
  PROVE  InterfaceAnswersRight
<1>1. ctx.priv \in {"S", "U"}
  BY DEF AnswerInv, ContextInv, Contexts, MxrFixed
<1>2. DataAnswerRight
  <2> SUFFICES ASSUME lsu_q # None, lsu_q.live, DataAnswer # None, asid \notin unfenced
               PROVE  DataAnswer = DataReference(asid, lsu_q.vpn, lsu_q.st)
    BY DEF DataAnswerRight
  <2>1. CASE lsu_q.entry # NoEntry
    <3> DEFINE p == lsu_q.entry.pte
    <3>1. /\ EntryOK(lsu_q.entry, pt, unfenced, Asids)
          /\ Matches(lsu_q.entry, asid, lsu_q.vpn) /\ Readable(p, ctx.mxr)
      BY <2>1 DEF AnswerInv, RequestInv
    <3>2. /\ Mapped(pt, asid, lsu_q.vpn)
          /\ lsu_q.entry.lvl = LeafLevel(pt, asid, lsu_q.vpn)
          /\ p = Leaf(pt, asid, lsu_q.vpn)
      BY <3>1, MatchFacts
    <3>3. write_err(p) \/ data_access_err(p) <=>
            ~(/\ p.r \/ (p.x /\ ctx.mxr)
              /\ lsu_q.st => p.w /\ p.d
              /\ IF ctx.priv = "S" THEN p.u => ctx.sum ELSE p.u)
      BY <1>1, <3>1 DEF write_err, data_access_err, Readable
    <3>4. DataAnswer = IF write_err(p) \/ data_access_err(p)
                       THEN Fault ELSE <<p.ppn, lsu_q.entry.lvl>>
      BY <2>1 DEF DataAnswer
    <3> QED BY <3>2, <3>3, <3>4 DEF DataReference, Translation
  <2>2. CASE lsu_q.entry = NoEntry
    <3>1. DataAnswer = Fault /\ ~is_instr_ptw_q /\ state_q = "PROPAGATE_ERROR"
      BY <2>2 DEF DataAnswer, ptw_error
    <3>2. Refused
      BY <3>1 DEF AnswerInv, ErrorInv
    <3> QED BY <3>1, <3>2 DEF Refused, DataReference, Translation, Readable
  <2> QED BY <2>1, <2>2
<1>3. FetchAnswerRight
  <2> SUFFICES ASSUME FetchAnswer # None, asid \notin unfenced
               PROVE  FetchAnswer = FetchReference(asid, fetch)
    BY DEF FetchAnswerRight
  <2>1. fetch # None
    BY DEF FetchAnswer
  <2>2. CASE itlb_hit
    <3> DEFINE p == itlb_entry.pte
    <3>1. PICK i \in Index : /\ itlb_entry = itlb.entries[i]
                             /\ Matches(itlb.entries[i], asid, fetch)
      BY <2>1, <2>2, LookupFacts DEF itlb_hit, itlb_entry
    <3>2. /\ EntryOK(itlb_entry, pt, unfenced, Asids) /\ Matches(itlb_entry, asid, fetch)
          /\ p.x
      BY <2>2, <3>1 DEF TlbInv, TlbOK, AnswerInv, RightsInv, itlb_hit
    <3>3. /\ Mapped(pt, asid, fetch)
          /\ itlb_entry.lvl = LeafLevel(pt, asid, fetch)
          /\ p = Leaf(pt, asid, fetch)
      BY <3>2, MatchFacts
    <3>4. FetchAnswer = IF instr_access_err(p) THEN Fault ELSE <<p.ppn, itlb_entry.lvl>>
      BY <2>1, <2>2 DEF FetchAnswer
    <3>5. instr_access_err(p) <=> ~(p.u <=> ctx.priv = "U")
      BY <1>1 DEF instr_access_err
    <3> QED BY <3>2, <3>3, <3>4, <3>5 DEF FetchReference, Translation
  <2>3. CASE ~itlb_hit
    <3>1. FetchAnswer = Fault /\ is_instr_ptw_q /\ state_q = "PROPAGATE_ERROR"
      BY <2>1, <2>3 DEF FetchAnswer, ptw_error
    <3>2. Refused /\ Requested
      BY <3>1 DEF AnswerInv, ErrorInv, WalkInv, Walking
    <3>3. fetch = vpn_q
      BY <3>1, <3>2 DEF Requested
    <3> QED BY <3>1, <3>2, <3>3 DEF Refused, FetchReference, Translation
  <2> QED BY <2>2, <2>3
<1> QED BY <1>2, <1>3 DEF InterfaceAnswersRight

----------------------------------------------------------------------------
(***************************************************************************)
(* The theorems.                                                           *)
(***************************************************************************)
MmuInv == WalkerInv /\ WalkInv /\ PathInv /\ TlbInv

LEMMA MmuInit == Init => MmuInv
<1> SUFFICES ASSUME Init PROVE MmuInv
  OBVIOUS
<1>1. WalkerInv /\ WalkInv /\ PathInv
  <2>1. /\ state_q = "IDLE" /\ ptw_lvl_q = 1 /\ resp = <<>> /\ asid \in Asids
        /\ is_instr_ptw_q = FALSE /\ global_mapping_q = FALSE /\ data_rvalid_q = FALSE
    BY DEF Init
  <2>2. ~Walking /\ ~Asking /\ ~Awaited /\ ~Stray
    BY <2>1 DEF Walking, Asking, Awaited, Stray
  <2>3. /\ ~data_rvalid_q /\ data_rvalid_q \in BOOLEAN
        /\ is_instr_ptw_q \in BOOLEAN /\ global_mapping_q \in BOOLEAN
    BY <2>1, Zenon
  <2>4. state_q \in {"IDLE", "WAIT_GRANT", "PTE_LOOKUP", "WAIT_RVALID", "PROPAGATE_ERROR"}
    BY <2>1, Zenon
  <2>5. ptw_lvl_q \in 1 .. 3
    BY <2>1
  <2>6. WalkerInv
    BY <2>1, <2>2, <2>3, <2>4, <2>5, Zenon DEF WalkerInv
  <2> QED BY <2>1, <2>2, <2>6 DEF WalkInv, PathInv
<1>2. TlbOK(EmptyTlb, pt, unfenced, Asids)
  BY DEF EmptyTlb, TlbOK, EntryOK, NoOverlap, Matches
<1> QED BY <1>1, <1>2 DEF Init, MmuInv, TlbInv

LEMMA MmuStep ==
  ASSUME MmuInv, [Next]_vars
  PROVE  MmuInv'
<1>1. CASE Next
  <2>1. PICK gnt \in BOOLEAN, rvalid \in BOOLEAN, ctl \in Flushes \cup {"none"} :
          Cycle(gnt, rvalid, ctl)
    BY <1>1 DEF Next
  <2> QED BY <2>1, WalkerInvStep, WalkInvStep, PathInvStep, TlbInvStep DEF MmuInv
<1>2. CASE UNCHANGED vars
  BY <1>2 DEF vars, ptwVars, MmuInv, WalkerInv, WalkInv, PathInv, TlbInv, Walking, Asking,
     Requested, SideTlb, OnPath, Asids, Awaited, Stray
<1> QED BY <1>1, <1>2

\* However flushes, grants and answers interleave, an answer goes astray only
\* by a second flush in WAIT_RVALID (ptw.sv): a flush at any other moment of a
\* walk has the walker wait for what it is owed.
THEOREM StraysByOneFlush == Spec => StraysOnlyFromWaitRvalid
<1> DEFINE A == ~Stray /\ Stray' => /\ state_q = "WAIT_RVALID" /\ ~data_rvalid_q
                                   /\ state_q' = "IDLE" /\ resp' = resp
<1>1. MmuInv /\ [Next]_vars => [A]_vars
  <2> SUFFICES ASSUME MmuInv, Next, ~Stray, Stray'
               PROVE  /\ state_q = "WAIT_RVALID" /\ ~data_rvalid_q
                      /\ state_q' = "IDLE" /\ resp' = resp
    OBVIOUS
  <2>1. PICK gnt \in BOOLEAN, rvalid \in BOOLEAN, ctl \in Flushes \cup {"none"} :
          Cycle(gnt, rvalid, ctl)
    BY DEF Next
  <2>2. /\ gnt => state_q = "WAIT_GRANT"
        /\ rvalid => resp # <<>>
        /\ data_rvalid_q' = rvalid
        /\ resp' = IF gnt THEN <<pt[ptw_pptr_q]>> ELSE IF rvalid THEN <<>> ELSE resp
        /\ state_q' = IF ctl \in Flushes THEN flushed_state(gnt) ELSE walk_state(gnt)
    BY <2>1, GrantsOne DEF MmuInv, Cycle, DCachePort, data_req, ptw
  <2>3. ~gnt
    <3> SUFFICES ASSUME gnt PROVE FALSE
      OBVIOUS
    <3>1. state_q = "WAIT_GRANT" /\ ~rvalid
      BY <2>2 DEF Stray, Awaited
    <3>2. state_q' \in {"PTE_LOOKUP", "WAIT_RVALID"}
      BY <2>2, <3>1 DEF flushed_state, walk_state, data_req, StartInstr, StartData, Looked,
         Descends, Installs, ptw_error
    <3> QED BY <2>2, <3>1, <3>2 DEF Stray, Awaited
  <2>4. Awaited /\ ~rvalid /\ resp' = resp
    BY <2>2, <2>3 DEF Stray
  <2>5. state_q' = "IDLE" /\ state_q = "WAIT_RVALID"
    BY <2>2, <2>3, <2>4 DEF Stray, Awaited, flushed_state, walk_state, data_req, Looked,
       Descends, Installs, StartInstr, StartData, ptw_error
  <2> QED BY <2>4, <2>5 DEF Awaited
<1> QED BY <1>1, MmuInit, MmuStep, PTL DEF Spec, StraysOnlyFromWaitRvalid

\* Whatever the number of entries and the page tables: the registers keep
\* their types, an entry of a fenced address space is what a walk finds, and
\* at most one entry of a TLB hits (the assertion of tlb.sv).
THEOREM TlbsConsistent == Spec => []TlbConsistent
<1>1. MmuInv => TlbConsistent
  BY TlbConsistentFollows DEF MmuInv
<1> QED BY <1>1, MmuInit, MmuStep, PTL DEF Spec

\* What both interfaces of mmu.sv answer, page or fault, is what the Sv39
\* reference algorithm says of the current page tables, privilege level, SUM
\* and MXR, while MXR does not change.
THEOREM InterfacesRight ==
  ASSUME MxrFixed
  PROVE  Spec => []InterfaceAnswersRight
<1> DEFINE Inv == MmuInv /\ AnswerInv
<1>1. Init => Inv
  <2> SUFFICES ASSUME Init PROVE AnswerInv
    BY MmuInit
  <2>1. RightsInv
    BY DEF Init, EmptyTlb, RightsInv
  <2> QED BY <2>1 DEF Init, AnswerInv, ContextInv, RequestInv, ErrorInv
<1>2. Inv /\ [Next]_vars => Inv'
  <2> SUFFICES ASSUME Inv, [Next]_vars PROVE AnswerInv'
    BY MmuStep
  <2>1. CASE Next
    <3>1. PICK gnt \in BOOLEAN, rvalid \in BOOLEAN, ctl \in Flushes \cup {"none"} :
            Cycle(gnt, rvalid, ctl)
      BY <2>1 DEF Next
    <3> QED BY <3>1, ContextStep, RightsStep, RequestStep, ErrorStep DEF MmuInv, AnswerInv
  <2>2. CASE UNCHANGED vars
    BY <2>2 DEF vars, ptwVars, AnswerInv, ContextInv, RightsInv, RequestInv, ErrorInv,
       Refused, Contexts, Asids
  <2> QED BY <2>1, <2>2
<1>3. Inv => InterfaceAnswersRight
  BY InterfaceFollows DEF MmuInv
<1> QED BY <1>1, <1>2, <1>3, PTL DEF Spec

=============================================================================

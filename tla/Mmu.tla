-------------------------------- MODULE Mmu --------------------------------
(***************************************************************************)
(* The memory management unit: the Sv39 page table walker (src/ptw.sv),    *)
(* the instruction and data TLBs (src/tlb.sv) and the two interfaces of    *)
(* src/mmu.sv, next to the data cache port the walker reads page tables    *)
(* through, the load/store unit, the instruction cache, the controller's   *)
(* flushes and the software that edits page tables.                        *)
(*                                                                         *)
(* One step is one clock cycle.  A physical address of a page table entry  *)
(* is a pair <<table, index>>.  A PTE keeps its flag bits; ppn is a table  *)
(* or a frame, and align the lowest level at which the frame number has    *)
(* the zero bits a superpage needs.  Translation is enabled throughout.    *)
(***************************************************************************)
EXTENDS Tlb, Sequences

CONSTANTS
  None,
  Setups          \* what surrounds the MMU: a record for each kind of use

VARIABLES
  \* page table walker
  state_q, ptw_lvl_q, is_instr_ptw_q, global_mapping_q, tlb_update_asid_q,
  vpn_q, ptw_pptr_q, data_rvalid_q, data_rdata_q,
  \* TLBs and the registered data request
  itlb, dtlb, lsu_q,
  \* surroundings
  lsu,        \* the LSU's translation request, or None
  lsu_up,     \* does it raise it in this cycle?
  fetch,      \* the icache's translation request, or None
  resp,       \* answers the data cache owes the walker, oldest first
  pt,         \* page table memory
  asid, ctx,  \* satp.asid, and the CSR bits translation depends on
  unfenced,   \* address spaces due an SFENCE.VMA: edited, or walked while
              \* an answer was astray, since the last one
  setup       \* the kind of use, chosen once

ptwVars == <<state_q, ptw_lvl_q, is_instr_ptw_q, global_mapping_q,
             tlb_update_asid_q, vpn_q, ptw_pptr_q, data_rvalid_q, data_rdata_q>>
vars    == <<ptwVars, itlb, dtlb, lsu_q, lsu, lsu_up, fetch, resp, pt, asid, ctx, unfenced, setup>>

Asids      == Setups[setup].asids     \* address space identifiers, naming their root tables
LsuVpns    == Setups[setup].lsu       \* pages the load/store unit accesses
Stores     == Setups[setup].stores    \* whether for loads, for stores, or for both
FetchVpns  == Setups[setup].fetch     \* pages the frontend fetches from
PageTables == Setups[setup].tables    \* the contents page table memory may have
Editable   == Setups[setup].editable  \* may software edit the page tables in use?
Contexts   == Setups[setup].contexts  \* privilege level, SUM and MXR as CSRs set them

Init ==
  /\ setup \in DOMAIN Setups
  /\ state_q = "IDLE" /\ ptw_lvl_q = 1 /\ is_instr_ptw_q = FALSE
  /\ global_mapping_q = FALSE /\ tlb_update_asid_q = 0
  /\ vpn_q = None /\ ptw_pptr_q = None
  /\ data_rvalid_q = FALSE /\ data_rdata_q = None
  /\ itlb = EmptyTlb /\ dtlb = EmptyTlb /\ lsu_q = None
  /\ lsu = None /\ lsu_up = TRUE /\ fetch = None /\ resp = <<>>
  /\ pt \in PageTables /\ asid \in Asids /\ ctx \in Contexts /\ unfenced = {}

----------------------------------------------------------------------------
\* TLB lookups of this cycle.

\* The load unit takes its request down for a cycle or more while the walk for
\* it goes on (WAIT_PAGE_OFFSET, ABORT_TRANSACTION).
lsu_req == lsu # None /\ lsu_up

dtlb_entry == IF ~lsu_req THEN NoEntry ELSE lu_entry(dtlb, asid, lsu.vpn)
itlb_entry == IF fetch = None THEN NoEntry ELSE lu_entry(itlb, asid, fetch)
dtlb_hit   == dtlb_entry # NoEntry
itlb_hit   == itlb_entry # NoEntry

----------------------------------------------------------------------------
\* Page table walker.

data_req == state_q = "WAIT_GRANT"
pte      == data_rdata_q

\* A walk starts for the data side first; the instruction side has to wait
\* as long as the LSU asks for anything at all.
StartInstr == state_q = "IDLE" /\ fetch # None /\ ~itlb_hit /\ ~lsu_req
StartData  == state_q = "IDLE" /\ lsu_req /\ ~dtlb_hit

Looked   == state_q = "PTE_LOOKUP" /\ data_rvalid_q
Invalid  == ~pte.v \/ (~pte.r /\ pte.w)
LeafPte  == ~Invalid /\ (pte.r \/ pte.x)
\* lsu_is_store_i is the request of this cycle, not of the one that missed.
Permitted ==
  IF is_instr_ptw_q THEN pte.x /\ pte.a
  ELSE /\ pte.a /\ (pte.r \/ (pte.x /\ ctx.mxr))
       /\ (lsu # None /\ lsu.st) => pte.w /\ pte.d
Aligned  == pte.align <= ptw_lvl_q
Installs == Looked /\ LeafPte /\ Permitted /\ Aligned
Descends == Looked /\ ~Invalid /\ ~LeafPte /\ ptw_lvl_q < 3

\* The entry's global bit, set by any entry on the way, is kept beside the PTE.
ptw_update == [asid |-> tlb_update_asid_q, vpn |-> vpn_q, lvl |-> ptw_lvl_q,
               pte  |-> pte, g |-> pte.g \/ global_mapping_q]
itlb_update == IF Installs /\ is_instr_ptw_q  THEN ptw_update ELSE NoEntry
dtlb_update == IF Installs /\ ~is_instr_ptw_q THEN ptw_update ELSE NoEntry
ptw_error   == state_q = "PROPAGATE_ERROR"
ptw_active  == state_q # "IDLE"

\* A flush lets the walker forget its walk, but an answer that is still due
\* has to be waited for.
flushed_stateForget(gnt) == "IDLE"
flushed_stateAlwaysWait(gnt) ==
  IF state_q = "PTE_LOOKUP" \/ (data_req /\ gnt) THEN "WAIT_RVALID" ELSE "IDLE"
flushed_state(gnt) ==
  IF (state_q = "PTE_LOOKUP" /\ ~data_rvalid_q) \/ (data_req /\ gnt)
  THEN "WAIT_RVALID" ELSE "IDLE"

walk_state(gnt) ==
  CASE StartInstr \/ StartData                -> "WAIT_GRANT"
    [] data_req /\ gnt                        -> "PTE_LOOKUP"
    [] Descends                               -> "WAIT_GRANT"
    [] Looked /\ ~Descends /\ ~Installs       -> "PROPAGATE_ERROR"
    [] Installs \/ ptw_error                  -> "IDLE"
    [] state_q = "WAIT_RVALID" /\ data_rvalid_q -> "IDLE"
    [] OTHER                                  -> state_q

ptw_lvl_d ==
  IF state_q = "IDLE" THEN 1 ELSE IF Descends THEN ptw_lvl_q + 1 ELSE ptw_lvl_q

ptw(gnt, flush) ==
  /\ state_q' = IF flush THEN flushed_state(gnt) ELSE walk_state(gnt)
  /\ ptw_lvl_q' = ptw_lvl_d
  /\ global_mapping_q' = IF state_q = "IDLE" THEN FALSE
                         ELSE global_mapping_q \/ (Looked /\ pte.g)
  /\ is_instr_ptw_q' = IF state_q = "IDLE" THEN StartInstr ELSE is_instr_ptw_q
  /\ vpn_q' = IF StartInstr THEN fetch ELSE IF StartData THEN lsu.vpn ELSE vpn_q
  /\ tlb_update_asid_q' = IF StartInstr \/ StartData THEN asid ELSE tlb_update_asid_q
  /\ ptw_pptr_q' = IF StartInstr THEN <<asid, fetch[1]>>
                   ELSE IF StartData THEN <<asid, lsu.vpn[1]>>
                   ELSE IF Descends THEN <<pte.ppn, vpn_q[ptw_lvl_q + 1]>>
                   ELSE ptw_pptr_q

----------------------------------------------------------------------------
\* Interfaces of the MMU.  An answer is a physical page, given by its frame
\* and the level of the page (below that level the virtual page number is
\* passed on), or Fault; or None while there is none.

Fault == <<>>

data_access_err(p) == (ctx.priv = "S" /\ ~ctx.sum /\ p.u) \/ (ctx.priv = "U" /\ ~p.u)
instr_access_err(p) == (ctx.priv = "U" /\ ~p.u) \/ (ctx.priv = "S" /\ p.u)

write_errDirtyOnly(p) == lsu_q.st /\ ~p.d
write_err(p) == lsu_q.st /\ (~p.w \/ ~p.d)

\* data_interface: the request was registered one cycle ago together with
\* what the DTLB said; permissions are judged now.
DataAnswer ==
  IF lsu_q # None /\ lsu_q.entry # NoEntry
  THEN LET p == lsu_q.entry.pte
       IN  IF write_err(p) \/ data_access_err(p)
           THEN Fault ELSE <<p.ppn, lsu_q.entry.lvl>>
  ELSE IF ptw_active /\ ~is_instr_ptw_q /\ ptw_error THEN Fault
  ELSE None

\* instr_interface
FetchAnswer ==
  IF fetch = None THEN None
  ELSE IF itlb_hit
  THEN IF instr_access_err(itlb_entry.pte) THEN Fault
       ELSE <<itlb_entry.pte.ppn, itlb_entry.lvl>>
  ELSE IF ptw_active /\ is_instr_ptw_q /\ ptw_error THEN Fault
  ELSE None

----------------------------------------------------------------------------
\* What surrounds the MMU.

\* The units hold a request until it hits or the walker reports an error, the
\* load unit with interruptions; a flush takes the LSU's away.  The icache waits
\* for the answer even to a request that was killed.
LsuDone == dtlb_hit \/ (ptw_active /\ ~is_instr_ptw_q /\ ptw_error)

Requests(flush) ==
  LET held == lsu # None /\ ~LsuDone /\ ~flush
  IN  /\ lsu' \in IF held THEN {lsu} ELSE {None} \cup [vpn : LsuVpns, st : Stores]
      /\ lsu_up' \in IF held /\ ~lsu.st THEN BOOLEAN ELSE {TRUE}
      /\ fetch' \in IF fetch = None \/ FetchAnswer # None
                    THEN {None} \cup FetchVpns ELSE {fetch}

\* The data cache has one read of the walker under way: it grants the next at
\* the earliest in the cycle of its answer, which is what memory held at the grant.
DCachePort(gnt, rvalid) ==
  /\ gnt => data_req /\ (resp = <<>> \/ rvalid)
  /\ rvalid => resp # <<>>
  /\ resp' = (IF rvalid THEN Tail(resp) ELSE resp)
              \o (IF gnt THEN <<pt[ptw_pptr_q]>> ELSE <<>>)
  /\ data_rvalid_q' = rvalid
  /\ data_rdata_q' = IF rvalid THEN Head(resp) ELSE None

\* The walker waits for an answer that it has not registered yet; an answer is
\* astray if it is owed to a walker that does not wait for it.
Awaited == state_q \in {"PTE_LOOKUP", "WAIT_RVALID"} /\ ~data_rvalid_q
Stray   == resp # <<>> /\ ~Awaited

\* Every one of these flushes the pipeline (controller.sv, csr_regfile.sv): a
\* change of the privilege level or of status (by an exception, a return or a
\* CSR write), an SFENCE.VMA, and a write of satp, which with one address space
\* is no different from the first.
Flushes == {"context", "sfence"} \cup (IF Cardinality(Asids) > 1 THEN {"satp"} ELSE {})

\* An SFENCE.VMA waits for all stores, so memory is not edited in its cycle.
\* What is walked while an answer is astray may be installed wrongly.
Software(ctl) ==
  /\ asid' \in IF ctl = "satp" THEN Asids ELSE {asid}
  /\ ctx' \in IF ctl = "context" THEN Contexts ELSE {ctx}
  /\ pt' = pt \/ (Editable /\ ctl # "sfence" /\ pt' \in PageTables \ {pt})
  /\ unfenced' = IF pt' # pt \/ Stray' THEN Asids
                 ELSE IF ctl # "sfence" THEN unfenced
                 ELSE IF asid = 0 THEN {} ELSE unfenced \ {asid}

\* One clock cycle.
Cycle(gnt, rvalid, ctl) ==
  LET flush     == ctl \in Flushes
      flush_tlb == ctl = "sfence"
  IN  /\ DCachePort(gnt, rvalid)
      /\ ptw(gnt, flush)
      /\ itlb' = TlbCycle(itlb, itlb_update, flush_tlb, fetch # None, asid, fetch)
      /\ dtlb' = TlbCycle(dtlb, dtlb_update, flush_tlb, lsu_req, asid,
                          IF lsu = None THEN None ELSE lsu.vpn)
      /\ lsu_q' = IF lsu = None THEN None
                  ELSE [vpn |-> lsu.vpn, st |-> lsu.st, entry |-> dtlb_entry,
                        live |-> ~flush]
      /\ Requests(flush)
      /\ Software(ctl) /\ UNCHANGED setup

Next == \E gnt, rvalid \in BOOLEAN, ctl \in Flushes \cup {"none"} : Cycle(gnt, rvalid, ctl)

Spec == Init /\ [][Next]_vars

\* The data cache grants and answers in the end.  A flush before it does
\* ends the wait by itself, so fairness is asked of the cycles without one.
\* This is weak fairness of the three, with the state predicate that enables
\* each of them in place of ENABLED.
Grants  == data_req /\ \E rvalid \in BOOLEAN : Cycle(TRUE, rvalid, "none")
Answers == resp # <<>> /\ \E gnt \in BOOLEAN : Cycle(gnt, TRUE, "none")
Clock   == walk_state(FALSE) # state_q /\ Cycle(FALSE, FALSE, "none")
FairSpec == /\ Spec
            /\ []<>~data_req \/ []<><<Grants>>_vars
            /\ []<>(resp = <<>>) \/ []<><<Answers>>_vars
            /\ []<>(walk_state(FALSE) = state_q) \/ []<><<Clock>>_vars

----------------------------------------------------------------------------
(***************************************************************************)
(* Reference: the Sv39 translation algorithm, as the comment above the     *)
(* walker states it, on page table memory mem.                             *)
(***************************************************************************)
EntryAt(mem, l, a, vpn) ==
  LET p1 == mem[<<a, vpn[1]>>]
      p2 == mem[<<p1.ppn, vpn[2]>>]
      p3 == mem[<<p2.ppn, vpn[3]>>]
  IN  CASE l = 1 -> p1 [] l = 2 -> p2 [] l = 3 -> p3

IsInvalid(p) == ~p.v \/ (~p.r /\ p.w)
IsPointer(p) == ~IsInvalid(p) /\ ~p.r /\ ~p.x

\* The level at which the walk ends: the first entry that is not a pointer.
LeafLevel(mem, a, vpn) ==
  IF ~IsPointer(EntryAt(mem, 1, a, vpn)) THEN 1
  ELSE IF ~IsPointer(EntryAt(mem, 2, a, vpn)) THEN 2 ELSE 3

Leaf(mem, a, vpn) == EntryAt(mem, LeafLevel(mem, a, vpn), a, vpn)

Mapped(mem, a, vpn) ==
  LET p == Leaf(mem, a, vpn)
  IN  ~IsInvalid(p) /\ ~IsPointer(p) /\ p.align <= LeafLevel(mem, a, vpn) /\ p.a

Translation(a, vpn, allowed) ==
  IF Mapped(pt, a, vpn) /\ allowed THEN <<Leaf(pt, a, vpn).ppn, LeafLevel(pt, a, vpn)>>
  ELSE Fault

DataReference(a, vpn, st) ==
  LET p == Leaf(pt, a, vpn)
  IN  Translation(a, vpn, /\ p.r \/ (p.x /\ ctx.mxr)
                          /\ st => p.w /\ p.d
                          /\ IF ctx.priv = "S" THEN p.u => ctx.sum ELSE p.u)

FetchReference(a, vpn) ==
  LET p == Leaf(pt, a, vpn) IN Translation(a, vpn, p.x /\ (p.u <=> ctx.priv = "U"))

----------------------------------------------------------------------------
(***************************************************************************)
(* Properties.                                                             *)
(***************************************************************************)

\* Types of the walker's registers and bounds on what is outstanding.
TypeOK ==
  /\ state_q \in {"IDLE", "WAIT_GRANT", "PTE_LOOKUP", "WAIT_RVALID", "PROPAGATE_ERROR"}
  /\ ptw_lvl_q \in 1 .. 3
  /\ is_instr_ptw_q \in BOOLEAN /\ global_mapping_q \in BOOLEAN
  /\ data_rvalid_q \in BOOLEAN /\ Len(resp) <= 1
  /\ DOMAIN itlb.entries = Index /\ DOMAIN dtlb.entries = Index

\* "wait for the rvalid before going back to IDLE" (ptw.sv): an answer that the
\* data cache owes the walker is one that the walker waits for, so it is never
\* taken for that of a later walk.
AnswersBelongToWalk == ~Stray

\* An answer goes astray in one way only: a second flush meets the walker while
\* it waits in WAIT_RVALID for the answer to a request that an earlier flush
\* made it abandon.  A flush at any other moment of a walk does not lose one.
StraysOnlyFromWaitRvalid ==
  [][~Stray /\ Stray' => /\ state_q = "WAIT_RVALID" /\ ~data_rvalid_q
                         /\ state_q' = "IDLE" /\ resp' = resp]_vars

\* Every TLB entry of an address space that has been fenced since its page
\* tables were last edited, and since an answer was last astray, is what a walk
\* of the current page tables finds, whatever walks were under way when the
\* fence came.
TlbCoherent ==
  \A tlb \in {itlb, dtlb}, i \in Index :
    LET e == tlb.entries[i]
    IN  e # NoEntry /\ e.asid \notin unfenced =>
          /\ Mapped(pt, e.asid, e.vpn)
          /\ e.lvl = LeafLevel(pt, e.asid, e.vpn)
          /\ e.pte = Leaf(pt, e.asid, e.vpn)

\* The assertion of tlb.sv that at most one entry hits, as long as software
\* fences its edits.
SingleHit ==
  \A tlb \in {itlb, dtlb}, a \in Asids \ unfenced, v \in LsuVpns \cup FetchVpns :
    Cardinality(lu_hit(tlb, a, v)) <= 1

\* What a TLB holds is true and unambiguous (tlb.sv).
TlbConsistent == TypeOK /\ TlbCoherent /\ SingleHit

\* "check for sufficient access privileges" (mmu.sv): what the MMU answers the
\* load/store unit, and the instruction cache, is what the reference algorithm
\* says of the current page tables, privilege level, SUM and MXR.
DataAnswerRight ==
  lsu_q # None /\ lsu_q.live /\ DataAnswer # None /\ asid \notin unfenced =>
    DataAnswer = DataReference(asid, lsu_q.vpn, lsu_q.st)

FetchAnswerRight ==
  FetchAnswer # None /\ asid \notin unfenced =>
    FetchAnswer = FetchReference(asid, fetch)

\* Both interfaces of mmu.sv agree with the reference algorithm.
InterfaceAnswersRight == DataAnswerRight /\ FetchAnswerRight

\* The walker always comes back to IDLE, so that no later TLB miss waits for
\* ever behind an abandoned walk.
WalkerReturns == []<>(state_q = "IDLE")
============================================================================

-------------------------- MODULE IssueStageProofs --------------------------
(***************************************************************************)
(* For every number of scoreboard entries, set of registers and mix of     *)
(* instructions: the scoreboard and the functional units agree about what  *)
(* is being worked on, the register file holds what was retired last, and  *)
(* no instruction that got a wrong operand is retired, with re-naming and  *)
(* without.                                                                *)
(*                                                                         *)
(* Inv, the invariant behind all of it, says that the issued entries are   *)
(* those at most issue_cnt behind the commit pointer, that each without a  *)
(* result is in exactly one unit, its own, and that the CSR buffer belongs *)
(* to the oldest CSR instruction.  Ages, the distances to the commit       *)
(* pointer, turn the ring of entries into an order that a cycle keeps.     *)
(***************************************************************************)
EXTENDS IssueStage, WellFoundedInduction, FiniteSetTheorems, TLAPS

N == NR_ENTRIES

\* Successors and distances on the ring of scoreboard entries, without %.
LEMMA RingFacts ==
  /\ N \in Nat \ {0, 1}
  /\ \A i, n \in Ids :
       /\ Plus(i, n) = (IF i + n < N THEN i + n ELSE i + n - N) /\ Plus(i, n) \in Ids
       /\ Minus(i, n) = (IF i < n THEN i + N - n ELSE i - n) /\ Minus(i, n) \in Ids
  BY IssueAssumption DEF N, Ids, Plus, Minus

LEMMA RingPairs ==
  ASSUME NEW c \in Ids, NEW i \in Ids
  PROVE  Plus(c, Minus(i, c)) = i /\ Minus(Plus(c, i), c) = i
<1>1. N \in Nat \ {0, 1} /\ c \in 0 .. N - 1 /\ i \in 0 .. N - 1
  BY RingFacts DEF Ids, N
<1>2. Minus(i, c) = (IF i < c THEN i + N - c ELSE i - c) /\ Minus(i, c) \in 0 .. N - 1
  BY <1>1, RingFacts DEF Ids, N
<1>3. Plus(c, Minus(i, c)) = IF c + Minus(i, c) < N THEN c + Minus(i, c)
                             ELSE c + Minus(i, c) - N
  BY <1>2, RingFacts
<1>4. Plus(c, i) = (IF c + i < N THEN c + i ELSE c + i - N) /\ Plus(c, i) \in 0 .. N - 1
  BY <1>1, RingFacts DEF Ids, N
<1>5. Minus(Plus(c, i), c) = IF Plus(c, i) < c THEN Plus(c, i) + N - c ELSE Plus(c, i) - c
  BY <1>1, <1>4, RingFacts DEF Ids, N
<1> QED BY <1>1, <1>2, <1>3, <1>4, <1>5

\* Types of the scoreboard and the units (TypeOK without the re-name table and
\* the register file).
Entry == [issued : {TRUE}, valid : BOOLEAN, fu : Fus, rd : Names,
          ex : BOOLEAN, good : BOOLEAN, ok : BOOLEAN]

\* The issued entries are those at most issue_cnt behind the commit pointer.
SbInv ==
  /\ TypeOK
  /\ issue_pointer = Plus(commit_pointer, issue_cnt)
  /\ \A i \in Ids : mem[i].issued <=> Age(i) < issue_cnt

Fixed == {"ALU", "CTRL_FLOW"} \cup IsCsr

\* An instruction is in one unit at a time, and that one is its own; the units
\* that share a write-back port are never busy together.
UnitInv ==
  /\ \A i \in Ids : i \in InFlight <=> mem[i].issued /\ ~mem[i].valid
  /\ InFlight \subseteq Ids
  /\ fu_q # None => /\ fu_q.id \notin lsu /\ fu_q.id # mul_q /\ fu_q.id # div_q
                    /\ fu_q.fu = mem[fu_q.id].fu
  /\ mul_q # None => mul_q \notin lsu /\ div_q = None /\ mem[mul_q].fu = "MULT"
  /\ div_q # None => div_q \notin lsu /\ mem[div_q].fu = "DIV"
  /\ \A i \in lsu : mem[i].fu \in IsLsu
  /\ InUnit(Fixed) => mul_q = None /\ div_q = None
  /\ InUnit(IsMult) => div_q = None

\* Of the CSR instructions and fences that no fence is ahead of, there is one
\* at most, and the CSR buffer is its own until it is dealt with.
BehindFence(i) == \E j \in Issued : mem[j].fu = "FENCE" /\ Age(j) < Age(i)

CsrInv ==
  \A i \in Issued :
    mem[i].fu \in IsCsr /\ ~mem[i].ex /\ ~BehindFence(i) =>
      \/ InUnit(IsCsr) /\ fu_q.id = i
      \/ ~InUnit(IsCsr) /\ csr_q.valid /\ csr_q.id = i
      \/ mem[i].fu = "FENCE" /\ mem[i].valid /\ i = commit_pointer

----------------------------------------------------------------------------
(***************************************************************************)
(* A clock cycle, with its inputs and what they select named.              *)
(***************************************************************************)
Edge(outcome, issue, wbs, div_done, done) ==
  /\ outcome \in Outcomes /\ done \subseteq lsu /\ issue \in BOOLEAN
  /\ div_done \in BOOLEAN /\ (div_done => div_q # None)
  /\ \E lsu_ready, misaligned \in BOOLEAN, faults \in SUBSET done :
       /\ issue => issue_ack(outcome, lsu_ready, wbs)
       /\ wbs = flu_wb(div_done, misaligned) \cup lsu_wb(done, faults)
  /\ issue => ~flush_id(outcome)
  /\ issue_fifo(issue, outcome, wbs)
  /\ re_name(issue, flush_id(outcome))
  /\ register_write(outcome)
  /\ unit_valid(issue)
  /\ mult(div_done, flush_id(outcome))
  /\ csr_buffer(outcome)
  /\ load_store_unit(done, flush_id(outcome))
  /\ issue_q' = None \/ issue_q' \in Instrs \/ issue_q' = issue_q

LEMMA NextIsEdge ==
  ASSUME Next
  PROVE  \E outcome, issue, wbs, div_done, done :
           Edge(outcome, issue, wbs, div_done, done)
<1>1. PICK lsu_ready \in BOOLEAN, mispredict \in BOOLEAN, misaligned \in BOOLEAN,
           div_done \in BOOLEAN :
        /\ Allowed(lsu_ready, mispredict, misaligned, div_done)
        /\ \E outcome \in Outcomes, done \in Completions : \E faults \in SUBSET done :
             Cycle(outcome, lsu_ready, mispredict, misaligned, div_done, done, faults)
  BY DEF Next
<1>2. PICK outcome \in Outcomes, done \in Completions : \E faults \in SUBSET done :
        Cycle(outcome, lsu_ready, mispredict, misaligned, div_done, done, faults)
  BY <1>1
<1>3. PICK faults \in SUBSET done :
        Cycle(outcome, lsu_ready, mispredict, misaligned, div_done, done, faults)
  BY <1>2
<1> DEFINE wbs   == flu_wb(div_done, misaligned) \cup lsu_wb(done, faults)
           ack   == issue_ack(outcome, lsu_ready, wbs)
           issue == ack /\ ~mispredict /\ ~flush_id(outcome)
<1>4. done \subseteq lsu /\ (div_done => div_q # None)
  BY <1>1 DEF Completions, Allowed
<1>5. /\ issue_fifo(issue, outcome, wbs)
      /\ re_name(issue, flush_id(outcome))
      /\ register_write(outcome)
      /\ unit_valid(issue)
      /\ mult(div_done, flush_id(outcome))
      /\ csr_buffer(outcome)
      /\ load_store_unit(done, flush_id(outcome))
  BY <1>3 DEF Cycle
<1>6. issue_q' = None \/ issue_q' \in Instrs \/ issue_q' = issue_q
  BY <1>3 DEF Cycle, id_stage
<1>7. Edge(outcome, issue, wbs, div_done, done)
  BY <1>3, <1>4, <1>5, <1>6 DEF Edge
<1> QED BY <1>7

----------------------------------------------------------------------------
(***************************************************************************)
(* The pointers.                                                           *)
(***************************************************************************)
LEMMA AgeFacts ==
  ASSUME SbInv
  PROVE  /\ \A i \in Ids : Age(i) \in Ids /\ Plus(commit_pointer, Age(i)) = i
         /\ \A n \in Ids : Plus(commit_pointer, n) \in Ids /\ Age(Plus(commit_pointer, n)) = n
         /\ \A i, j \in Ids : Age(i) = Age(j) => i = j
         /\ Age(commit_pointer) = 0 /\ Age(issue_pointer) = issue_cnt
         /\ issue_cnt \in Ids /\ commit_pointer \in Ids /\ issue_pointer \in Ids
         /\ Plus(commit_pointer, 1) # commit_pointer /\ 1 \in Ids
<1>1. commit_pointer \in Ids /\ issue_cnt \in Ids /\ issue_pointer \in Ids
  BY DEF SbInv, TypeOK
<1>2. Ids = 0 .. N - 1 /\ N \in Nat \ {0, 1}
  BY RingFacts DEF Ids, N
<1>3. ASSUME NEW i \in Ids PROVE Age(i) \in Ids /\ Plus(commit_pointer, Age(i)) = i
  BY <1>1, <1>2, RingFacts, RingPairs DEF Age
<1>4. ASSUME NEW n \in Ids
      PROVE  Plus(commit_pointer, n) \in Ids /\ Age(Plus(commit_pointer, n)) = n
  BY <1>1, <1>2, RingFacts, RingPairs DEF Age
<1>5. Age(commit_pointer) = 0
  BY <1>1, <1>2, RingFacts DEF Age
<1>6. Age(issue_pointer) = issue_cnt
  BY <1>1, <1>4 DEF SbInv
<1>7. Plus(commit_pointer, 1) # commit_pointer /\ 1 \in Ids
  BY <1>2, <1>4, <1>5
<1>8. \A i, j \in Ids : Age(i) = Age(j) => i = j
  BY <1>3
<1> QED BY <1>1, <1>3, <1>4, <1>5, <1>6, <1>7, <1>8

Retired(outcome) == Cardinality(Retiring(outcome))

\* The entries that retire are the oldest ones, and have results.
LEMMA RetireFacts ==
  ASSUME SbInv, NEW outcome \in Outcomes
  PROVE  /\ Retired(outcome) \in Ids /\ Retired(outcome) <= issue_cnt
         /\ \A i \in Ids : i \in Retiring(outcome) <=> Age(i) < Retired(outcome)
         /\ \A i \in Ids : Age(i) < Retired(outcome) =>
              mem[i].issued /\ mem[i].valid /\ ~mem[i].ex
         /\ outcome \in {"halt", "wait", "trap"} => Retired(outcome) = 0
<1> DEFINE c == commit_pointer
           d == Plus(c, 1)
<1>1. c \in Ids /\ d \in Ids /\ c # d /\ Age(c) = 0 /\ Age(d) = 1
  BY AgeFacts
<1>2. \A i \in Retiring(outcome) : mem[i].issued /\ mem[i].valid /\ ~mem[i].ex
  BY DEF Retiring, ack0, ack1, Outcomes, ValidAt, Port0, Port1
<1>3. \A i \in Ids : Age(i) \in Ids /\ (Age(i) = 0 => i = c) /\ (Age(i) = 1 => i = d)
  BY <1>1, AgeFacts
<1>4. N \in Nat \ {0, 1} /\ Ids = 0 .. N - 1 /\ issue_cnt \in Ids
  BY RingFacts, AgeFacts DEF Ids, N
<1>5. ack1(outcome) => ack0(outcome)
  BY DEF ack0, ack1
<1>6. outcome \in {"halt", "wait", "trap"} => ~ack0(outcome)
  BY DEF ack0
<1>7. CASE ~ack0(outcome)
  <2>1. Retiring(outcome) = {}
    BY <1>5, <1>7 DEF Retiring
  <2>2. Retired(outcome) = 0
    BY <2>1, FS_EmptySet DEF Retired
  <2> QED BY <1>3, <1>4, <2>1, <2>2
<1>8. CASE ack0(outcome) /\ ~ack1(outcome)
  <2>1. Retiring(outcome) = {c}
    BY <1>1, <1>8 DEF Retiring
  <2>2. Retired(outcome) = 1
    BY <2>1, FS_Singleton DEF Retired
  <2>3. issue_cnt > 0
    BY <1>1, <1>2, <2>1 DEF SbInv
  <2>4. \A i \in Ids : i \in Retiring(outcome) <=> Age(i) < 1
    <3>1. \A i \in Ids : Age(i) < 1 <=> i = c
      BY <1>1, <1>3, <1>4
    <3> QED BY <2>1, <3>1
  <2>5. 1 \in Ids /\ 1 <= issue_cnt
    BY <1>4, <2>3
  <2> QED BY <1>2, <1>6, <1>8, <2>2, <2>4, <2>5
<1>9. CASE ack0(outcome) /\ ack1(outcome)
  <2>1. Retiring(outcome) = {c, d}
    BY <1>1, <1>9 DEF Retiring
  <2>2. Retired(outcome) = 2
    <3>1. IsFiniteSet({c}) /\ Cardinality({c}) = 1 /\ d \notin {c}
      BY <1>1, FS_Singleton
    <3>2. Cardinality({c} \cup {d}) = 2
      BY <3>1, FS_AddElement
    <3> QED BY <2>1, <3>2 DEF Retired
  <2>3. issue_cnt > 1
    BY <1>1, <1>2, <2>1 DEF SbInv
  <2>4. \A i \in Ids : i \in Retiring(outcome) <=> Age(i) < 2
    <3>1. \A i \in Ids : Age(i) < 2 <=> i = c \/ i = d
      BY <1>1, <1>3, <1>4
    <3> QED BY <2>1, <3>1
  <2>5. 2 \in Ids /\ 2 <= issue_cnt
    BY <1>4, <2>3
  <2> QED BY <1>2, <1>6, <1>9, <2>2, <2>4, <2>5
<1> QED BY <1>5, <1>7, <1>8, <1>9

\* Ages when the commit pointer has moved.
LEMMA AgeAfter ==
  ASSUME NEW c \in Ids, NEW n \in Ids, NEW i \in Ids
  PROVE  /\ Plus(c, n) \in Ids
         /\ Minus(i, Plus(c, n)) = IF Minus(i, c) >= n THEN Minus(i, c) - n
                                   ELSE Minus(i, c) - n + N
<1>1. N \in Nat \ {0, 1} /\ {c, i, n} \subseteq 0 .. N - 1
  BY RingFacts DEF Ids, N
<1>2. Minus(i, c) = (IF i < c THEN i + N - c ELSE i - c) /\ Minus(i, c) \in 0 .. N - 1
  BY <1>1, RingFacts DEF Ids, N
<1>3. Plus(c, n) = (IF c + n < N THEN c + n ELSE c + n - N) /\ Plus(c, n) \in 0 .. N - 1
  BY <1>1, RingFacts DEF Ids, N
<1>4. Minus(i, Plus(c, n)) = IF i < Plus(c, n) THEN i + N - Plus(c, n) ELSE i - Plus(c, n)
  BY <1>1, <1>3, RingFacts DEF Ids, N
<1> QED BY <1>1, <1>2, <1>3, <1>4 DEF Ids, N

\* Counting without leaving the ring.
LEMMA CountDown ==
  ASSUME NEW k \in Ids, NEW n \in Ids, n <= k
  PROVE  Minus(k, n) = k - n /\ k - n \in Ids
<1>1. N \in Nat \ {0, 1} /\ k \in 0 .. N - 1 /\ Ids = 0 .. N - 1
  BY RingFacts DEF Ids, N
<1>2. Minus(k, n) = IF k < n THEN k + N - n ELSE k - n
  BY RingFacts
<1> QED BY <1>1, <1>2

LEMMA CountFacts ==
  ASSUME NEW c \in Ids, NEW k \in Ids, NEW n \in Ids
  PROVE  /\ n <= k => Plus(Plus(c, n), k - n) = Plus(c, k)
         /\ k + 1 < N => /\ Plus(k, 1) = k + 1 /\ k + 1 \in Ids
                         /\ Plus(Plus(c, k), 1) = Plus(c, k + 1)
<1>1. /\ N \in Nat \ {0, 1} /\ c \in 0 .. N - 1 /\ k \in 0 .. N - 1 /\ 1 \in 0 .. N - 1
      /\ Ids = 0 .. N - 1
  BY RingFacts DEF Ids, N
<1>2. /\ Plus(c, n) = (IF c + n < N THEN c + n ELSE c + n - N) /\ Plus(c, n) \in 0 .. N - 1
      /\ Plus(c, k) = (IF c + k < N THEN c + k ELSE c + k - N) /\ Plus(c, k) \in 0 .. N - 1
  BY <1>1, RingFacts
<1>3. ASSUME n <= k
      PROVE  Plus(Plus(c, n), k - n) = Plus(c, k)
  <2>1. k - n \in 0 .. N - 1
    BY <1>1, <1>3
  <2>2. Plus(Plus(c, n), k - n) = IF Plus(c, n) + (k - n) < N THEN Plus(c, n) + (k - n)
                                  ELSE Plus(c, n) + (k - n) - N
    BY <1>1, <1>2, <2>1, RingFacts
  <2> QED BY <1>1, <1>2, <1>3, <2>1, <2>2
<1>4. ASSUME k + 1 < N
      PROVE  /\ Plus(k, 1) = k + 1 /\ k + 1 \in Ids
             /\ Plus(Plus(c, k), 1) = Plus(c, k + 1)
  <2>1. k + 1 \in 0 .. N - 1 /\ Plus(k, 1) = k + 1
    BY <1>1, <1>4, RingFacts
  <2>2. Plus(Plus(c, k), 1) = IF Plus(c, k) + 1 < N THEN Plus(c, k) + 1
                              ELSE Plus(c, k) + 1 - N
    BY <1>1, <1>2, RingFacts
  <2>3. Plus(c, k + 1) = IF c + (k + 1) < N THEN c + (k + 1) ELSE c + (k + 1) - N
    BY <1>1, <2>1, RingFacts
  <2> QED BY <1>1, <1>2, <1>4, <2>1, <2>2, <2>3
<1> QED BY <1>3, <1>4

\* A cycle without a flush.
LEMMA EdgeFacts ==
  ASSUME SbInv, NEW outcome, NEW issue, NEW wbs, NEW div_done, NEW done,
         Edge(outcome, issue, wbs, div_done, done), ~flush_id(outcome)
  PROVE  LET n == Retired(outcome)
         IN  /\ n \in Ids /\ n <= issue_cnt
             /\ issue => /\ issue_cnt + 1 < N /\ issue_q # None
                         /\ ~mem[issue_pointer].issued /\ Age(issue_pointer) = issue_cnt
             /\ \A i \in Ids : Age(i)' = IF Age(i) >= n THEN Age(i) - n ELSE Age(i) - n + N
             /\ \A i \in Ids :
                  mem'[i] = IF Age(i) < n THEN Free
                            ELSE IF issue /\ i = issue_pointer THEN NewEntry(wbs)
                            ELSE WrittenBack(i, wbs)
             /\ issue_cnt' = (IF issue THEN issue_cnt + 1 ELSE issue_cnt) - n
             /\ issue_pointer' = Plus(commit_pointer', issue_cnt')
             /\ commit_pointer' \in Ids /\ issue_cnt' \in Ids /\ issue_pointer' \in Ids
<1> DEFINE n == Retired(outcome)
           cnt == IF issue THEN issue_cnt + 1 ELSE issue_cnt
<1>1. outcome \in Outcomes /\ issue \in BOOLEAN /\ issue_fifo(issue, outcome, wbs)
  BY DEF Edge
<1>2. /\ N \in Nat \ {0, 1} /\ Ids = 0 .. N - 1 /\ issue_cnt \in Ids
      /\ commit_pointer \in Ids /\ issue_pointer \in Ids
  BY RingFacts, AgeFacts DEF Ids, N
<1>3. n \in Ids /\ n <= issue_cnt
  BY <1>1, RetireFacts
<1>4. issue => issue_cnt + 1 < N /\ issue_q # None
  BY <1>2 DEF Edge, issue_ack, issue_full, N
<1>5. issue => ~mem[issue_pointer].issued /\ Age(issue_pointer) = issue_cnt
  <2>1. Age(issue_pointer) = issue_cnt
    BY AgeFacts
  <2> QED BY <1>2, <2>1 DEF SbInv
<1>6. /\ commit_pointer' = Plus(commit_pointer, n)
      /\ issue_pointer' = IF issue THEN Plus(issue_pointer, 1) ELSE issue_pointer
      /\ issue_cnt' = Minus(IF issue THEN Plus(issue_cnt, 1) ELSE issue_cnt, n)
  BY <1>1 DEF issue_fifo, Retired
<1>7. cnt \in Ids /\ n <= cnt /\ issue_cnt' = Minus(cnt, n)
      /\ issue_pointer' = Plus(commit_pointer, cnt)
  <2>1. issue_pointer = Plus(commit_pointer, issue_cnt)
    BY DEF SbInv
  <2>2. CASE issue
    <3>1. /\ Plus(issue_cnt, 1) = issue_cnt + 1 /\ issue_cnt + 1 \in Ids
          /\ Plus(issue_pointer, 1) = Plus(commit_pointer, issue_cnt + 1)
      BY <1>2, <1>3, <1>4, <2>1, <2>2, CountFacts
    <3> QED BY <1>2, <1>3, <1>6, <2>2, <3>1
  <2>3. CASE ~issue
    BY <1>2, <1>3, <1>6, <2>1, <2>3
  <2> QED BY <1>1, <2>2, <2>3
<1>8. issue_cnt' = cnt - n /\ issue_cnt' \in Ids
  <2> HIDE DEF cnt, n
  <2> QED BY <1>2, <1>3, <1>7, CountDown
<1>9. issue_pointer' = Plus(commit_pointer', issue_cnt')
      /\ commit_pointer' \in Ids /\ issue_pointer' \in Ids
  <2> HIDE DEF cnt, n
  <2>1. commit_pointer \in Ids /\ n \in Ids /\ cnt \in Ids
    BY <1>2, <1>3, <1>7
  <2>2. /\ Plus(commit_pointer, n) \in Ids /\ Plus(commit_pointer, cnt) \in Ids
        /\ Plus(Plus(commit_pointer, n), cnt - n) = Plus(commit_pointer, cnt)
    BY <1>7, <2>1, RingFacts, CountFacts
  <2> QED BY <1>6, <1>7, <1>8, <2>2
<1>10. \A i \in Ids : Age(i)' = IF Age(i) >= n THEN Age(i) - n ELSE Age(i) - n + N
  <2> HIDE DEF n
  <2> SUFFICES ASSUME NEW i \in Ids
               PROVE  Age(i)' = IF Age(i) >= n THEN Age(i) - n ELSE Age(i) - n + N
    OBVIOUS
  <2>1. Age(i)' = Minus(i, Plus(commit_pointer, n)) /\ Age(i) = Minus(i, commit_pointer)
    BY <1>6 DEF Age
  <2>2. commit_pointer \in Ids /\ n \in Ids
    BY <1>2, <1>3
  <2> QED BY <2>1, <2>2, AgeAfter
<1>11. \A i \in Ids : mem'[i] = IF Age(i) < n THEN Free
                               ELSE IF issue /\ i = issue_pointer THEN NewEntry(wbs)
                               ELSE WrittenBack(i, wbs)
  BY <1>1, RetireFacts DEF issue_fifo
<1> QED BY <1>3, <1>4, <1>5, <1>8, <1>9, <1>10, <1>11

----------------------------------------------------------------------------
(***************************************************************************)
(* Write-back.                                                             *)
(***************************************************************************)
Written(i, div_done, done) ==
  \/ i \in done
  \/ InUnit(Fixed) /\ i = fu_q.id
  \/ mul_q # None /\ i = mul_q
  \/ div_done /\ i = div_q

\* The write-backs are those of the instructions that are done, each of its
\* own unit; only stores, AMOs and CSR instructions bring no result.
LEMMA WriteBackFacts ==
  ASSUME SbInv, UnitInv, NEW outcome, NEW issue, NEW wbs, NEW div_done, NEW done,
         Edge(outcome, issue, wbs, div_done, done)
  PROVE  /\ \A i : (\E w \in wbs : w.id = i) <=> Written(i, div_done, done)
         /\ \A w \in wbs :
              /\ w.id \in InFlight /\ w.ex \in BOOLEAN /\ w.good \in BOOLEAN
              /\ w.port \in {1, 2, 3}
              /\ w.good \/ mem[w.id].fu \in {"STORE", "AMO", "CSR", "FENCE"}
<1>1. PICK misaligned \in BOOLEAN, faults \in SUBSET done :
        /\ wbs = flu_wb(div_done, misaligned) \cup lsu_wb(done, faults)
        /\ done \subseteq lsu /\ div_done \in BOOLEAN /\ (div_done => div_q # None)
  BY DEF Edge
<1>2. /\ \A i : (\E w \in lsu_wb(done, faults) : w.id = i) <=> i \in done
      /\ \A w \in lsu_wb(done, faults) :
           /\ w.id \in InFlight /\ w.ex \in BOOLEAN /\ w.good \in BOOLEAN
           /\ w.port \in {1, 2, 3}
           /\ w.good \/ mem[w.id].fu \in {"STORE", "AMO", "CSR", "FENCE"}
  <2>1. \A i \in done : i \in InFlight /\ mem[i].fu \in IsLsu
    BY <1>1 DEF UnitInv, InFlight
  <2>2. ASSUME NEW i \in done PROVE \E w \in lsu_wb(done, faults) : w.id = i
    <3> DEFINE w == [port |-> IF mem[i].fu = "LOAD" THEN 2 ELSE 1, id |-> i,
                     ex |-> i \in faults, good |-> mem[i].fu = "LOAD"]
    <3>1. w \in lsu_wb(done, faults) /\ w.id = i
      BY DEF lsu_wb
    <3> QED BY <3>1
  <2>3. ASSUME NEW w \in lsu_wb(done, faults)
        PROVE  /\ w.id \in done /\ w.ex \in BOOLEAN /\ w.good \in BOOLEAN
               /\ w.port \in {1, 2, 3} /\ w.good = (mem[w.id].fu = "LOAD")
    <3>1. PICK i \in done : w = [port |-> IF mem[i].fu = "LOAD" THEN 2 ELSE 1, id |-> i,
                                 ex |-> i \in faults, good |-> mem[i].fu = "LOAD"]
      BY DEF lsu_wb
    <3> QED BY <3>1
  <2> QED BY <2>1, <2>2, <2>3 DEF IsLsu
<1> DEFINE flu == flu_wb(div_done, misaligned)
<1>3. /\ \A i : (\E w \in flu : w.id = i) <=>
                  \/ InUnit(Fixed) /\ i = fu_q.id
                  \/ mul_q # None /\ i = mul_q
                  \/ div_done /\ i = div_q
      /\ \A w \in flu :
           /\ w.id \in InFlight /\ w.ex \in BOOLEAN /\ w.good \in BOOLEAN
           /\ w.port \in {1, 2, 3}
           /\ w.good \/ mem[w.id].fu \in {"STORE", "AMO", "CSR", "FENCE"}
  <2>1. CASE InUnit({"ALU"} \cup IsCsr)
    <3>1. flu = {[port |-> 3, id |-> fu_q.id, ex |-> FALSE, good |-> fu_q.fu = "ALU"]}
      BY <2>1 DEF flu_wb
    <3>2. /\ InUnit(Fixed) /\ mul_q = None /\ div_q = None
          /\ fu_q.id \in InFlight /\ (fu_q.fu = "ALU" \/ mem[fu_q.id].fu \in IsCsr)
      BY <2>1 DEF InUnit, Fixed, UnitInv, InFlight
    <3> DEFINE w == [port |-> 3, id |-> fu_q.id, ex |-> FALSE, good |-> fu_q.fu = "ALU"]
    <3>3. /\ flu = {w} /\ w.id = fu_q.id /\ w.ex \in BOOLEAN /\ w.good \in BOOLEAN
          /\ w.port = 3 /\ (w.good <=> fu_q.fu = "ALU") /\ ~div_done
      BY <1>1, <3>1, <3>2
    <3> HIDE DEF w, flu
    <3> QED BY <3>2, <3>3 DEF IsCsr
  <2>2. CASE ~InUnit({"ALU"} \cup IsCsr) /\ mult_valid(div_done)
    <3>1. flu = {[port |-> 3, id |-> IF mul_q # None THEN mul_q ELSE div_q, ex |-> FALSE,
                  good |-> TRUE]}
      BY <2>2 DEF flu_wb
    <3>2. /\ ~InUnit(Fixed)
          /\ IF mul_q # None THEN mul_q \in InFlight /\ div_q = None
                             ELSE div_done /\ div_q \in InFlight
      BY <1>1, <2>2 DEF mult_valid, UnitInv, InFlight, SbInv, TypeOK
    <3> DEFINE id == IF mul_q # None THEN mul_q ELSE div_q
    <3>3. /\ id \in InFlight
          /\ \A i : i = id <=> (mul_q # None /\ i = mul_q) \/ (div_done /\ i = div_q)
      BY <1>1, <3>2
    <3> HIDE DEF id
    <3> QED BY <3>1, <3>2, <3>3 DEF id
  <2>3. CASE ~InUnit({"ALU"} \cup IsCsr) /\ ~mult_valid(div_done) /\ InUnit({"CTRL_FLOW"})
    <3>1. flu = {[port |-> 3, id |-> fu_q.id, ex |-> misaligned, good |-> TRUE]}
      BY <2>3 DEF flu_wb
    <3>2. InUnit(Fixed) /\ mul_q = None /\ ~div_done /\ fu_q.id \in InFlight
      BY <1>1, <2>3 DEF InUnit, Fixed, UnitInv, InFlight, mult_valid
    <3> QED BY <1>1, <3>1, <3>2
  <2>4. CASE ~InUnit({"ALU"} \cup IsCsr) /\ ~mult_valid(div_done) /\ ~InUnit({"CTRL_FLOW"})
    <3>1. flu = {}
      BY <2>4 DEF flu_wb
    <3>2. ~InUnit(Fixed) /\ mul_q = None /\ ~div_done
      BY <1>1, <2>4 DEF InUnit, Fixed, mult_valid
    <3> QED BY <3>1, <3>2
  <2> QED BY <2>1, <2>2, <2>3, <2>4
<1> QED BY <1>1, <1>2, <1>3 DEF Written

\* What becomes of an entry that stays.
LEMMA EntryFacts ==
  ASSUME SbInv, UnitInv, NEW outcome, NEW issue, NEW wbs, NEW div_done, NEW done,
         Edge(outcome, issue, wbs, div_done, done), NEW i \in Ids
  PROVE  LET e == WrittenBack(i, wbs)
         IN  /\ e.issued = mem[i].issued /\ e \in Entry \cup {Free}
             /\ mem[i].issued =>
                  /\ e.fu = mem[i].fu /\ e.rd = mem[i].rd /\ e.ok = mem[i].ok
                  /\ e.valid <=> mem[i].valid \/ Written(i, div_done, done)
                  /\ mem[i].ex => e.ex
                  /\ ~Written(i, div_done, done) => e = mem[i]
                  /\ Written(i, div_done, done) =>
                       /\ \E w \in wbs : w.id = i /\ e.good = w.good /\ (w.ex => e.ex)
                       /\ e.good \/ e.fu \in {"STORE", "AMO", "CSR", "FENCE"}
<1>1. mem[i] \in Entry \cup {Free}
  BY DEF SbInv, TypeOK, Entry
<1>2. CASE mem[i].issued /\ Written(i, div_done, done)
  <2> DEFINE w == CHOOSE w \in wbs : w.id = i
  <2>1. w \in wbs /\ w.id = i
    BY <1>2, WriteBackFacts
  <2>2. /\ w.ex \in BOOLEAN /\ w.good \in BOOLEAN
        /\ w.good \/ mem[i].fu \in {"STORE", "AMO", "CSR", "FENCE"}
    BY <2>1, WriteBackFacts
  <2>3. WrittenBack(i, wbs) = [mem[i] EXCEPT !.valid = TRUE, !.ex = @ \/ w.ex, !.good = w.good]
    BY <1>2, WriteBackFacts DEF WrittenBack
  <2>4. mem[i] \in Entry
    BY <1>1, <1>2 DEF Free
  <2> DEFINE e == WrittenBack(i, wbs)
  <2> HIDE DEF w
  <2>5. /\ e.issued = mem[i].issued /\ e.valid = TRUE /\ e.fu = mem[i].fu /\ e.rd = mem[i].rd
        /\ e.ok = mem[i].ok /\ (e.ex <=> mem[i].ex \/ w.ex) /\ e.good = w.good
        /\ e \in Entry
    BY <2>2, <2>3, <2>4 DEF Entry
  <2> HIDE DEF e
  <2> QED BY <1>2, <2>1, <2>2, <2>5 DEF e
<1>3. CASE ~mem[i].issued \/ ~Written(i, div_done, done)
  <2>1. WrittenBack(i, wbs) = mem[i]
    BY <1>3, WriteBackFacts DEF WrittenBack
  <2> QED BY <1>1, <1>3, <2>1
<1> QED BY <1>2, <1>3

LEMMA NewEntryFacts ==
  ASSUME SbInv, issue_q # None, NEW wbs
  PROVE  /\ NewEntry(wbs) \in Entry /\ NewEntry(wbs).issued
         /\ NewEntry(wbs).valid = issue_q.ex /\ NewEntry(wbs).ex = issue_q.ex
         /\ NewEntry(wbs).fu = issue_q.fu /\ NewEntry(wbs).rd = Destination(issue_q.rd)
         /\ NewEntry(wbs).ok <=> issue_q.ex \/ OperandsRight(wbs)
         /\ issue_q \in Instruction
<1>1. issue_q \in Instruction /\ re_name_table \in [Regs -> {0, 1}]
  BY DEF SbInv, TypeOK
<1>2. Destination(issue_q.rd) \in Names
  BY <1>1 DEF Destination, name_bit, Names, Instruction
<1> QED BY <1>1, <1>2 DEF NewEntry, Entry, Instruction

----------------------------------------------------------------------------
(***************************************************************************)
(* The scoreboard's step.                                                  *)
(***************************************************************************)
LEMMA FlushFacts ==
  ASSUME NEW outcome, NEW issue, NEW wbs, NEW div_done, NEW done,
         Edge(outcome, issue, wbs, div_done, done), flush_id(outcome)
  PROVE  /\ mem' = [i \in Ids |-> Free]
         /\ issue_pointer' = 0 /\ commit_pointer' = 0 /\ issue_cnt' = 0
         /\ issue = FALSE /\ fu_q' = None /\ mul_q' = None /\ div_q' = None /\ lsu' = {}
  BY DEF Edge, issue_fifo, unit_valid, mult, load_store_unit

LEMMA IssuedFacts ==
  ASSUME SbInv, UnitInv, NEW outcome, NEW issue, NEW wbs, NEW div_done, NEW done,
         Edge(outcome, issue, wbs, div_done, done), ~flush_id(outcome), NEW i \in Ids
  PROVE  /\ mem'[i] \in Entry \cup {Free}
         /\ mem'[i].issued <=> Age(i)' < issue_cnt'
<1> DEFINE n == Retired(outcome)
<1>1. /\ Age(i) \in Ids /\ issue_cnt \in Ids /\ n \in Ids /\ n <= issue_cnt
      /\ Ids = 0 .. N - 1 /\ N \in Nat \ {0, 1} /\ issue \in BOOLEAN
  BY AgeFacts, EdgeFacts, RingFacts DEF Ids, N, Edge
<1>2. mem[i].issued <=> Age(i) < issue_cnt
  BY DEF SbInv
<1>3. /\ Age(i)' = IF Age(i) >= n THEN Age(i) - n ELSE Age(i) - n + N
      /\ issue_cnt' = (IF issue THEN issue_cnt + 1 ELSE issue_cnt) - n
      /\ issue => issue_cnt + 1 < N /\ issue_q # None
      /\ mem'[i] = IF Age(i) < n THEN Free
                   ELSE IF issue /\ i = issue_pointer THEN NewEntry(wbs)
                   ELSE WrittenBack(i, wbs)
  BY EdgeFacts
<1>4. Age(i) = issue_cnt <=> i = issue_pointer
  BY AgeFacts
<1> HIDE DEF n
<1>5. CASE Age(i) < n
  <2>1. mem'[i] = Free /\ ~mem'[i].issued
    BY <1>3, <1>5 DEF Free
  <2>2. ~(Age(i)' < issue_cnt')
    BY <1>1, <1>3, <1>5
  <2> QED BY <2>1, <2>2
<1>6. CASE ~(Age(i) < n) /\ issue /\ i = issue_pointer
  <2>1. mem'[i] \in Entry /\ mem'[i].issued
    BY <1>3, <1>6, NewEntryFacts
  <2>2. Age(i)' < issue_cnt'
    BY <1>1, <1>3, <1>4, <1>6
  <2> QED BY <2>1, <2>2
<1>7. CASE ~(Age(i) < n) /\ ~(issue /\ i = issue_pointer)
  <2>1. mem'[i] \in Entry \cup {Free} /\ mem'[i].issued = mem[i].issued
    BY <1>3, <1>7, EntryFacts
  <2>2. Age(i)' < issue_cnt' <=> Age(i) < issue_cnt
    BY <1>1, <1>3, <1>4, <1>7
  <2> QED BY <1>2, <2>1, <2>2
<1> QED BY <1>5, <1>6, <1>7

LEMMA SbInvStep ==
  ASSUME SbInv, UnitInv, NEW outcome, NEW issue, NEW wbs, NEW div_done, NEW done,
         Edge(outcome, issue, wbs, div_done, done)
  PROVE  SbInv'
<1> USE DEF Edge
<1>1. issue_q' \in Instruction \cup {None}
  BY InstrAssumption DEF SbInv, TypeOK
<1>2. issue => issue_q \in Instruction /\ issue_pointer \in Ids
  BY InstrAssumption DEF SbInv, TypeOK, issue_ack
<1>3. re_name_table' \in [Regs -> {0, 1}] /\ re_name_table'[0] = 0
  <2>1. re_name_table \in [Regs -> {0, 1}] /\ re_name_table[0] = 0 /\ 0 \in Regs
    BY IssueAssumption DEF SbInv, TypeOK
  <2>2. re_name(issue, flush_id(outcome))
    OBVIOUS
  <2> QED BY <1>2, <2>1, <2>2 DEF re_name, Instruction
<1>4. regfile' \in [Regs -> BOOLEAN]
  <2>1. /\ regfile \in [Regs -> BOOLEAN]
        /\ regfile' = [r \in Regs |-> regfile'[r]]
    BY DEF SbInv, TypeOK, register_write
  <2>2. ASSUME NEW r \in Regs PROVE regfile'[r] \in BOOLEAN
    <3>1. ASSUME NEW e, e = Port0 \/ e = Port1, ValidAt(e) PROVE WriteData(e) \in BOOLEAN
      <4>1. e \in Entry
        <5>1. \A i \in Ids : mem[i] \in Entry \cup {Free}
          BY DEF SbInv, TypeOK, Entry
        <5>2. e \in Entry \cup {Free}
          BY <3>1, <5>1, AgeFacts DEF Port0, Port1
        <5> QED BY <3>1, <5>2 DEF ValidAt, Free
      <4> QED BY <4>1 DEF WriteData, Entry
    <3>2. /\ ack0(outcome) => ValidAt(Port0)
          /\ ack1(outcome) => ValidAt(Port1)
      BY DEF ack0, ack1, Outcomes
    <3> QED BY <2>1, <3>1, <3>2 DEF register_write
  <2> QED BY <2>1, <2>2
<1>5. fu_q' \in [fu : Fus, id : Ids] \cup {None}
  BY <1>2 DEF unit_valid, Instruction
<1>6. /\ mul_q' \in Ids \cup {None} /\ div_q' \in Ids \cup {None}
      /\ csr_q' \in [valid : BOOLEAN, id : Ids \cup {None}] /\ lsu' \subseteq Ids
  <2>1. /\ fu_q \in [fu : Fus, id : Ids] \cup {None} /\ lsu \subseteq Ids
        /\ mul_q \in Ids \cup {None} /\ div_q \in Ids \cup {None}
        /\ csr_q \in [valid : BOOLEAN, id : Ids \cup {None}]
    BY DEF SbInv, TypeOK
  <2>2. \A fus : InUnit(fus) => fu_q.id \in Ids /\ InUnit(fus) \in BOOLEAN
    BY <2>1 DEF InUnit
  <2>3. mul_q' \in Ids \cup {None} /\ div_q' \in Ids \cup {None}
    BY <2>1, <2>2 DEF mult
  <2>4. lsu' \subseteq Ids
    BY <2>1, <2>2 DEF load_store_unit
  <2>5. csr_q' \in [valid : BOOLEAN, id : Ids \cup {None}]
    BY <2>1, <2>2 DEF csr_buffer
  <2> QED BY <2>3, <2>4, <2>5
<1>7. CASE flush_id(outcome)
  <2>1. /\ mem' = [i \in Ids |-> Free]
        /\ issue_pointer' = 0 /\ commit_pointer' = 0 /\ issue_cnt' = 0
    BY <1>7, FlushFacts
  <2>2. 0 \in Ids /\ Plus(0, 0) = 0 /\ \A i \in Ids : Minus(i, 0) \in Ids /\ ~(Minus(i, 0) < 0)
    BY RingFacts DEF Ids, N
  <2>3. mem' \in [Ids -> Entry \cup {Free}]
    BY <2>1
  <2>4. TypeOK'
    BY <1>1, <1>3, <1>4, <1>5, <1>6, <2>1, <2>2, <2>3 DEF TypeOK, Entry
  <2>5. \A i \in Ids : mem'[i].issued = FALSE
    BY <2>1 DEF Free
  <2> QED BY <2>1, <2>2, <2>4, <2>5 DEF SbInv, Age
<1>8. CASE ~flush_id(outcome)
  <2>1. mem' = [i \in Ids |-> mem'[i]]
    BY DEF issue_fifo
  <2>2. mem' \in [Ids -> Entry \cup {Free}]
    BY <1>8, <2>1, IssuedFacts
  <2>3. /\ issue_pointer' = Plus(commit_pointer', issue_cnt')
        /\ commit_pointer' \in Ids /\ issue_cnt' \in Ids /\ issue_pointer' \in Ids
    BY <1>8, EdgeFacts
  <2>4. TypeOK'
    BY <1>1, <1>3, <1>4, <1>5, <1>6, <2>2, <2>3 DEF TypeOK, Entry
  <2>5. \A i \in Ids : mem'[i].issued <=> Age(i)' < issue_cnt'
    BY <1>8, IssuedFacts
  <2> QED BY <2>3, <2>4, <2>5 DEF SbInv
<1> QED BY <1>7, <1>8

----------------------------------------------------------------------------
(***************************************************************************)
(* The functional units' step.                                             *)
(***************************************************************************)

\* An entry that is in flight stays in the scoreboard, whatever retires.
LEMMA StayFacts ==
  ASSUME SbInv, UnitInv, NEW outcome, NEW issue, NEW wbs, NEW div_done, NEW done,
         Edge(outcome, issue, wbs, div_done, done), ~flush_id(outcome),
         NEW i \in Ids
  PROVE  /\ ~(Age(i) < Retired(outcome)) /\ mem[i].issued =>
              /\ mem'[i] = WrittenBack(i, wbs) /\ mem'[i].issued
              /\ mem'[i].fu = mem[i].fu /\ mem'[i].rd = mem[i].rd /\ mem'[i].ok = mem[i].ok
              /\ mem'[i].valid <=> mem[i].valid \/ Written(i, div_done, done)
              /\ mem[i].ex => mem'[i].ex
         /\ mem[i].issued /\ (~mem[i].valid \/ mem[i].ex) => ~(Age(i) < Retired(outcome))
         /\ mem'[i].issued =>
              \/ mem[i].issued /\ ~(Age(i) < Retired(outcome)) /\ ~(issue /\ i = issue_pointer)
              \/ issue /\ i = issue_pointer /\ mem'[i] = NewEntry(wbs)
         /\ issue => /\ mem'[issue_pointer] = NewEntry(wbs) /\ issue_pointer \in Ids
                     /\ ~mem[issue_pointer].issued /\ issue_q # None
                     /\ mem'[issue_pointer].issued /\ Age(issue_pointer) = issue_cnt
<1>1. outcome \in Outcomes /\ issue \in BOOLEAN
  BY DEF Edge
<1>2. /\ mem'[i] = IF Age(i) < Retired(outcome) THEN Free
                   ELSE IF issue /\ i = issue_pointer THEN NewEntry(wbs)
                   ELSE WrittenBack(i, wbs)
      /\ issue => ~mem[issue_pointer].issued /\ issue_q # None
      /\ issue_pointer \in Ids
  BY EdgeFacts, AgeFacts
<1>3. issue => mem'[issue_pointer] = NewEntry(wbs) /\ NewEntry(wbs).issued
               /\ Age(issue_pointer) = issue_cnt
  <2>1. ASSUME issue PROVE ~(Age(issue_pointer) < Retired(outcome))
    <3>1. Age(issue_pointer) = issue_cnt /\ Retired(outcome) <= issue_cnt
      BY <1>1, AgeFacts, RetireFacts
    <3>2. issue_cnt \in Nat /\ Retired(outcome) \in Nat
      BY <1>1, AgeFacts, RetireFacts, RingFacts DEF Ids, N
    <3> QED BY <3>1, <3>2
  <2>2. mem'[issue_pointer] = IF Age(issue_pointer) < Retired(outcome) THEN Free
                              ELSE IF issue /\ issue_pointer = issue_pointer THEN NewEntry(wbs)
                              ELSE WrittenBack(issue_pointer, wbs)
    BY <1>2, EdgeFacts
  <2>3. issue => NewEntry(wbs).issued
    BY <1>2, NewEntryFacts
  <2>4. Age(issue_pointer) = issue_cnt
    BY AgeFacts
  <2> QED BY <2>1, <2>2, <2>3, <2>4
<1>4. mem[i].issued /\ (~mem[i].valid \/ mem[i].ex) => ~(Age(i) < Retired(outcome))
  BY <1>1, RetireFacts
<1>5. ~(Age(i) < Retired(outcome)) /\ mem[i].issued => mem'[i] = WrittenBack(i, wbs)
  BY <1>2
<1>6. mem'[i].issued =>
        \/ mem[i].issued /\ ~(Age(i) < Retired(outcome)) /\ ~(issue /\ i = issue_pointer)
        \/ issue /\ i = issue_pointer /\ mem'[i] = NewEntry(wbs)
  BY <1>2, EntryFacts DEF Free
<1>7. mem[i].issued =>
        /\ WrittenBack(i, wbs).issued
        /\ WrittenBack(i, wbs).fu = mem[i].fu /\ WrittenBack(i, wbs).rd = mem[i].rd
        /\ WrittenBack(i, wbs).ok = mem[i].ok
        /\ WrittenBack(i, wbs).valid <=> mem[i].valid \/ Written(i, div_done, done)
        /\ mem[i].ex => WrittenBack(i, wbs).ex
  BY EntryFacts
<1> QED BY <1>2, <1>3, <1>4, <1>5, <1>6, <1>7

\* Where an instruction goes from its unit's input register.
LEMMA UnitSteps ==
  ASSUME SbInv, UnitInv, NEW outcome, NEW issue, NEW wbs, NEW div_done, NEW done,
         Edge(outcome, issue, wbs, div_done, done), ~flush_id(outcome)
  PROVE  /\ mul_q' = IF InUnit({"MULT"}) THEN fu_q.id ELSE None
         /\ div_q' = IF div_done THEN None ELSE IF InUnit({"DIV"}) THEN fu_q.id ELSE div_q
         /\ lsu' = (lsu \ done) \cup (IF InUnit(IsLsu) THEN {fu_q.id} ELSE {})
         /\ InUnit({"MULT"}) => div_q = None
         /\ InUnit({"DIV"}) => div_q = None
         /\ InUnit(IsLsu) => ~InUnit(Fixed) /\ ~InUnit(IsMult)
         /\ fu_q # None => InUnit(Fixed) \/ InUnit({"MULT"}) \/ InUnit({"DIV"}) \/ InUnit(IsLsu)
         /\ InUnit(Fixed) => ~InUnit({"MULT"}) /\ ~InUnit({"DIV"})
         /\ InUnit({"MULT"}) => ~InUnit({"DIV"})
<1>1. fu_q # None => fu_q.fu \in Fus
  BY DEF SbInv, TypeOK
<1>2. /\ InUnit(IsLsu) => ~InUnit(Fixed) /\ ~InUnit(IsMult)
      /\ fu_q # None => InUnit(Fixed) \/ InUnit({"MULT"}) \/ InUnit({"DIV"}) \/ InUnit(IsLsu)
      /\ InUnit(Fixed) => ~InUnit({"MULT"}) /\ ~InUnit({"DIV"})
      /\ InUnit({"MULT"}) => ~InUnit({"DIV"})
      /\ InUnit({"MULT"}) => InUnit(IsMult)
      /\ InUnit({"DIV"}) => InUnit(IsMult)
  BY <1>1 DEF InUnit, Fixed, IsMult, IsLsu, IsCsr, Fus
<1>3. InUnit(IsMult) => div_q = None
  BY DEF UnitInv
<1>4. (div_q # None => mul_q = None) /\ (div_done => div_q # None) /\ div_done \in BOOLEAN
  BY DEF UnitInv, Edge
<1>5. mult(div_done, flush_id(outcome)) /\ load_store_unit(done, flush_id(outcome))
  BY DEF Edge
<1>6. mul_q' = IF InUnit({"MULT"}) THEN fu_q.id ELSE None
  BY <1>5 DEF mult
<1>7. div_q' = IF div_done THEN None ELSE IF InUnit({"DIV"}) THEN fu_q.id ELSE div_q
  BY <1>2, <1>3, <1>4, <1>5 DEF mult
<1>8. lsu' = (lsu \ done) \cup (IF InUnit(IsLsu) THEN {fu_q.id} ELSE {})
  BY <1>5 DEF load_store_unit
<1> QED BY <1>2, <1>3, <1>6, <1>7, <1>8

\* What is issued to a unit finds the shared port free.
LEMMA IssueFacts ==
  ASSUME SbInv, UnitInv, NEW outcome, NEW issue, NEW wbs, NEW div_done, NEW done,
         Edge(outcome, issue, wbs, div_done, done), ~flush_id(outcome)
  PROVE  /\ fu_q' = IF issue /\ ~issue_q.ex
                    THEN [fu |-> issue_q.fu, id |-> issue_pointer] ELSE None
         /\ InUnit(Fixed)' => ~InUnit(IsMult)
         /\ InUnit(Fixed)' \/ InUnit(IsMult)' => div_q = None /\ ~InUnit({"DIV"})
         /\ InUnit(IsCsr)' => csr_ready(outcome)
<1>1. fu_q' = IF issue /\ ~issue_q.ex
              THEN [fu |-> issue_q.fu, id |-> issue_pointer] ELSE None
  BY DEF Edge, unit_valid
<1>2. ASSUME fu_q' # None
      PROVE  /\ fu_q'.fu = issue_q.fu
             /\ InUnit(IsMult) => issue_q.fu \in IsMult
             /\ issue_q.fu \notin IsLsu => csr_ready(outcome) /\ mult_ready
  BY <1>1, <1>2 DEF Edge, issue_ack, MultBlocks, fu_busy
<1>3. ASSUME NEW fus, InUnit(fus)' PROVE fu_q' # None /\ fu_q'.fu \in fus
  BY <1>3 DEF InUnit
<1>4. ASSUME InUnit(Fixed)' PROVE ~InUnit(IsMult)
  <2>1. fu_q' # None /\ fu_q'.fu \in Fixed
    BY <1>4 DEF InUnit
  <2> QED BY <1>2, <2>1 DEF Fixed, IsMult, IsCsr
<1>5. ASSUME InUnit(Fixed)' \/ InUnit(IsMult)' PROVE div_q = None /\ ~InUnit({"DIV"})
  <2>1. fu_q' # None /\ fu_q'.fu \notin IsLsu
    BY <1>5 DEF InUnit, Fixed, IsMult, IsCsr, IsLsu
  <2> QED BY <1>2, <2>1 DEF mult_ready
<1>6. ASSUME InUnit(IsCsr)' PROVE csr_ready(outcome)
  <2>1. fu_q' # None /\ fu_q'.fu \notin IsLsu
    BY <1>6 DEF InUnit, IsCsr, IsLsu
  <2> QED BY <1>2, <2>1
<1> QED BY <1>1, <1>4, <1>5, <1>6

LEMMA UnitInvStep ==
  ASSUME SbInv, UnitInv, NEW outcome, NEW issue, NEW wbs, NEW div_done, NEW done,
         Edge(outcome, issue, wbs, div_done, done)
  PROVE  UnitInv'
<1>1. CASE flush_id(outcome)
  <2>1. /\ mem' = [i \in Ids |-> Free] /\ fu_q' = None /\ mul_q' = None /\ div_q' = None
        /\ lsu' = {}
    BY <1>1, FlushFacts
  <2>2. InFlight' = {}
    BY <2>1, InstrAssumption DEF InFlight
  <2>3. \A i \in Ids : ~mem'[i].issued
    BY <2>1 DEF Free
  <2>4. \A fus : ~InUnit(fus)'
    BY <2>1 DEF InUnit
  <2> QED BY <2>1, <2>2, <2>3, <2>4 DEF UnitInv
<1>2. CASE ~flush_id(outcome)
  <2>1. /\ InFlight \subseteq Ids
        /\ \A i \in Ids : i \in InFlight <=> mem[i].issued /\ ~mem[i].valid
    BY DEF UnitInv
  <2>2. /\ done \subseteq lsu /\ div_done \in BOOLEAN /\ (div_done => div_q # None)
        /\ issue \in BOOLEAN
    BY DEF Edge
  <2> DEFINE Kept(i) == i \in lsu' \/ (mul_q' # None /\ i = mul_q') \/ (div_q' # None /\ i = div_q')
  <2>3. ASSUME NEW i PROVE Kept(i) <=> i \in InFlight /\ ~Written(i, div_done, done)
    <3>1. /\ fu_q # None => /\ fu_q.id \in Ids /\ fu_q.id \notin lsu
                            /\ fu_q.id # mul_q /\ fu_q.id # div_q
          /\ mul_q # None => mul_q \notin lsu /\ div_q = None
          /\ div_q # None => div_q \notin lsu
          /\ InUnit(Fixed) => mul_q = None /\ div_q = None
          /\ None \notin Ids
      BY InstrAssumption DEF UnitInv, SbInv, TypeOK
    <3>2. i \in InFlight <=>
            \/ i \in lsu
            \/ mul_q # None /\ i = mul_q
            \/ div_q # None /\ i = div_q
            \/ fu_q # None /\ i = fu_q.id
      <4>1. (mul_q # None => mul_q \in Ids) /\ (div_q # None => div_q \in Ids)
        BY DEF SbInv, TypeOK
      <4> QED BY <3>1, <4>1 DEF InFlight
    <3>3. \A fus : InUnit(fus) => fu_q # None
      BY DEF InUnit
    <3> QED BY <1>2, <2>2, <3>1, <3>2, <3>3, UnitSteps DEF Written
  <2>4. fu_q' = IF issue /\ ~issue_q.ex
                THEN [fu |-> issue_q.fu, id |-> issue_pointer] ELSE None
    BY <1>2, IssueFacts
  <2>5. issue => /\ mem'[issue_pointer] = NewEntry(wbs) /\ issue_pointer \in Ids
                 /\ ~mem[issue_pointer].issued /\ NewEntry(wbs).issued
                 /\ NewEntry(wbs).valid = issue_q.ex /\ NewEntry(wbs).fu = issue_q.fu
    <3>1. issue_pointer \in Ids
      BY AgeFacts
    <3> QED BY <1>2, <3>1, StayFacts, NewEntryFacts
  <2>6. /\ fu_q' # None => issue /\ ~issue_q.ex /\ fu_q'.id = issue_pointer /\ fu_q'.fu = issue_q.fu
        /\ issue /\ ~issue_q.ex => fu_q' # None
    <3>1. issue => issue_q.fu \in Fus /\ issue_pointer \in Ids
      BY <1>2, <2>5, StayFacts, NewEntryFacts DEF Instruction
    <3> QED BY <2>4, <3>1, InstrAssumption
  <2>7. InFlight' = {i \in Ids : Kept(i) \/ (fu_q' # None /\ i = issue_pointer)}
    <3>1. /\ lsu' \subseteq Ids /\ mul_q' \in Ids \cup {None} /\ div_q' \in Ids \cup {None}
      BY SbInvStep DEF SbInv, TypeOK
    <3> QED BY <2>5, <2>6, <3>1, InstrAssumption DEF InFlight
  <2>8. \A i \in Ids : i \in InFlight' <=> mem'[i].issued /\ ~mem'[i].valid
    <3> SUFFICES ASSUME NEW i \in Ids
                 PROVE  i \in InFlight' <=> mem'[i].issued /\ ~mem'[i].valid
      OBVIOUS
    <3>1. CASE issue /\ i = issue_pointer
      <4>1. ~Kept(i)
        BY <2>1, <2>3, <2>5, <3>1
      <4> QED BY <2>5, <2>6, <2>7, <3>1, <4>1
    <3>2. CASE ~(issue /\ i = issue_pointer)
      <4>1. i \in InFlight' <=> i \in InFlight /\ ~Written(i, div_done, done)
        BY <2>3, <2>6, <2>7, <3>2
      <4> QED BY <1>2, <2>1, <3>2, <4>1, StayFacts
    <3> QED BY <3>1, <3>2
  <2>9. \A i \in Ids : Kept(i) => mem'[i].fu = mem[i].fu /\ ~(issue /\ i = issue_pointer)
    <3> SUFFICES ASSUME NEW i \in Ids, Kept(i)
                 PROVE  mem'[i].fu = mem[i].fu /\ ~(issue /\ i = issue_pointer)
      OBVIOUS
    <3>1. mem[i].issued /\ ~mem[i].valid
      BY <2>1, <2>3
    <3> QED BY <1>2, <2>5, <3>1, StayFacts
  <2>10. /\ mul_q' = IF InUnit({"MULT"}) THEN fu_q.id ELSE None
         /\ div_q' = IF div_done THEN None ELSE IF InUnit({"DIV"}) THEN fu_q.id ELSE div_q
         /\ lsu' = (lsu \ done) \cup (IF InUnit(IsLsu) THEN {fu_q.id} ELSE {})
    BY <1>2, UnitSteps
  <2>11. /\ fu_q # None => /\ fu_q.id \in Ids /\ fu_q.id \notin lsu
                           /\ fu_q.id # mul_q /\ fu_q.id # div_q /\ fu_q.fu = mem[fu_q.id].fu
         /\ div_q # None => div_q \notin lsu /\ div_q \in Ids /\ mem[div_q].fu = "DIV"
         /\ \A i \in lsu : i \in Ids /\ mem[i].fu \in IsLsu
         /\ None \notin Ids
    BY InstrAssumption DEF UnitInv, SbInv, TypeOK
  <2>12. \A fus : InUnit(fus) => fu_q # None /\ fu_q.fu \in fus
    BY DEF InUnit
  <2>13. fu_q' # None => /\ fu_q'.id \notin lsu' /\ fu_q'.id # mul_q' /\ fu_q'.id # div_q'
                         /\ fu_q'.fu = mem'[fu_q'.id].fu
    <3>1. issue => ~Kept(issue_pointer) /\ issue_pointer # None
      BY <2>5, <2>9, <2>11
    <3>2. fu_q' # None => fu_q'.id \notin lsu' /\ fu_q'.id # mul_q' /\ fu_q'.id # div_q'
      BY <2>6, <3>1
    <3> QED BY <2>5, <2>6, <3>2
  <2>14. mul_q' # None => mul_q' \notin lsu' /\ div_q' = None /\ mem'[mul_q'].fu = "MULT"
    <3> SUFFICES ASSUME mul_q' # None
                 PROVE  mul_q' \notin lsu' /\ div_q' = None /\ mem'[mul_q'].fu = "MULT"
      OBVIOUS
    <3>1. InUnit({"MULT"}) /\ mul_q' = fu_q.id /\ fu_q # None /\ fu_q.fu = "MULT"
      BY <2>10, <2>12
    <3>2. ~InUnit(IsLsu) /\ ~InUnit({"DIV"}) /\ div_q = None
      BY <1>2, <3>1, UnitSteps DEF InUnit, IsLsu
    <3>3. mul_q' \notin lsu' /\ div_q' = None
      BY <2>10, <2>11, <3>1, <3>2
    <3> QED BY <2>9, <2>11, <3>1, <3>3
  <2>15. div_q' # None => div_q' \notin lsu' /\ mem'[div_q'].fu = "DIV"
    <3> SUFFICES ASSUME div_q' # None
                 PROVE  div_q' \notin lsu' /\ mem'[div_q'].fu = "DIV"
      OBVIOUS
    <3>1. div_q' \in Ids /\ Kept(div_q')
      BY <2>10, <2>11, <2>12
    <3>2. CASE InUnit({"DIV"}) /\ ~div_done
      <4>1. div_q' = fu_q.id /\ fu_q # None /\ fu_q.fu = "DIV" /\ ~InUnit(IsLsu)
        BY <2>10, <2>12, <3>2 DEF IsLsu
      <4> QED BY <2>9, <2>10, <2>11, <3>1, <4>1
    <3>3. CASE ~(InUnit({"DIV"}) /\ ~div_done)
      <4>1. div_q' = div_q /\ div_q # None
        BY <2>10, <3>3
      <4> QED BY <2>9, <2>10, <2>11, <2>12, <3>1, <4>1
    <3> QED BY <3>2, <3>3
  <2>16. \A i \in lsu' : mem'[i].fu \in IsLsu
    BY <2>9, <2>10, <2>11, <2>12
  <2>17. InUnit(Fixed)' => mul_q' = None /\ div_q' = None
    BY <1>2, <2>10, IssueFacts, UnitSteps DEF InUnit, IsMult
  <2>18. InUnit(IsMult)' => div_q' = None
    BY <1>2, <2>10, IssueFacts
  <2>19. InFlight' \subseteq Ids
    BY <2>7
  <2> QED BY <2>8, <2>13, <2>14, <2>15, <2>16, <2>17, <2>18, <2>19 DEF UnitInv
<1> QED BY <1>1, <1>2

----------------------------------------------------------------------------
(***************************************************************************)
(* The CSR buffer.                                                         *)
(***************************************************************************)

\* What stays keeps its order, and what is issued comes last.
LEMMA OrderFacts ==
  ASSUME SbInv, NEW outcome, NEW issue, NEW wbs, NEW div_done, NEW done,
         Edge(outcome, issue, wbs, div_done, done), ~flush_id(outcome)
  PROVE  /\ \A i, j \in Ids : ~(Age(i) < Retired(outcome)) /\ ~(Age(j) < Retired(outcome)) =>
              (Age(i)' < Age(j)' <=> Age(i) < Age(j))
         /\ issue => \A i, j \in Ids :
              i = issue_pointer /\ mem[j].issued /\ ~(Age(j) < Retired(outcome)) =>
                Age(j)' < Age(i)'
         /\ Retired(outcome) = 0 => commit_pointer' = commit_pointer
<1> DEFINE n == Retired(outcome)
<1>1. /\ \A i \in Ids : /\ Age(i) \in Ids
                       /\ Age(i)' = IF Age(i) >= n THEN Age(i) - n ELSE Age(i) - n + N
      /\ n \in Ids /\ n <= issue_cnt /\ issue_cnt \in Ids
  BY AgeFacts, EdgeFacts
<1>2. Ids \subseteq Nat /\ N \in Nat
  BY RingFacts DEF Ids, N
<1> HIDE DEF n
<1>3. \A i, j \in Ids : ~(Age(i) < n) /\ ~(Age(j) < n) => (Age(i)' < Age(j)' <=> Age(i) < Age(j))
  <2> TAKE i, j \in Ids
  <2> HAVE ~(Age(i) < n) /\ ~(Age(j) < n)
  <2>1. Age(i) \in Nat /\ Age(j) \in Nat /\ n \in Nat
    BY <1>1, <1>2
  <2>2. Age(i)' = Age(i) - n /\ Age(j)' = Age(j) - n
    BY <1>1, <2>1
  <2> QED BY <2>1, <2>2
<1>4. ASSUME issue, NEW i \in Ids, NEW j \in Ids, i = issue_pointer, mem[j].issued,
             ~(Age(j) < n)
      PROVE  Age(j)' < Age(i)'
  <2>1. Age(i) = issue_cnt
    BY <1>4, AgeFacts
  <2>2. Age(j) < issue_cnt
    BY <1>4 DEF SbInv
  <2>3. Age(i) \in Nat /\ Age(j) \in Nat /\ n \in Nat /\ n <= issue_cnt
    BY <1>1, <1>2, <1>4
  <2>4. Age(i)' = Age(i) - n /\ Age(j)' = Age(j) - n
    BY <1>1, <1>4, <2>1, <2>3
  <2> QED BY <2>1, <2>2, <2>3, <2>4
<1>5. n = 0 => commit_pointer' = commit_pointer
  <2>1. commit_pointer' = Plus(commit_pointer, n)
    BY DEF Edge, issue_fifo, Retired, n
  <2>2. commit_pointer \in Ids /\ Plus(commit_pointer, 0) = commit_pointer
    BY AgeFacts, RingFacts DEF Ids, N
  <2> QED BY <2>1, <2>2
<1> QED BY <1>3, <1>4, <1>5 DEF n

\* A fence at a commit port retires only with a flush; a CSR instruction that
\* is committed retires, or is flushed.
LEMMA CommitCsrFacts ==
  ASSUME SbInv, NEW outcome \in Outcomes, ~flush_id(outcome)
  PROVE  /\ \A i \in Ids : mem[i].issued /\ mem[i].fu = "FENCE" => ~(Age(i) < Retired(outcome))
         /\ commit_csr(outcome) =>
              /\ Port0.issued /\ Port0.valid /\ ~Port0.ex /\ Port0.fu \in IsCsr
              /\ Port0.fu = "CSR" => Age(commit_pointer) < Retired(outcome)
              /\ Port0.fu = "FENCE" => Retired(outcome) = 0
<1>1. ASSUME NEW i \in Ids, Age(i) < Retired(outcome) PROVE mem[i].fu # "FENCE"
  <2>1. i \in Retiring(outcome)
    BY <1>1, RetireFacts
  <2>2. CASE ack0(outcome) /\ i = commit_pointer
    BY <2>2 DEF ack0, Outcomes, Port0, flush_id
  <2>3. CASE ack1(outcome) /\ i = Plus(commit_pointer, 1)
    BY <2>3 DEF ack1, Port1
  <2> QED BY <2>1, <2>2, <2>3 DEF Retiring
<1>2. ASSUME commit_csr(outcome)
      PROVE  /\ Port0.issued /\ Port0.valid /\ ~Port0.ex /\ Port0.fu \in IsCsr
             /\ Port0.fu = "CSR" => Age(commit_pointer) < Retired(outcome)
             /\ Port0.fu = "FENCE" => Retired(outcome) = 0
  <2>1. ValidAt(Port0) /\ Port0.fu \in IsCsr /\ outcome # "halt" /\ outcome # "trap"
        /\ outcome # "flush"
    BY <1>2 DEF commit_csr, flush_id
  <2>2. ~Port0.ex
    BY <2>1 DEF Outcomes
  <2>3. Port0.fu = "CSR" => outcome \in {"retire", "single"}
    BY <2>1, <2>2 DEF Outcomes
  <2>4. Port0.fu = "FENCE" => outcome = "wait"
    BY <2>1, <2>2 DEF Outcomes
  <2>5. Port0.fu = "CSR" => Age(commit_pointer) < Retired(outcome)
    <3>1. Port0.fu = "CSR" => commit_pointer \in Retiring(outcome)
      BY <2>3, AgeFacts DEF Retiring, ack0
    <3> QED BY <3>1, AgeFacts, RetireFacts
  <2> QED BY <2>1, <2>2, <2>4, <2>5, RetireFacts DEF ValidAt
<1> QED BY <1>1, <1>2

LEMMA CsrInvStep ==
  ASSUME SbInv, UnitInv, CsrInv,
         NEW outcome, NEW issue, NEW wbs, NEW div_done, NEW done,
         Edge(outcome, issue, wbs, div_done, done)
  PROVE  CsrInv'
<1>1. CASE flush_id(outcome)
  <2>1. mem' = [i \in Ids |-> Free]
    BY <1>1, FlushFacts
  <2>2. \A i \in Ids : ~mem'[i].issued
    BY <2>1 DEF Free
  <2> QED BY <2>2 DEF CsrInv, Issued
<1>2. CASE ~flush_id(outcome)
  <2> SUFFICES ASSUME NEW i \in Ids, mem'[i].issued, mem'[i].fu \in IsCsr, ~mem'[i].ex,
                      ~BehindFence(i)'
               PROVE  \/ InUnit(IsCsr)' /\ fu_q'.id = i
                      \/ ~InUnit(IsCsr)' /\ csr_q'.valid /\ csr_q'.id = i
                      \/ mem'[i].fu = "FENCE" /\ mem'[i].valid /\ i = commit_pointer'
    BY DEF CsrInv, Issued
  <2> DEFINE p == commit_pointer
  <2>1. outcome \in Outcomes /\ issue \in BOOLEAN /\ p \in Ids /\ Age(p) = 0
    BY AgeFacts DEF Edge
  <2>2. CASE issue /\ i = issue_pointer /\ mem'[i] = NewEntry(wbs)
    <3>1. issue_q # None
      BY <1>2, <2>2, StayFacts
    <3>2. ~issue_q.ex /\ issue_q.fu \in IsCsr
      BY <2>2, <3>1, NewEntryFacts
    <3>3. fu_q' = [fu |-> issue_q.fu, id |-> issue_pointer]
      BY <1>2, <2>2, <3>2, IssueFacts
    <3>4. fu_q' # None
      BY <2>1, <3>1, <3>3, InstrAssumption, AgeFacts, NewEntryFacts DEF Instruction
    <3> QED BY <2>2, <3>2, <3>3, <3>4 DEF InUnit
  <2>3. CASE mem[i].issued /\ ~(Age(i) < Retired(outcome))
    <3>1. /\ mem'[i].fu = mem[i].fu /\ (mem[i].valid => mem'[i].valid) /\ ~mem[i].ex
      BY <1>2, <2>3, StayFacts
    <3>2. ASSUME NEW j \in Ids, mem[j].issued, mem[j].fu = "FENCE", Age(j) < Age(i)
          PROVE  FALSE
      <4>1. ~(Age(j) < Retired(outcome))
        BY <1>2, <2>1, <3>2, CommitCsrFacts
      <4>2. mem'[j].issued /\ mem'[j].fu = "FENCE"
        BY <1>2, <3>2, <4>1, StayFacts
      <4>3. Age(j)' < Age(i)'
        BY <1>2, <2>3, <3>2, <4>1, OrderFacts
      <4> QED BY <4>2, <4>3 DEF BehindFence, Issued
    <3>3. \/ InUnit(IsCsr) /\ fu_q.id = i
          \/ ~InUnit(IsCsr) /\ csr_q.valid /\ csr_q.id = i
          \/ mem[i].fu = "FENCE" /\ mem[i].valid /\ i = p
      BY <2>3, <3>1, <3>2 DEF CsrInv, BehindFence, Issued
    <3>4. ASSUME commit_csr(outcome) PROVE i = p
      <4>1. /\ mem[p].issued /\ mem[p].valid /\ ~mem[p].ex /\ mem[p].fu \in IsCsr
        BY <1>2, <2>1, <3>4, CommitCsrFacts DEF Port0
      <4>2. ~BehindFence(p)
        <5>1. \A j \in Ids : ~(Age(j) < 0)
          BY AgeFacts, RingFacts DEF Ids, N
        <5> QED BY <2>1, <5>1 DEF BehindFence, Issued
      <4>3. \/ InUnit(IsCsr) /\ fu_q.id = p
            \/ ~InUnit(IsCsr) /\ csr_q.valid /\ csr_q.id = p
            \/ mem[p].fu = "FENCE"
        BY <2>1, <4>1, <4>2 DEF CsrInv, Issued
      <4>4. ~(InUnit(IsCsr) /\ fu_q.id = p)
        BY <2>1, <4>1 DEF UnitInv, InFlight, InUnit
      <4>5. mem[p].fu = "FENCE" => i = p
        <5>1. Age(i) \in Nat /\ (Age(i) = 0 => i = p)
          BY <2>1, AgeFacts, RingFacts DEF Ids, N
        <5> QED BY <2>1, <3>2, <4>1, <5>1
      <4> QED BY <3>3, <4>3, <4>4, <4>5
    <3>5. commit_csr(outcome) => /\ mem[i].fu = "FENCE" /\ mem[i].valid /\ Retired(outcome) = 0
      BY <1>2, <2>1, <2>3, <3>4, CommitCsrFacts DEF Port0, IsCsr
    <3>6. CASE mem[i].fu = "FENCE" /\ mem[i].valid /\ i = p
      <4>1. Retired(outcome) = 0
        <5>1. Retired(outcome) \in Nat
          BY <2>1, RetireFacts, RingFacts DEF Ids, N
        <5> QED BY <2>1, <2>3, <3>6, <5>1
      <4>2. i = commit_pointer'
        BY <1>2, <3>6, <4>1, OrderFacts
      <4> QED BY <3>1, <3>6, <4>2
    <3>7. CASE /\ ~commit_csr(outcome)
               /\ \/ InUnit(IsCsr) /\ fu_q.id = i
                  \/ ~InUnit(IsCsr) /\ csr_q.valid /\ csr_q.id = i
      <4>1. csr_q'.valid /\ csr_q'.id = i
        BY <1>2, <3>7 DEF Edge, csr_buffer
      <4>2. ~InUnit(IsCsr)'
        BY <1>2, <3>7, IssueFacts DEF csr_ready
      <4> QED BY <4>1, <4>2
    <3>8. \/ mem[i].fu = "FENCE" /\ mem[i].valid /\ i = p
          \/ /\ ~commit_csr(outcome)
             /\ \/ InUnit(IsCsr) /\ fu_q.id = i
                \/ ~InUnit(IsCsr) /\ csr_q.valid /\ csr_q.id = i
      BY <3>3, <3>4, <3>5, Zenon
    <3> QED BY <3>6, <3>7, <3>8
  <2> QED BY <1>2, <2>2, <2>3, StayFacts
<1> QED BY <1>1, <1>2


----------------------------------------------------------------------------
(***************************************************************************)
(* The units and the scoreboard agree.                                     *)
(***************************************************************************)
Inv == SbInv /\ UnitInv /\ CsrInv

LEMMA InitInv == Init => Inv
<1> SUFFICES ASSUME Init PROVE Inv
  OBVIOUS
<1>1. /\ 0 \in Ids /\ Plus(0, 0) = 0 /\ 0 \in Regs
      /\ \A i \in Ids : Minus(i, 0) \in Ids /\ ~(Minus(i, 0) < 0)
  <2>1. 0 \in Ids /\ \A i \in Ids : i \in Nat /\ 0 + 0 < N
    BY RingFacts DEF Ids, N
  <2>2. Plus(0, 0) = 0
    BY <2>1, RingFacts
  <2>3. \A i \in Ids : Minus(i, 0) \in Ids
    BY <2>1, RingFacts
  <2>4. \A i \in Ids : ~(Minus(i, 0) < 0)
    BY <2>1, <2>3
  <2> QED BY <2>1, <2>2, <2>3, <2>4, IssueAssumption
<1>2. mem = [i \in Ids |-> Free] /\ \A i \in Ids : ~mem[i].issued
  BY DEF Init, Free
<1>3. TypeOK
  BY <1>1 DEF Init, TypeOK
<1>4. SbInv
  BY <1>1, <1>2, <1>3 DEF Init, SbInv, Age
<1>5. UnitInv
  BY <1>2, InstrAssumption DEF Init, UnitInv, InFlight, InUnit
<1>6. CsrInv
  BY <1>2 DEF CsrInv, Issued
<1> QED BY <1>4, <1>5, <1>6 DEF Inv

LEMMA InvStep == Inv /\ [Next]_vars => Inv'
<1> SUFFICES ASSUME Inv, [Next]_vars PROVE Inv'
  OBVIOUS
<1>1. CASE Next
  <2>1. PICK outcome, issue, wbs, div_done, done :
          Edge(outcome, issue, wbs, div_done, done)
    BY <1>1, NextIsEdge
  <2> QED BY <2>1, SbInvStep, UnitInvStep, CsrInvStep DEF Inv
<1>2. CASE UNCHANGED vars
  BY <1>2 DEF vars, sbVars, Inv, SbInv, UnitInv, CsrInv, TypeOK, Age, InFlight, InUnit,
     Issued, BehindFence
<1> QED BY <1>1, <1>2

\* Adding what is in a register that may be empty.
LEMMA CountOption ==
  ASSUME NEW S, IsFiniteSet(S), NEW x, NEW b \in BOOLEAN, b => x \notin S
  PROVE  LET T == S \cup (IF b THEN {x} ELSE {})
         IN  /\ IsFiniteSet(T)
             /\ Cardinality(T) = Cardinality(S) + Cardinality({y \in {1} : b})
<1>1. CASE b
  <2>1. {y \in {1} : b} = {1} /\ Cardinality({1}) = 1
    BY <1>1, FS_Singleton
  <2>2. IsFiniteSet(S \cup {x}) /\ Cardinality(S \cup {x}) = Cardinality(S) + 1
    BY <1>1, FS_AddElement
  <2> QED BY <1>1, <2>1, <2>2
<1>2. CASE ~b
  <2>1. {y \in {1} : b} = {} /\ Cardinality({}) = 0 /\ S \cup {} = S
    BY <1>2, FS_EmptySet
  <2>2. Cardinality(S) \in Nat
    BY FS_CardinalityType
  <2> QED BY <1>2, <2>1, <2>2
<1> QED BY <1>1, <1>2

LEMMA InvUnits == Inv => UnitsConsistent
<1> SUFFICES ASSUME SbInv, UnitInv, CsrInv PROVE UnitsConsistent
  BY DEF Inv
<1>1. InFlightIssued
  <2>1. InFlight = {i \in Issued : ~mem[i].valid}
    BY DEF UnitInv, Issued
  <2> DEFINE A == lsu \cup (IF mul_q # None THEN {mul_q} ELSE {})
             B == A \cup (IF div_q # None THEN {div_q} ELSE {})
             C == B \cup (IF fu_q # None THEN {fu_q.id} ELSE {})
  <2>2. IsFiniteSet(lsu)
    <3>1. N \in Nat /\ lsu \subseteq 0 .. N - 1
      BY RingFacts DEF SbInv, TypeOK, Ids, N
    <3>2. IsFiniteSet(0 .. N - 1)
      BY <3>1, FS_Interval
    <3> QED BY <3>1, <3>2, FS_Subset
  <2>3. mul_q # None => mul_q \notin lsu
    BY DEF UnitInv
  <2>4. div_q # None => div_q \notin A
    BY DEF UnitInv
  <2>5. fu_q # None => fu_q.id \notin B
    BY DEF UnitInv
  <2>6. IsFiniteSet(A) /\ Cardinality(A) = Cardinality(lsu) + Cardinality({x \in {1} : mul_q # None})
    BY <2>2, <2>3, CountOption
  <2>7. IsFiniteSet(B) /\ Cardinality(B) = Cardinality(A) + Cardinality({x \in {1} : div_q # None})
    <3> HIDE DEF A
    <3> QED BY <2>4, <2>6, CountOption
  <2>8. Cardinality(C) = Cardinality(B) + Cardinality({x \in {1} : fu_q # None})
    <3> HIDE DEF A, B
    <3> QED BY <2>5, <2>7, CountOption
  <2>9. InFlight = C
    <3>1. \A i \in Ids : i \in InFlight <=> i \in C
      BY InstrAssumption DEF InFlight
    <3>2. InFlight \subseteq Ids
      BY DEF UnitInv
    <3>3. C \subseteq Ids
      BY DEF SbInv, TypeOK
    <3> HIDE DEF C
    <3> QED BY <3>1, <3>2, <3>3
  <2> HIDE DEF A, B, C
  <2> QED BY <2>1, <2>6, <2>7, <2>8, <2>9 DEF InFlightIssued
<1>2. NoBusContention
  BY DEF NoBusContention, UnitInv, InUnit, Fixed
<1>3. CsrAddressKept
  <2> SUFFICES ASSUME ValidAt(Port0), Port0.fu = "CSR", ~Port0.ex
               PROVE  csr_q.id = commit_pointer
    BY DEF CsrAddressKept
  <2>1. commit_pointer \in Issued
    BY AgeFacts DEF ValidAt, Port0, Issued
  <2>2. ~BehindFence(commit_pointer)
    <3>1. \A j \in Ids : ~(Age(j) < 0)
      BY AgeFacts, RingFacts DEF Ids, N
    <3> QED BY <3>1, AgeFacts DEF BehindFence, Issued
  <2>3. ~(InUnit(IsCsr) /\ fu_q.id = commit_pointer)
    BY <2>1 DEF UnitInv, InFlight, InUnit, ValidAt, Port0
  <2> QED BY <2>1, <2>2, <2>3 DEF CsrInv, ValidAt, Port0, IsCsr
<1> QED BY <1>1, <1>2, <1>3 DEF UnitsConsistent

\* Every reachable state satisfies the invariant the proofs rest on.
LEMMA InvAlways == Spec => []Inv
<1>1. Init => Inv
  BY InitInv
<1>2. Inv /\ [Next]_vars => Inv'
  BY InvStep
<1> QED BY <1>1, <1>2, PTL DEF Spec

\* The units and the scoreboard agree about what is being worked on, two units
\* of the fixed latency bus never deliver in one cycle, and the CSR buffer holds
\* the address of the CSR instruction that reaches commit port 0
\* (issue_read_operands.sv, ex_stage.sv, csr_buffer.sv).
THEOREM UnitsAgree == Spec => []UnitsConsistent
<1>1. Spec => []Inv
  BY InvAlways
<1>2. Inv => UnitsConsistent
  BY InvUnits
<1> QED BY <1>1, <1>2, PTL


----------------------------------------------------------------------------
(***************************************************************************)
(* What is retired.                                                        *)
(***************************************************************************)

\* The decoder gives no instruction of these units a destination (decoder.sv
\* leaves rd zero for a store and a fence; an AMO has one).
NoDestination(fus) == \A i \in Instrs : i.fu \in fus /\ ~i.ex => i.rd = 0

\* An entry without an exception has its result as soon as it is valid, but for
\* the units that bring none; no instruction of fus writes a register.
ResultInv(fus) ==
  /\ issue_q \in Instrs \cup {None}
  /\ \A i \in Issued : ~mem[i].ex =>
       /\ mem[i].valid => mem[i].good \/ mem[i].fu \in {"STORE", "AMO", "CSR", "FENCE"}
       /\ mem[i].fu \in fus => mem[i].rd[1] = 0

LEMMA ResultStep ==
  ASSUME NEW fus, NoDestination(fus), Inv, ResultInv(fus), [Next]_vars
  PROVE  ResultInv(fus)'
<1>1. ASSUME NEW outcome, NEW issue, NEW wbs, NEW div_done, NEW done,
             Edge(outcome, issue, wbs, div_done, done)
      PROVE  ResultInv(fus)'
  <2>1. issue_q' \in Instrs \cup {None}
    BY <1>1 DEF Edge, ResultInv
  <2>2. CASE flush_id(outcome)
    <3>1. mem' = [i \in Ids |-> Free]
      BY <1>1, <2>2, FlushFacts
    <3>2. \A i \in Ids : ~mem'[i].issued
      BY <3>1 DEF Free
    <3> QED BY <2>1, <3>2 DEF ResultInv, Issued
  <2>3. CASE ~flush_id(outcome)
    <3> SUFFICES ASSUME NEW i \in Ids, mem'[i].issued, ~mem'[i].ex
                 PROVE  /\ mem'[i].valid => \/ mem'[i].good
                                            \/ mem'[i].fu \in {"STORE", "AMO", "CSR", "FENCE"}
                        /\ mem'[i].fu \in fus => mem'[i].rd[1] = 0
      BY <2>1 DEF ResultInv, Issued
    <3>1. SbInv /\ UnitInv
      BY DEF Inv
    <3>2. CASE issue /\ i = issue_pointer /\ mem'[i] = NewEntry(wbs)
      <4>1. issue_q # None
        BY <1>1, <2>3, <3>1, <3>2, StayFacts
      <4>2. /\ mem'[i].valid = mem'[i].ex /\ mem'[i].fu = issue_q.fu /\ ~issue_q.ex
            /\ mem'[i].rd = Destination(issue_q.rd)
        BY <3>1, <3>2, <4>1, NewEntryFacts
      <4>3. mem'[i].rd[1] = issue_q.rd
        BY <4>2 DEF Destination
      <4> QED BY <4>1, <4>2, <4>3 DEF ResultInv, NoDestination
    <3>3. CASE mem[i].issued /\ ~(Age(i) < Retired(outcome))
      <4>1. /\ mem'[i] = WrittenBack(i, wbs) /\ mem'[i].fu = mem[i].fu /\ mem'[i].rd = mem[i].rd
            /\ ~mem[i].ex
        BY <1>1, <2>3, <3>1, <3>3, StayFacts
      <4>2. mem'[i].fu \in fus => mem'[i].rd[1] = 0
        BY <3>3, <4>1 DEF ResultInv, Issued
      <4>3. CASE Written(i, div_done, done)
        <5>1. mem'[i].good \/ mem'[i].fu \in {"STORE", "AMO", "CSR", "FENCE"}
          BY <1>1, <3>1, <3>3, <4>1, <4>3, EntryFacts
        <5> QED BY <4>2, <5>1
      <4>4. CASE ~Written(i, div_done, done)
        <5>1. mem'[i] = mem[i]
          BY <1>1, <3>1, <3>3, <4>1, <4>4, EntryFacts
        <5> QED BY <3>3, <4>2, <5>1 DEF ResultInv, Issued
      <4> QED BY <4>3, <4>4
    <3> QED BY <1>1, <2>3, <3>1, <3>2, <3>3, StayFacts
  <2> QED BY <2>2, <2>3
<1>2. CASE UNCHANGED vars
  BY <1>2 DEF vars, sbVars, ResultInv, Issued
<1> QED BY <1>1, <1>2, NextIsEdge

LEMMA RegfileStep ==
  ASSUME Inv, ResultInv({"STORE", "FENCE"}), RegfileRight, [Next]_vars
  PROVE  RegfileRight'
<1>1. ASSUME NEW outcome, NEW issue, NEW wbs, NEW div_done, NEW done,
             Edge(outcome, issue, wbs, div_done, done), NEW r \in Regs
      PROVE  regfile'[r]
  <2>1. regfile'[r] = IF r = 0 THEN TRUE
                      ELSE IF ack1(outcome) /\ Port1.rd[1] = r THEN WriteData(Port1)
                      ELSE IF ack0(outcome) /\ Port0.rd[1] = r THEN WriteData(Port0)
                      ELSE regfile[r]
    BY <1>1 DEF Edge, register_write
  <2>2. /\ commit_pointer \in Ids /\ Plus(commit_pointer, 1) \in Ids
        /\ outcome \in Outcomes
    BY <1>1, AgeFacts DEF Inv, Edge
  <2>3. ack1(outcome) => WriteData(Port1)
    BY <2>2 DEF ack1, ValidAt, Port1, ResultInv, Issued, WriteData
  <2>4. ack0(outcome) /\ Port0.rd[1] = r /\ r # 0 => WriteData(Port0)
    <3>1. ack0(outcome) => ValidAt(Port0) /\ ~Port0.ex
      BY <2>2 DEF Outcomes, ack0
    <3> QED BY <2>2, <3>1 DEF ValidAt, Port0, ResultInv, Issued, WriteData
  <2> QED BY <2>1, <2>3, <2>4 DEF RegfileRight
<1>2. CASE UNCHANGED vars
  BY <1>2 DEF vars, RegfileRight
<1> QED BY <1>1, <1>2, NextIsEdge DEF RegfileRight

\* The register file holds what was retired last, also when both commit ports
\* write one register (issue_read_operands.sv, commit_stage.sv); a store's or a
\* fence's empty result never reaches it, as neither has a destination.
THEOREM RegisterFile ==
  ASSUME NoDestination({"STORE", "FENCE"})
  PROVE  Spec => []RegfileRight
<1> DEFINE J == ResultInv({"STORE", "FENCE"}) /\ RegfileRight
<1>1. Init => J
  BY InstrAssumption DEF Init, ResultInv, RegfileRight, Issued, Free
<1>2. J /\ Inv /\ [Next]_vars => J'
  BY ResultStep, RegfileStep
<1>3. Spec => []Inv
  BY InvAlways
<1>4. J => RegfileRight
  OBVIOUS
<1> HIDE DEF J
<1> QED BY <1>1, <1>2, <1>3, <1>4, PTL DEF Spec


----------------------------------------------------------------------------
(***************************************************************************)
(* Who writes a register.                                                  *)
(***************************************************************************)

\* The youngest writer of a register has the name that a source of it gets:
\* behind one with the other name there is one with this.  Without re-naming
\* there is no other name.
NameInv ==
  /\ ~ENABLE_RENAME => \A i \in Issued : mem[i].rd = <<mem[i].rd[1], 0>>
  /\ \A i \in Issued : mem[i].rd[1] # 0 /\ mem[i].rd # Source(mem[i].rd[1]) =>
       \E j \in Issued : mem[j].rd = Source(mem[i].rd[1]) /\ Age(i) < Age(j)

WriterInv == NameInv /\ SingleWriter

\* What an issue does to the names: the register's other name is the current
\* one from now on, if there is one, and those of the other registers stay.
LEMMA NameFacts ==
  ASSUME SbInv, NEW outcome, NEW issue, NEW wbs, NEW div_done, NEW done,
         Edge(outcome, issue, wbs, div_done, done), ~flush_id(outcome)
  PROVE  /\ \A r \in Regs : Source(r) \in Names /\ Source(r)[1] = r
         /\ ~ENABLE_RENAME => \A r \in Regs : Source(r) = <<r, 0>> /\ Destination(r) = <<r, 0>>
         /\ \A name \in Names :
              name[1] # 0 /\ (~ENABLE_RENAME => name[2] = 0) =>
                name = Source(name[1]) \/ name = Destination(name[1])
         /\ ENABLE_RENAME => \A r \in Regs : r # 0 => Source(r) # Destination(r)
         /\ \A r \in Regs : Destination(r)[1] = r /\ Destination(r) \in Names
         /\ issue => issue_q # None /\ issue_q.rd \in Regs
         /\ \A r \in Regs : Source(r)' = IF issue /\ issue_q.rd = r /\ r # 0
                                        THEN Destination(r) ELSE Source(r)
<1>1. /\ re_name_table \in [Regs -> {0, 1}] /\ re_name_table[0] = 0 /\ 0 \in Regs
      /\ ENABLE_RENAME \in BOOLEAN
  BY IssueAssumption DEF SbInv, TypeOK
<1>2. re_name_table' = IF issue /\ issue_q.rd # 0
                       THEN [re_name_table EXCEPT ![issue_q.rd] = 1 - @] ELSE re_name_table
  BY DEF Edge, re_name
<1>3. issue => issue_q # None /\ issue_q.rd \in Regs
  <2>1. issue => issue_q # None
    BY EdgeFacts
  <2>2. issue_q \in Instruction \cup {None}
    BY DEF SbInv, TypeOK
  <2> QED BY <2>1, <2>2 DEF Instruction
<1>4. ASSUME NEW r \in Regs
      PROVE  Source(r)' = IF issue /\ issue_q.rd = r /\ r # 0
                          THEN Destination(r) ELSE Source(r)
  <2>1. re_name_table'[r] = IF issue /\ issue_q.rd = r /\ r # 0
                            THEN 1 - re_name_table[r] ELSE re_name_table[r]
    BY <1>1, <1>2, <1>3
  <2> QED BY <1>1, <2>1 DEF Source, Destination, name_bit
<1>5. \A r \in Regs : /\ re_name_table[r] \in {0, 1}
                      /\ r # 0 => Destination(r) = <<r, name_bit(1 - re_name_table[r])>>
                      /\ Destination(r) \in Names /\ Destination(r)[1] = r
                      /\ Source(r) \in Names /\ Source(r)[1] = r
  BY <1>1 DEF Destination, Source, name_bit, Names
<1>6. ASSUME NEW name \in Names, name[1] # 0, ~ENABLE_RENAME => name[2] = 0
      PROVE  name = Source(name[1]) \/ name = Destination(name[1])
  <2>1. name = <<name[1], name[2]>> /\ name[1] \in Regs /\ name[2] \in {0, 1}
    BY DEF Names
  <2>2. name[2] \in {name_bit(re_name_table[name[1]]), name_bit(1 - re_name_table[name[1]])}
    BY <1>1, <1>5, <1>6, <2>1 DEF name_bit
  <2>3. Destination(name[1]) = <<name[1], name_bit(1 - re_name_table[name[1]])>>
    BY <1>5, <1>6, <2>1
  <2>4. Source(name[1]) = <<name[1], name_bit(re_name_table[name[1]])>>
    BY DEF Source
  <2> QED BY <2>1, <2>2, <2>3, <2>4
<1>7. ENABLE_RENAME => \A r \in Regs : r # 0 => Source(r) # Destination(r)
  BY <1>5 DEF Source, name_bit
<1>8. ~ENABLE_RENAME => \A r \in Regs : Source(r) = <<r, 0>> /\ Destination(r) = <<r, 0>>
  BY DEF Source, Destination, name_bit
<1> QED BY <1>3, <1>4, <1>5, <1>6, <1>7, <1>8

\* Without an exception in the scoreboard a register has one writer.
LEMMA OneWriter ==
  ASSUME SingleWriter, \A k \in Issued : ~mem[k].ex,
         NEW i \in Issued, NEW j \in Issued, mem[i].rd = mem[j].rd, mem[i].rd[1] # 0
  PROVE  i = j
  BY DEF SingleWriter, Doomed

\* Entries behind an exception stay behind it.
LEMMA DoomStays ==
  ASSUME Inv, NEW outcome, NEW issue, NEW wbs, NEW div_done, NEW done,
         Edge(outcome, issue, wbs, div_done, done), ~flush_id(outcome)
  PROVE  /\ \A i \in Ids : ~(Age(i) < Retired(outcome)) /\ Doomed(i) => Doomed(i)'
         /\ issue /\ (\E k \in Issued : mem[k].ex) =>
              \A i \in Ids : i = issue_pointer => Doomed(i)'
         /\ \A i \in Ids : Age(i) < Retired(outcome) => ~Doomed(i)
<1>1. SbInv /\ UnitInv
  BY DEF Inv
<1>2. ASSUME NEW k \in Issued, mem[k].ex
      PROVE  k \in Ids /\ ~(Age(k) < Retired(outcome)) /\ mem'[k].issued /\ mem'[k].ex
  <2>1. k \in Ids /\ mem[k].issued
    BY DEF Issued
  <2> QED BY <1>1, <1>2, <2>1, StayFacts
<1>3. ASSUME NEW i \in Ids, ~(Age(i) < Retired(outcome)), Doomed(i) PROVE Doomed(i)'
  <2>1. PICK k \in Issued : mem[k].ex /\ Age(k) < Age(i)
    BY <1>3 DEF Doomed
  <2>2. k \in Ids /\ ~(Age(k) < Retired(outcome)) /\ mem'[k].issued /\ mem'[k].ex
    BY <1>2, <2>1
  <2>3. Age(k)' < Age(i)'
    BY <1>1, <1>3, <2>1, <2>2, OrderFacts
  <2> QED BY <2>2, <2>3 DEF Doomed, Issued
<1>4. ASSUME issue, NEW k \in Issued, mem[k].ex, NEW i \in Ids, i = issue_pointer
      PROVE  Doomed(i)'
  <2>1. k \in Ids /\ mem[k].issued /\ ~(Age(k) < Retired(outcome)) /\ mem'[k].issued /\ mem'[k].ex
    BY <1>2, <1>4 DEF Issued
  <2>2. Age(k)' < Age(i)'
    BY <1>1, <1>4, <2>1, OrderFacts
  <2> QED BY <2>1, <2>2 DEF Doomed, Issued
<1>5. ASSUME NEW i \in Ids, Age(i) < Retired(outcome), Doomed(i) PROVE FALSE
  <2>1. PICK k \in Issued : mem[k].ex /\ Age(k) < Age(i)
    BY <1>5 DEF Doomed
  <2>2. k \in Ids /\ ~(Age(k) < Retired(outcome))
    BY <1>2, <2>1
  <2>3. outcome \in Outcomes
    BY DEF Edge
  <2>4. Age(k) \in Nat /\ Age(i) \in Nat /\ Retired(outcome) \in Nat
    BY <1>1, <1>5, <2>2, <2>3, AgeFacts, RetireFacts, RingFacts DEF Ids, N
  <2> QED BY <1>5, <2>1, <2>2, <2>4
<1> QED BY <1>3, <1>4, <1>5


\* The last of some scoreboard entries is one of them.
LEMMA LastFacts ==
  ASSUME NEW S \in SUBSET Ids, S # {}
  PROVE  Last(S) \in S
<1> DEFINE T == {N - i : i \in S}
<1>1. N \in Nat /\ \A i \in S : i \in Nat /\ i < N
  BY RingFacts DEF Ids, N
<1>2. T \subseteq Nat /\ T # {}
  BY <1>1
<1>3. PICK x \in T : \A y \in T : ~ (<<y, x>> \in OpToRel(<, Nat))
  <2> HIDE DEF T
  <2> QED BY <1>2, WFMin, NatLessThanWellFounded
<1>4. \A y \in T : ~ (y < x)
  BY <1>2, <1>3 DEF OpToRel
<1>5. PICK i \in S : x = N - i
  OBVIOUS
<1>6. ASSUME NEW j \in S PROVE j <= i
  <2>1. ~ (N - j < N - i)
    BY <1>4, <1>5
  <2> QED BY <1>1, <2>1
<1>7. \E k \in S : \A j \in S : j <= k
  BY <1>6
<1> QED BY <1>7 DEF Last

\* Entries keep their names, and the youngest writer of a register its place:
\* what retires is older, and what is issued has the name that is current then.
LEMMA NamesStay ==
  ASSUME SbInv, UnitInv, NameInv, NEW outcome, NEW issue, NEW wbs, NEW div_done, NEW done,
         Edge(outcome, issue, wbs, div_done, done), ~flush_id(outcome)
  PROVE  NameInv'
<1> DEFINE r == issue_q.rd
<1>1. issue => /\ issue_pointer \in Ids /\ mem'[issue_pointer].issued /\ r \in Regs
               /\ mem'[issue_pointer].rd = Destination(r) /\ Destination(r)[1] = r
               /\ issue_pointer \in Issued'
  <2> HAVE issue
  <2>1. issue_pointer \in Ids /\ issue_q # None /\ mem'[issue_pointer] = NewEntry(wbs)
        /\ mem'[issue_pointer].issued
    BY StayFacts, AgeFacts
  <2>2. NewEntry(wbs).rd = Destination(r)
    BY <2>1, NewEntryFacts
  <2> QED BY <2>1, <2>2, NameFacts DEF Issued
<1>2. ASSUME NEW i \in Ids, mem'[i].issued
      PROVE  \/ issue /\ i = issue_pointer
             \/ /\ i \in Issued /\ ~(Age(i) < Retired(outcome)) /\ mem'[i].rd = mem[i].rd
                /\ issue => \A p \in Ids : p = issue_pointer => Age(i)' < Age(p)'
                /\ mem[i].rd \in Names /\ mem[i].rd[1] \in Regs
  <2>1. mem[i] \in Entry \cup {Free}
    BY DEF SbInv, TypeOK, Entry
  <2>2. mem[i].issued => mem[i].rd \in Names
    <3>1. mem[i].issued => mem[i] \in Entry
      BY <2>1 DEF Free
    <3> QED BY <3>1 DEF Entry
  <2>3. mem[i].issued => mem[i].rd[1] \in Regs
    BY <2>2 DEF Names
  <2>4. CASE issue /\ i = issue_pointer
    BY <2>4
  <2>5. CASE ~(issue /\ i = issue_pointer)
    <3>1. mem[i].issued /\ ~(Age(i) < Retired(outcome)) /\ mem'[i].rd = mem[i].rd
      BY <1>2, <2>5, StayFacts
    <3>2. issue => \A p \in Ids : p = issue_pointer => Age(i)' < Age(p)'
      BY <1>1, <3>1, OrderFacts
    <3> QED BY <2>2, <2>3, <3>1, <3>2 DEF Issued
  <2> QED BY <2>4, <2>5
<1>3. ASSUME ~ENABLE_RENAME, NEW i \in Issued' PROVE mem'[i].rd = <<mem'[i].rd[1], 0>>
  <2>1. i \in Ids /\ mem'[i].issued
    BY DEF Issued
  <2>2. CASE issue /\ i = issue_pointer
    <3>1. Destination(r) = <<r, 0>>
      BY <1>1, <1>3, <2>2, NameFacts
    <3> QED BY <1>1, <2>2, <3>1
  <2>3. CASE i \in Issued /\ mem'[i].rd = mem[i].rd
    BY <1>3, <2>3 DEF NameInv
  <2> QED BY <1>2, <2>1, <2>2, <2>3
<1>4. ASSUME NEW i \in Issued', NEW q, mem'[i].rd[1] = q, q # 0, mem'[i].rd # Source(q)'
      PROVE  \E j \in Issued' : mem'[j].rd = Source(q)' /\ Age(i)' < Age(j)'
  <2>1. i \in Ids /\ mem'[i].issued
    BY DEF Issued
  <2>2. ~(issue /\ i = issue_pointer)
    <3> SUFFICES ASSUME issue, i = issue_pointer PROVE FALSE
      OBVIOUS
    <3>1. q = r /\ mem'[i].rd = Destination(r) /\ q \in Regs
      BY <1>1, <1>4
    <3>2. Source(q)' = Destination(r)
      BY <1>4, <3>1, NameFacts
    <3> QED BY <1>4, <3>1, <3>2
  <2>3. /\ i \in Issued /\ ~(Age(i) < Retired(outcome)) /\ mem'[i].rd = mem[i].rd
        /\ issue => \A p \in Ids : p = issue_pointer => Age(i)' < Age(p)'
        /\ mem[i].rd \in Names /\ q \in Regs /\ q = mem[i].rd[1]
    BY <1>2, <1>4, <2>1, <2>2
  <2>4. CASE issue /\ q = r
    <3>1. Source(q)' = Destination(r)
      BY <1>1, <1>4, <2>3, <2>4, NameFacts
    <3>2. PICK p \in Ids : p = issue_pointer
      BY <1>1, <2>4
    <3>3. p \in Issued' /\ mem'[p].rd = Source(q)' /\ Age(i)' < Age(p)'
      BY <1>1, <2>3, <2>4, <3>1, <3>2 DEF Issued
    <3> QED BY <3>3
  <2>5. CASE ~(issue /\ q = r)
    <3>1. Source(q)' = Source(q)
      BY <2>3, <2>5, NameFacts
    <3>2. PICK j \in Issued : mem[j].rd = Source(q) /\ Age(i) < Age(j)
      BY <1>4, <2>3, <3>1 DEF NameInv
    <3>3. j \in Ids /\ mem[j].issued
      BY DEF Issued
    <3>4. ~(Age(j) < Retired(outcome))
      <4>1. outcome \in Outcomes
        BY DEF Edge
      <4>2. Age(i) \in Nat /\ Age(j) \in Nat /\ Retired(outcome) \in Nat
        BY <2>1, <3>3, <4>1, AgeFacts, RetireFacts, RingFacts DEF Ids, N
      <4> QED BY <2>3, <3>2, <4>2
    <3>5. mem'[j].rd = mem[j].rd /\ j \in Issued'
      BY <3>3, <3>4, StayFacts DEF Issued
    <3>6. Age(i)' < Age(j)'
      BY <2>1, <2>3, <3>2, <3>3, <3>4, OrderFacts
    <3> QED BY <3>1, <3>2, <3>5, <3>6
  <2> QED BY <2>4, <2>5
<1>5. ASSUME NEW i \in Issued', mem'[i].rd[1] # 0,
             mem'[i].rd # <<mem'[i].rd[1], name_bit(re_name_table'[mem'[i].rd[1]])>>
      PROVE  \E j \in Issued' :
               /\ mem'[j].rd = <<mem'[i].rd[1], name_bit(re_name_table'[mem'[i].rd[1]])>>
               /\ Age(i)' < Age(j)'
  BY <1>4, <1>5 DEF Source, name_bit
<1> QED BY <1>3, <1>5 DEF NameInv, Source, name_bit

LEMMA WriterStep ==
  ASSUME Inv, WriterInv, [Next]_vars
  PROVE  WriterInv'
<1>1. ASSUME NEW outcome, NEW issue, NEW wbs, NEW div_done, NEW done,
             Edge(outcome, issue, wbs, div_done, done), ~flush_id(outcome)
      PROVE  WriterInv'
  <2> DEFINE new == NewEntry(wbs)
             r   == issue_q.rd
  <2>1. SbInv /\ UnitInv
    BY DEF Inv
  <2>2. issue => /\ issue_pointer \in Ids /\ mem'[issue_pointer] = new /\ r \in Regs
                 /\ mem'[issue_pointer].issued
                 /\ new.rd = Destination(r) /\ new.ex = issue_q.ex /\ new.rd[1] = r
    <3> HAVE issue
    <3>1. issue_pointer \in Ids /\ issue_q # None /\ mem'[issue_pointer] = new
          /\ mem'[issue_pointer].issued
      BY <1>1, <2>1, StayFacts, AgeFacts
    <3>2. new.rd = Destination(r) /\ new.ex = issue_q.ex
      BY <2>1, <3>1, NewEntryFacts
    <3>3. r \in Regs /\ Destination(r)[1] = r
      BY <1>1, <2>1, NameFacts
    <3> QED BY <3>1, <3>2, <3>3
  <2>3. ASSUME NEW i \in Ids, mem'[i].issued
        PROVE  \/ issue /\ i = issue_pointer
               \/ /\ i \in Issued /\ ~(Age(i) < Retired(outcome)) /\ mem'[i].rd = mem[i].rd
                  /\ mem[i].ex => mem'[i].ex
                  /\ ~(issue /\ i = issue_pointer)
    BY <1>1, <2>1, <2>3, StayFacts DEF Issued
  <2>4. \A i \in Issued : i \in Ids /\ mem[i].issued /\ mem[i].rd \in Names /\ mem[i].rd[1] \in Regs
    <3>1. \A i \in Ids : mem[i] \in Entry \cup {Free}
      BY <2>1 DEF SbInv, TypeOK, Entry
    <3>2. \A i \in Issued : i \in Ids /\ mem[i].issued /\ mem[i] \in Entry
      BY <3>1 DEF Issued, Free
    <3>3. \A i \in Issued : mem[i].rd \in Names
      BY <3>2 DEF Entry
    <3> QED BY <3>2, <3>3 DEF Names
  <2>5. NameInv'
    BY <1>1, <2>1, <2>2, <2>3, <2>4, NamesStay DEF WriterInv
  <2>6. ASSUME issue, ~issue_q.ex, r # 0, \A k \in Issued : ~mem[k].ex,
               NEW j \in Issued, ~(Age(j) < Retired(outcome)), mem[j].rd = Destination(r)
        PROVE  FALSE
    <3>1. WawFree(outcome) /\ outcome \in Outcomes
      BY <1>1, <2>6 DEF Edge, issue_ack
    <3>2. rd_clobber(Destination(r)) # None
      <4>1. j \in Writers(Destination(r))
        BY <2>4, <2>6 DEF Writers
      <4> DEFINE w == Last(Writers(Destination(r)))
      <4>2. w \in Ids /\ mem[w].issued
        <5>1. Writers(Destination(r)) \subseteq Ids
          BY DEF Writers
        <5>2. w \in Writers(Destination(r))
          BY <4>1, <5>1, LastFacts
        <5> QED BY <5>2 DEF Writers
      <4>3. mem[w].fu \in Fus
        <5>1. \A i \in Ids : mem[i] \in Entry \cup {Free}
          BY <2>1 DEF SbInv, TypeOK, Entry
        <5> HIDE DEF w
        <5>2. mem[w] \in Entry
          BY <4>2, <5>1 DEF Free
        <5> QED BY <5>2 DEF Entry
      <4>4. Destination(r)[1] # 0
        BY <2>2, <2>6
      <4> QED BY <4>1, <4>3, <4>4, InstrAssumption DEF rd_clobber
    \* An older writer of the register retires in this cycle ...
    <3>3. PICK i \in Retiring(outcome) : <<mem[i].rd[1], 0>> = Destination(r)
      BY <3>1, <3>2 DEF WawFree
    <3>4. i \in Issued /\ Age(i) < Retired(outcome) /\ mem[i].rd[1] = r /\ i # j
      <4>1. i \in Ids /\ Age(i) < Retired(outcome) /\ mem[i].issued
        BY <2>1, <3>1, <3>3, RetireFacts DEF Retiring
      <4> QED BY <2>2, <2>6, <3>3, <4>1 DEF Issued
    \* ... so one of the two names has two writers.
    <3>5. CASE mem[i].rd = mem[j].rd
      BY <2>2, <2>6, <3>4, <3>5, OneWriter DEF WriterInv
    <3>6. CASE mem[i].rd # mem[j].rd
      <4>1. ENABLE_RENAME
        <5>1. ~ENABLE_RENAME => mem[i].rd = <<r, 0>> /\ mem[j].rd = <<r, 0>>
          BY <1>1, <2>1, <2>2, <2>6, <3>4, NameFacts, ZenonT(40) DEF WriterInv, NameInv
        <5> QED BY <3>6, <5>1
      <4>2. Source(r) # Destination(r) /\ mem[i].rd = Source(r)
        BY <1>1, <2>1, <2>2, <2>4, <2>6, <3>4, <3>6, <4>1, NameFacts, ZenonT(40)
      <4>3. mem[j].rd[1] = r /\ mem[j].rd # Source(r)
        BY <2>2, <2>6, <4>2
      <4>4. PICK k \in Issued : mem[k].rd = Source(r) /\ Age(j) < Age(k)
        BY <2>6, <4>3 DEF WriterInv, NameInv
      <4>5. k = i
        BY <2>6, <3>4, <4>2, <4>4, OneWriter DEF WriterInv
      <4>6. Age(i) \in Nat /\ Age(j) \in Nat /\ Retired(outcome) \in Nat
        BY <2>1, <2>4, <3>1, <3>4, AgeFacts, RetireFacts, RingFacts DEF Ids, N
      <4> QED BY <2>6, <3>4, <4>4, <4>5, <4>6
    <3> QED BY <3>5, <3>6
  <2>7. ASSUME NEW j \in Issued, ~(Age(j) < Retired(outcome)), Doomed(j) \/ mem[j].ex
        PROVE  Doomed(j)' \/ mem'[j].ex
    BY <1>1, <2>1, <2>4, <2>7, DoomStays, StayFacts
  <2>8. ASSUME issue, NEW j \in Issued, ~(Age(j) < Retired(outcome)),
               mem[j].rd = Destination(r), r # 0, NEW p \in Ids, p = issue_pointer
        PROVE  Doomed(p)' \/ mem'[p].ex
    <3>1. CASE issue_q.ex
      BY <2>2, <2>8, <3>1
    <3>2. CASE \E k \in Issued : mem[k].ex
      BY <1>1, <2>2, <2>8, <3>2, DoomStays
    <3>3. CASE ~issue_q.ex /\ \A k \in Issued : ~mem[k].ex
      BY <2>6, <2>8, <3>3
    <3> QED BY <3>1, <3>2, <3>3
  <2>9. SingleWriter'
    <3> SUFFICES ASSUME NEW i \in Ids, NEW j \in Ids, mem'[i].issued, mem'[j].issued,
                        i # j, mem'[i].rd = mem'[j].rd, mem'[i].rd[1] # 0
                 PROVE  Doomed(i)' \/ Doomed(j)' \/ mem'[i].ex \/ mem'[j].ex
      BY DEF SingleWriter, Issued
    <3>1. CASE issue /\ i = issue_pointer
      <4>1. j \in Issued /\ ~(Age(j) < Retired(outcome)) /\ mem'[j].rd = mem[j].rd
        BY <2>3, <3>1
      <4>2. mem[j].rd = Destination(r) /\ r # 0
        BY <2>2, <3>1, <4>1
      <4> QED BY <2>8, <3>1, <4>1, <4>2
    <3>2. CASE issue /\ j = issue_pointer
      <4>1. i \in Issued /\ ~(Age(i) < Retired(outcome)) /\ mem'[i].rd = mem[i].rd
        BY <2>3, <3>2
      <4>2. mem[i].rd = Destination(r) /\ r # 0
        BY <2>2, <3>2, <4>1
      <4> QED BY <2>8, <3>2, <4>1, <4>2
    <3>3. CASE /\ i \in Issued /\ ~(Age(i) < Retired(outcome)) /\ mem'[i].rd = mem[i].rd
               /\ j \in Issued /\ ~(Age(j) < Retired(outcome)) /\ mem'[j].rd = mem[j].rd
      BY <2>7, <3>3 DEF WriterInv, SingleWriter
    <3> QED BY <2>3, <3>1, <3>2, <3>3
  <2> QED BY <2>5, <2>9 DEF WriterInv
<1>2. ASSUME NEW outcome, NEW issue, NEW wbs, NEW div_done, NEW done,
             Edge(outcome, issue, wbs, div_done, done), flush_id(outcome)
      PROVE  WriterInv'
  <2>1. mem' = [i \in Ids |-> Free]
    BY <1>2, FlushFacts
  <2>2. \A i \in Ids : ~mem'[i].issued
    BY <2>1 DEF Free
  <2> QED BY <2>2 DEF WriterInv, NameInv, SingleWriter, Issued
<1>3. CASE UNCHANGED vars
  BY <1>3 DEF vars, sbVars, WriterInv, NameInv, SingleWriter, Issued, Doomed, Age,
     Source, name_bit
<1> QED BY <1>1, <1>2, <1>3, NextIsEdge

LEMMA InvPointers == SbInv => TypeOK /\ PointersAgree
<1> SUFFICES ASSUME SbInv PROVE PointersAgree
  BY DEF SbInv
<1>1. Ids = 0 .. N - 1 /\ N \in Nat /\ issue_cnt \in Ids
  BY RingFacts, AgeFacts DEF Ids, N
<1>2. ASSUME NEW i \in Issued PROVE \E k \in 0 .. issue_cnt - 1 : i = Plus(commit_pointer, k)
  <2>1. i \in Ids /\ Age(i) < issue_cnt /\ Age(i) \in Ids /\ Plus(commit_pointer, Age(i)) = i
    BY AgeFacts DEF SbInv, Issued
  <2>2. Age(i) \in 0 .. issue_cnt - 1
    BY <1>1, <2>1
  <2> QED BY <2>1, <2>2
<1>3. ASSUME NEW k \in 0 .. issue_cnt - 1 PROVE Plus(commit_pointer, k) \in Issued
  <2>1. k \in Ids /\ k < issue_cnt
    BY <1>1
  <2>2. Plus(commit_pointer, k) \in Ids /\ Age(Plus(commit_pointer, k)) = k
    BY <2>1, AgeFacts
  <2> QED BY <2>1, <2>2 DEF SbInv, Issued
<1> QED BY <1>2, <1>3 DEF PointersAgree, SbInv

\* The scoreboard's entries are those in flight, in order, and each is the only
\* one to write its register, or the name of it that it got, up to the next
\* exception (scoreboard.sv; issue_read_operands.sv, the WAW check).
THEOREM ScoreboardRight == Spec => []ScoreboardConsistent
<1>1. Init => WriterInv
  BY DEF Init, WriterInv, NameInv, SingleWriter, Issued, Free
<1>2. WriterInv /\ Inv /\ [Next]_vars => WriterInv'
  BY WriterStep
<1>3. Spec => []Inv
  BY InvAlways
<1>4. Inv /\ WriterInv => ScoreboardConsistent
  BY InvPointers DEF Inv, WriterInv, ScoreboardConsistent
<1> QED BY <1>1, <1>2, <1>3, <1>4, PTL DEF Spec


----------------------------------------------------------------------------
(***************************************************************************)
(* Operands.                                                               *)
(***************************************************************************)
NoResult == {"STORE", "AMO", "FENCE"}

\* An operand read while no exception is in the scoreboard is right.
LEMMA OperandFacts ==
  ASSUME Inv, ResultInv(NoResult), WriterInv, RegfileRight,
         \A k \in Issued : ~mem[k].ex,
         NEW wbs,
         \A w \in wbs : /\ w.id \in InFlight /\ w.port \in {1, 2, 3}
                        /\ w.good \/ mem[w.id].fu \in {"STORE", "AMO", "CSR", "FENCE"},
         NEW r \in Regs, NEW other, NEW offer,
         offer = Offer(Source(r), other, wbs) \/ offer = None,
         ~Stalls(Source(r), offer)
  PROVE  Right(r, Source(r), offer)
<1> DEFINE name == Source(r)
           W    == Writers(name)
           all  == {i \in Ids : mem[i].issued /\ mem[i].rd[1] = r}
           k    == Last(W)
<1>1. SbInv /\ UnitInv
  BY DEF Inv
<1>2. name[1] = r
  BY DEF Source
\* Behind a writer with the other name there is one with this.
<1>6. ASSUME r # 0, NEW i \in all, mem[i].rd # name
      PROVE  \E j \in W : Age(i) < Age(j)
  <2>1. i \in Issued /\ mem[i].rd[1] = r
    BY DEF Issued
  <2>2. PICK j \in Issued : mem[j].rd = name /\ Age(i) < Age(j)
    BY <1>6, <2>1 DEF WriterInv, NameInv
  <2> QED BY <2>2 DEF Writers, Issued
<1>7. W \subseteq all /\ all \subseteq Ids /\ \A i \in all : mem[i].rd = name => i \in W
  BY <1>2 DEF Writers
<1>3. CASE r = 0
  BY <1>3 DEF Right
<1>4. CASE r # 0 /\ W = {}
  <2>1. rd_clobber(name) = None
    BY <1>4 DEF rd_clobber
  <2>2. all = {} /\ regfile[r]
    BY <1>4, <1>6, <1>7 DEF RegfileRight
  <2> QED BY <2>1, <2>2 DEF Right
<1>5. CASE r # 0 /\ W # {}
  <2>1. k \in W
    <3>1. W \in SUBSET Ids
      BY DEF Writers
    <3> HIDE DEF W
    <3> QED BY <1>5, <3>1, LastFacts
  <2>2. k \in Issued /\ mem[k].rd = name
    BY <2>1 DEF Writers, Issued
  <2>3. \A i \in W : i = k
    <3>1. \A i \in W : i \in Issued /\ mem[i].rd = mem[k].rd /\ mem[i].rd[1] # 0
      BY <1>2, <1>5, <2>2 DEF Writers, Issued
    <3>2. SingleWriter
      BY DEF WriterInv
    <3> HIDE DEF W, k
    <3> QED BY <2>2, <3>1, <3>2, OneWriter
  <2>4. rd_clobber(name) = mem[k].fu /\ mem[k].fu \in Fus
    <3>1. mem[k] \in Entry
      <4>1. \A i \in Ids : mem[i] \in Entry \cup {Free}
        BY <1>1 DEF SbInv, TypeOK, Entry
      <4> HIDE DEF k
      <4> QED BY <2>2, <4>1 DEF Issued, Free
    <3>2. rd_clobber(name) = mem[k].fu
      BY <1>2, <1>5 DEF rd_clobber
    <3> HIDE DEF k
    <3> QED BY <3>1, <3>2 DEF Entry
  <2>5. offer # None /\ mem[k].fu \notin IsCsr /\ rd_clobber(name) # None
    <3>1. mem[k].fu # None
      BY <2>4, InstrAssumption
    <3> QED BY <2>4, <3>1 DEF Stalls, Forwardable
  <2>6. mem[k].fu \notin {"STORE", "AMO", "CSR", "FENCE"} /\ ~mem[k].ex
    <3> HIDE DEF k
    <3>1. mem[k].rd[1] = r
      BY <1>2, <2>2
    <3> QED BY <1>5, <2>2, <2>5, <3>1 DEF ResultInv, NoResult, IsCsr
  <2>7. offer.id = k /\ offer.good
    <3> DEFINE w == FirstPort({name, other}, wbs)
    <3>1. CASE w # None /\ mem[w.id].rd = name
      <4>1. offer = [id |-> w.id, good |-> w.good]
        BY <1>2, <1>5, <2>5, <3>1 DEF Offer
      <4>2. w \in wbs
        <5> DEFINE ws == {v \in wbs : mem[v.id].rd \in {name, other} /\ ~v.ex}
        <5>1. ws # {} /\ w = CHOOSE u \in ws : \A v \in ws : u.port <= v.port
          BY <3>1 DEF FirstPort
        <5>2. \A v \in ws : v \in wbs /\ v.port \in {1, 2, 3}
          OBVIOUS
        <5> HIDE DEF ws, w
        <5>3. \E u \in ws : \A v \in ws : u.port <= v.port
          <6>1. CASE \E u \in ws : u.port = 1
            BY <5>2, <6>1
          <6>2. CASE ~(\E u \in ws : u.port = 1) /\ \E u \in ws : u.port = 2
            BY <5>2, <6>2
          <6>3. CASE \A u \in ws : u.port = 3
            BY <5>1, <5>2, <6>3
          <6> QED BY <5>2, <6>1, <6>2, <6>3
        <5> QED BY <5>1, <5>2, <5>3
      <4> HIDE DEF w
      <4>3. w.id \in W
        BY <1>1, <3>1, <4>2 DEF UnitInv, Writers
      <4>4. w.id = k
        BY <2>3, <4>3
      <4> QED BY <2>6, <4>1, <4>2, <4>4
    <3>2. CASE ~(w # None /\ mem[w.id].rd = name)
      <4>1. offer = FromEntry(name)
        BY <1>2, <1>5, <2>5, <3>2 DEF Offer
      <4>2. mem[k].valid /\ offer = [id |-> k, good |-> mem[k].good /\ ~mem[k].ex]
        BY <2>5, <4>1 DEF FromEntry
      <4>3. mem[k].good
        BY <2>2, <2>6, <4>2 DEF ResultInv
      <4> HIDE DEF k
      <4> QED BY <2>6, <4>2, <4>3
    <3> QED BY <3>1, <3>2
  <2>8. (CHOOSE i \in all : \A j \in all : Age(j) <= Age(i)) = k
    <3>1. \A i \in all : i # k => Age(i) < Age(k)
      <4> SUFFICES ASSUME NEW i \in all, i # k PROVE Age(i) < Age(k)
        OBVIOUS
      <4>1. mem[i].rd # name
        BY <1>7, <2>3
      <4> HIDE DEF W, all, k
      <4> QED BY <1>5, <1>6, <2>3, <4>1
    <3>2. \A i \in all : Age(i) \in Nat
      <4>1. \A i \in Ids : Age(i) \in Ids
        BY <1>1, AgeFacts
      <4>2. Ids \subseteq Nat
        BY RingFacts DEF Ids, N
      <4> HIDE DEF all
      <4> QED BY <1>7, <4>1, <4>2
    <3>3. k \in all
      <4> HIDE DEF W, all, k
      <4> QED BY <1>7, <2>1
    <3> HIDE DEF all, k
    <3>4. \A j \in all : Age(j) <= Age(k)
      BY <3>1, <3>2, <3>3
    <3>5. ASSUME NEW i \in all, \A j \in all : Age(j) <= Age(i) PROVE i = k
      BY <3>1, <3>2, <3>3, <3>5
    <3> QED BY <3>3, <3>4, <3>5
  <2>9. all # {}
    BY <1>5, <1>7
  <2> HIDE DEF k, W
  <2> QED BY <2>5, <2>7, <2>8, <2>9 DEF Right, Age
<1> QED BY <1>3, <1>4, <1>5


LEMMA OperandStep ==
  ASSUME Inv, ResultInv(NoResult), WriterInv, RegfileRight,
         WrongOperandsNeverRetire, [Next]_vars
  PROVE  WrongOperandsNeverRetire'
<1>1. ASSUME NEW outcome, NEW issue, NEW wbs, NEW div_done, NEW done,
             Edge(outcome, issue, wbs, div_done, done), ~flush_id(outcome),
             NEW i \in Ids, mem'[i].issued, ~mem'[i].ok
      PROVE  Doomed(i)'
  <2>1. SbInv /\ UnitInv
    BY DEF Inv
  <2>2. CASE mem[i].issued /\ ~(Age(i) < Retired(outcome))
    <3>1. ~mem[i].ok
      BY <1>1, <2>1, <2>2, StayFacts
    <3>2. Doomed(i)
      BY <2>2, <3>1 DEF WrongOperandsNeverRetire, Issued
    <3> QED BY <1>1, <2>2, <3>2, DoomStays
  <2>3. CASE issue /\ i = issue_pointer /\ mem'[i] = NewEntry(wbs)
    <3>1. CASE \E k \in Issued : mem[k].ex
      BY <1>1, <2>3, <3>1, DoomStays
    <3>2. CASE \A k \in Issued : ~mem[k].ex
      <4>1. issue_q # None
        BY <1>1, <2>1, <2>3, StayFacts
      <4>2. issue_q \in Instruction /\ ~issue_q.ex /\ ~OperandsRight(wbs)
        BY <1>1, <2>1, <2>3, <4>1, NewEntryFacts
      <4>3. issue_q.rs1 \in Regs /\ issue_q.rs2 \in Regs
        BY <4>2 DEF Instruction
      <4>4. /\ ~Stalls(Source(issue_q.rs1), rs1_offer(wbs))
            /\ ~Stalls(Source(issue_q.rs2), rs2_offer(wbs))
        BY <1>1, <2>3, <4>2 DEF Edge, issue_ack
      <4>5. \A w \in wbs : /\ w.id \in InFlight /\ w.port \in {1, 2, 3}
                           /\ w.good \/ mem[w.id].fu \in {"STORE", "AMO", "CSR", "FENCE"}
        BY <1>1, <2>1, WriteBackFacts
      <4>6. Right(issue_q.rs1, Source(issue_q.rs1), rs1_offer(wbs))
        BY <3>2, <4>3, <4>4, <4>5, OperandFacts DEF rs1_offer
      <4>7. Right(issue_q.rs2, Source(issue_q.rs2), rs2_offer(wbs))
        <5>1. \/ rs2_offer(wbs) = Offer(Source(issue_q.rs2), Source(issue_q.rs1), wbs)
              \/ rs2_offer(wbs) = None
          BY DEF rs2_offer
        <5> QED BY <3>2, <4>3, <4>4, <4>5, <5>1, OperandFacts
      <4> QED BY <4>2, <4>6, <4>7 DEF OperandsRight
    <3> QED BY <3>1, <3>2
  <2> QED BY <1>1, <2>1, <2>2, <2>3, StayFacts
<1>2. ASSUME NEW outcome, NEW issue, NEW wbs, NEW div_done, NEW done,
             Edge(outcome, issue, wbs, div_done, done), flush_id(outcome)
      PROVE  WrongOperandsNeverRetire'
  <2>1. mem' = [i \in Ids |-> Free]
    BY <1>2, FlushFacts
  <2>2. \A i \in Ids : ~mem'[i].issued
    BY <2>1 DEF Free
  <2> QED BY <2>2 DEF WrongOperandsNeverRetire, Issued
<1>3. CASE UNCHANGED vars
  BY <1>3 DEF vars, sbVars, WrongOperandsNeverRetire, Issued, Doomed, Age
<1> QED BY <1>1, <1>2, <1>3, NextIsEdge DEF WrongOperandsNeverRetire, Issued

\* What forwarding and the register file hand to an instruction is what the
\* instructions before it compute, or an exception ahead of it flushes it
\* (scoreboard.sv, issue_read_operands.sv, re_name.sv), when no instruction that
\* writes back no result (a store, an AMO, a fence) has a destination.  An AMO
\* with one does break this (MCIssueStageAmo).
THEOREM OperandsRetireRight ==
  ASSUME NoDestination(NoResult)
  PROVE  Spec => []WrongOperandsNeverRetire
<1> DEFINE J == /\ ResultInv(NoResult) /\ WriterInv /\ RegfileRight
                /\ WrongOperandsNeverRetire
<1>1. Init => J
  BY InstrAssumption DEF Init, ResultInv, WriterInv, NameInv, SingleWriter, RegfileRight,
     WrongOperandsNeverRetire, Issued, Free
<1>2. ASSUME J, Inv, [Next]_vars PROVE J'
  <2>1. ResultInv(NoResult)'
    BY <1>2, ResultStep
  <2>2. WriterInv'
    BY <1>2, WriterStep
  <2>3. RegfileRight'
    <3>1. ResultInv({"STORE", "FENCE"})
      BY <1>2 DEF ResultInv, NoResult
    <3> QED BY <1>2, <3>1, RegfileStep
  <2>4. WrongOperandsNeverRetire'
    BY <1>2, OperandStep
  <2> QED BY <2>1, <2>2, <2>3, <2>4
<1>3. Spec => []Inv
  BY InvAlways
<1>4. J => WrongOperandsNeverRetire
  OBVIOUS
<1>5. J /\ Inv /\ [Next]_vars => J'
  BY <1>2
<1> HIDE DEF J
<1> QED BY <1>1, <1>3, <1>4, <1>5, PTL DEF Spec

=============================================================================

------------------------- MODULE MemoryPromotionProofs -------------------------
(***************************************************************************)
(* Proofs about MemoryPromotion for every set of promoters and proposals   *)
(* and every bound on time and losses.                                     *)
(*                                                                         *)
(* What makes the properties inductive: the lock of a memory keeps a       *)
(* commit out between a rebuild's read and its write, so that what was     *)
(* read is still all there is; the revisions promoted of a memory are an   *)
(* initial segment of the numbers, so that a revision promoted after rows  *)
(* were lost is either the next one or a second one of its number, which   *)
(* the rebuild refuses from then on; and without a second one the          *)
(* revisions are in the order of their events.                             *)
(*                                                                         *)
(* The store is a ledger es, its rows rs, the results ts told to callers   *)
(* and the memories ls whose rows are lost.  What holds of it is stated    *)
(* about these four, so that the lemmas on what a commit, a rebuild and a  *)
(* loss preserve speak of values and not of steps.                         *)
(***************************************************************************)
EXTENDS MemoryPromotion, TLAPS, FiniteSetTheorems, SequenceTheorems

Events == [kind : {"source", "memory.promoted"}, source : Sources,
           proposal : Proposals \cup {None}, at : 0..MaxTime, whole : BOOLEAN]
PCs == {"idle", "validated", "locked", "promoting", "rebuilding"}

Typed ==
    /\ ledger \in Seq(Events)
    /\ now \in 0..MaxTime
    /\ pc \in [Promoters -> PCs]
    /\ job \in [Promoters -> Proposals \cup Memories \cup {None}]
    /\ read \in [Promoters -> SUBSET DOMAIN ledger]
    /\ lost \subseteq Memories
    /\ losses \in 0..MaxLosses

(* Event i of es is a promotion; the promotions and the rows of memory m. *)
IsPromotion(es, i) == i \in DOMAIN es /\ es[i].kind = "memory.promoted"
Promotions(es, m) == {i \in DOMAIN es : IsPromotion(es, i) /\ es[i].proposal.memory = m}
Rev(es, i) == Revision(es[i].proposal)
RowsIn(rs, m) == {r \in rs : r.proposal.memory = m}
RowAt(es, i) == [proposal |-> es[i].proposal, event |-> i]

(* Each promotion has a proposal of its own, in force and after its source. *)
EventsGood(es) ==
    \A i \in DOMAIN es : IsPromotion(es, i) =>
        /\ es[i].proposal \in Proposals
        /\ es[i].at < es[i].proposal.until
        /\ es[i].at < es[i].proposal.ends
        /\ \E j \in 1..(i - 1) : es[j].kind = "source" /\ es[j].source = es[i].source

(* A row, and a result told, is a promotion of the ledger. *)
OnRecord(es, rs) ==
    \A r \in rs : /\ r \in [proposal : Proposals, event : DOMAIN es]
                  /\ IsPromotion(es, r.event)
                  /\ es[r.event].proposal = r.proposal

(* The revisions stored of a memory: 1 to their number, each once. *)
Numbered(rs) ==
    /\ IsFiniteSet(rs)
    /\ {Revision(r.proposal) : r \in rs} = 1..Cardinality(rs)
    /\ \A r, s \in rs : Revision(r.proposal) = Revision(s.proposal) => r = s

(* The revisions of a memory in the ledger: 1 to some number, and in order *)
(* unless one was promoted a second time.                                  *)
Segment(es, m) == \E n \in Nat : {Rev(es, i) : i \in Promotions(es, m)} = 1..n

Repeated(es, m) == \E i, j \in Promotions(es, m) : i # j /\ Rev(es, i) = Rev(es, j)

InOrder(es, m) ==
    Repeated(es, m) \/ \A i, j \in Promotions(es, m) : i < j => Rev(es, i) < Rev(es, j)

(* Unless rows were lost, those of a memory are its promotions. *)
Projected(es, rs, m) == RowsIn(rs, m) = {RowAt(es, i) : i \in Promotions(es, m)}

(* Of a proposal identifier, one promotion was made while no rows were     *)
(* missing.                                                                *)
WholeOnce(es) ==
    \A i, j \in DOMAIN es :
        /\ IsPromotion(es, i) /\ es[i].whole
        /\ IsPromotion(es, j) /\ es[j].whole
        /\ es[i].proposal.id = es[j].proposal.id
        => i = j

StoreGood(es, rs, ts, ls) ==
    /\ EventsGood(es)
    /\ OnRecord(es, rs)
    /\ OnRecord(es, ts)
    /\ \A m \in Memories : Numbered(RowsIn(rs, m))
    /\ \A m \in Memories : Segment(es, m) /\ InOrder(es, m)
    /\ \A m \in Memories \ ls : Projected(es, rs, m)
    /\ WholeOnce(es)

StoreInv == StoreGood(ledger, rows, told, lost)

Holding == {"locked", "promoting"}

(* The events read for a memory are its promotions, each revision once. *)
ReadGood(es, I, m) ==
    /\ I = Promotions(es, m)
    /\ {Rev(es, i) : i \in I} = 1..Cardinality(I)

(* What a promoter's job is, and what its rebuild read still is. *)
PromoterGood(es, l, j, I) ==
    /\ l \in {"validated"} \cup Holding => j \in Proposals
    /\ l = "rebuilding" => j \in Memories /\ ReadGood(es, I, j)

Apart(lc, jc, ld, jd) == lc = "rebuilding" /\ ld \in Holding => jd.memory # jc

PromotersInv ==
    /\ \A c \in Promoters : PromoterGood(ledger, pc[c], job[c], read[c])
    /\ \A c, d \in Promoters : Apart(pc[c], job[c], pc[d], job[d])

IndInv == Typed /\ StoreInv /\ PromotersInv

-----------------------------------------------------------------------------
(* The model's operators over the variables *)

LEMMA Reads ==
    /\ \A m : PromotedOf(m) = Promotions(ledger, m) /\ RowsOf(m) = RowsIn(rows, m)
    /\ \A i : Row(i) = RowAt(ledger, i)
BY DEF PromotedOf, Promotions, IsPromotion, RowsOf, RowsIn, Row, RowAt

LEMMA ProposalIs ==
    ASSUME NEW p \in Proposals
    PROVE  /\ p.expected \in Nat /\ p.until \in Nat /\ p.ends \in Nat /\ p # None
           /\ Revision(p) = p.expected + 1 /\ Revision(p) \in Nat \ {0}
           /\ p.memory \in Memories /\ p.source \in Sources
<1>1. p.expected \in Nat /\ p.until \in Nat /\ p.ends \in Nat /\ p # None
  BY ProposalAssumption
<1>2. Revision(p) = p.expected + 1 /\ Revision(p) \in Nat \ {0}
  BY <1>1 DEF Revision
<1> QED BY <1>1, <1>2 DEF Memories, Sources

LEMMA PromotionIs ==
    ASSUME NEW es, EventsGood(es), NEW m, NEW i \in Promotions(es, m)
    PROVE  /\ i \in DOMAIN es /\ IsPromotion(es, i)
           /\ es[i].proposal \in Proposals /\ es[i].proposal.memory = m
           /\ Rev(es, i) = Revision(es[i].proposal) /\ Rev(es, i) \in Nat \ {0}
<1>1. i \in DOMAIN es /\ IsPromotion(es, i) /\ es[i].proposal.memory = m
  BY DEF Promotions
<1>2. es[i].proposal \in Proposals
  BY <1>1 DEF EventsGood
<1> QED BY <1>1, <1>2, ProposalIs DEF Rev

(* The largest element of a set of numbers. *)
LEMMA MaxIs ==
    ASSUME NEW S \in SUBSET Int, NEW x \in S, \A y \in S : x >= y
    PROVE  Max(S) = x
<1>1. Max(S) \in S /\ \A y \in S : Max(S) >= y
  BY DEF Max
<1>2. Max(S) \in Int /\ x \in Int /\ x >= Max(S) /\ Max(S) >= x
  BY <1>1
<1> QED BY <1>2

-----------------------------------------------------------------------------
(* An event more *)

LEMMA Appended ==
    ASSUME NEW es \in Seq(Events), NEW e \in Events
    PROVE  /\ Len(es) \in Nat /\ DOMAIN es = 1..Len(es)
           /\ Append(es, e) \in Seq(Events)
           /\ DOMAIN Append(es, e) = 1..(Len(es) + 1)
           /\ \A i \in DOMAIN es : Append(es, e)[i] = es[i]
           /\ Append(es, e)[Len(es) + 1] = e
<1>1. Len(es) \in Nat /\ DOMAIN es = 1..Len(es)
  BY LenProperties
<1>2. /\ Append(es, e) \in Seq(Events) /\ Len(Append(es, e)) = Len(es) + 1
      /\ \A i \in 1..Len(es) : Append(es, e)[i] = es[i]
      /\ Append(es, e)[Len(es) + 1] = e
  BY AppendProperties
<1>3. DOMAIN Append(es, e) = 1..(Len(es) + 1)
  BY <1>2, LenProperties
<1> QED BY <1>1, <1>2, <1>3

(* Ledger fs is es with the event e as its n-th. *)
Grown(es, e, n, fs) ==
    /\ n \in Nat \ {0}
    /\ DOMAIN es = 1..(n - 1) /\ DOMAIN fs = 1..n
    /\ \A i \in DOMAIN es : fs[i] = es[i]
    /\ fs[n] = e

LEMMA GrownAppend ==
    ASSUME NEW es \in Seq(Events), NEW e \in Events
    PROVE  Grown(es, e, Len(es) + 1, Append(es, e)) /\ Append(es, e) \in Seq(Events)
<1>1. /\ Len(es) \in Nat /\ DOMAIN es = 1..Len(es)
      /\ DOMAIN Append(es, e) = 1..(Len(es) + 1)
      /\ \A i \in DOMAIN es : Append(es, e)[i] = es[i]
      /\ Append(es, e)[Len(es) + 1] = e
      /\ Append(es, e) \in Seq(Events)
  BY Appended
<1>2. Len(es) + 1 \in Nat \ {0} /\ (Len(es) + 1) - 1 = Len(es)
  BY <1>1
<1> QED BY <1>1, <1>2 DEF Grown

LEMMA GrownIs ==
    ASSUME NEW es, NEW e, NEW n, NEW fs, Grown(es, e, n, fs)
    PROVE  /\ n \in DOMAIN fs /\ n \notin DOMAIN es /\ n \in Nat
           /\ \A i \in DOMAIN es : i \in DOMAIN fs /\ i < n /\ i \in Nat /\ fs[i] = es[i]
           /\ \A i \in DOMAIN fs : i \in DOMAIN es \/ i = n
           /\ fs[n] = e
BY DEF Grown

(* The promotions of a memory after an event more, and their revisions. *)
LEMMA GrownPromotions ==
    ASSUME NEW es, NEW e, NEW n, NEW fs, Grown(es, e, n, fs), NEW m
    PROVE  /\ Promotions(fs, m) = IF e.kind = "memory.promoted" /\ e.proposal.memory = m
                                  THEN Promotions(es, m) \cup {n}
                                  ELSE Promotions(es, m)
           /\ \A i \in Promotions(es, m) : Rev(fs, i) = Rev(es, i) /\ RowAt(fs, i) = RowAt(es, i)
           /\ \A i \in DOMAIN es : IsPromotion(fs, i) <=> IsPromotion(es, i)
<1>1. /\ n \in DOMAIN fs /\ n \notin DOMAIN es /\ n \in Nat
      /\ \A i \in DOMAIN es : i \in DOMAIN fs /\ fs[i] = es[i]
      /\ \A i \in DOMAIN fs : i \in DOMAIN es \/ i = n
      /\ fs[n] = e
  BY GrownIs
<1>2. \A i \in DOMAIN es : IsPromotion(fs, i) <=> IsPromotion(es, i)
  BY <1>1 DEF IsPromotion
<1>3. \A i \in Promotions(es, m) : Rev(fs, i) = Rev(es, i) /\ RowAt(fs, i) = RowAt(es, i)
  BY <1>1 DEF Promotions, Rev, RowAt
<1>4. CASE e.kind = "memory.promoted" /\ e.proposal.memory = m
  <2>1. \A i : i \in Promotions(fs, m) <=> i \in Promotions(es, m) \cup {n}
    BY <1>1, <1>4 DEF Promotions, IsPromotion
  <2>2. Promotions(fs, m) = Promotions(es, m) \cup {n}
    BY <2>1
  <2> QED BY <1>2, <1>3, <1>4, <2>2
<1>5. CASE ~(e.kind = "memory.promoted" /\ e.proposal.memory = m)
  <2>1. \A i : i \in Promotions(fs, m) <=> i \in Promotions(es, m)
    BY <1>1, <1>5 DEF Promotions, IsPromotion
  <2>2. Promotions(fs, m) = Promotions(es, m)
    BY <2>1 DEF Promotions
  <2> QED BY <1>2, <1>3, <1>5, <2>2
<1> QED BY <1>4, <1>5

(* What is on record stays on record. *)
LEMMA GrownRecords ==
    ASSUME NEW es, NEW e, NEW n, NEW fs, Grown(es, e, n, fs), NEW rs, OnRecord(es, rs)
    PROVE  OnRecord(fs, rs)
BY GrownIs DEF OnRecord, IsPromotion

(* The events are good when the new one is, if it is a promotion. *)
LEMMA GrownEvents ==
    ASSUME NEW es, NEW e, NEW n, NEW fs, Grown(es, e, n, fs), EventsGood(es),
           e.kind = "memory.promoted" =>
              /\ e.proposal \in Proposals
              /\ e.at < e.proposal.until /\ e.at < e.proposal.ends
              /\ \E j \in DOMAIN es : es[j].kind = "source" /\ es[j].source = e.source
    PROVE  EventsGood(fs)
<1>1. /\ n \in DOMAIN fs /\ n \notin DOMAIN es /\ n \in Nat
      /\ \A i \in DOMAIN es : i \in DOMAIN fs /\ fs[i] = es[i]
      /\ \A i \in DOMAIN fs : i \in DOMAIN es \/ i = n
      /\ fs[n] = e
      /\ DOMAIN es = 1..(n - 1)
  BY GrownIs DEF Grown
<1>2. SUFFICES ASSUME NEW i \in DOMAIN fs, IsPromotion(fs, i)
               PROVE  /\ fs[i].proposal \in Proposals
                      /\ fs[i].at < fs[i].proposal.until
                      /\ fs[i].at < fs[i].proposal.ends
                      /\ \E j \in 1..(i - 1) : fs[j].kind = "source" /\ fs[j].source = fs[i].source
  BY DEF EventsGood
<1>3. CASE i \in DOMAIN es
  <2>1. IsPromotion(es, i) /\ fs[i] = es[i] /\ i \in 1..(n - 1)
    BY <1>1, <1>2, <1>3 DEF IsPromotion
  <2>2. /\ es[i].proposal \in Proposals
        /\ es[i].at < es[i].proposal.until /\ es[i].at < es[i].proposal.ends
        /\ \E j \in 1..(i - 1) : es[j].kind = "source" /\ es[j].source = es[i].source
    BY <1>3, <2>1 DEF EventsGood
  <2>3. PICK j \in 1..(i - 1) : es[j].kind = "source" /\ es[j].source = es[i].source
    BY <2>2
  <2>4. j \in DOMAIN es
    BY <1>1, <2>1
  <2>5. fs[j] = es[j]
    BY <1>1, <2>4
  <2> QED BY <2>1, <2>2, <2>3, <2>5
<1>4. CASE i = n
  <2>1. e.kind = "memory.promoted"
    BY <1>1, <1>2, <1>4 DEF IsPromotion
  <2>2. PICK j \in DOMAIN es : es[j].kind = "source" /\ es[j].source = e.source
    BY <2>1
  <2>3. fs[j] = es[j] /\ j \in 1..(i - 1)
    BY <1>1, <1>4
  <2> QED BY <1>1, <1>4, <2>1, <2>2, <2>3
<1> QED BY <1>1, <1>3, <1>4

(* Other evidence changes nothing. *)
LEMMA GrownSource ==
    ASSUME NEW es, NEW e, NEW n, NEW fs, Grown(es, e, n, fs), e.kind = "source",
           NEW rs, NEW ts, NEW ls, StoreGood(es, rs, ts, ls)
    PROVE  StoreGood(fs, rs, ts, ls)
<1>1. EventsGood(fs) /\ OnRecord(fs, rs) /\ OnRecord(fs, ts)
  BY GrownEvents, GrownRecords DEF StoreGood
<1>2. \A m : /\ Promotions(fs, m) = Promotions(es, m)
             /\ \A i \in Promotions(es, m) : Rev(fs, i) = Rev(es, i) /\ RowAt(fs, i) = RowAt(es, i)
  BY GrownPromotions
<1>3. ASSUME NEW m \in Memories PROVE Segment(fs, m) /\ InOrder(fs, m)
  <2>1. Segment(es, m) /\ InOrder(es, m)
    BY DEF StoreGood
  <2>2. {Rev(fs, i) : i \in Promotions(fs, m)} = {Rev(es, i) : i \in Promotions(es, m)}
    BY <1>2
  <2>3. Segment(fs, m)
    BY <2>1, <2>2 DEF Segment
  <2>4. InOrder(fs, m)
    BY <1>2, <2>1 DEF InOrder, Repeated
  <2> QED BY <2>3, <2>4
<1>4. ASSUME NEW m \in Memories \ ls PROVE Projected(fs, rs, m)
  <2>1. Projected(es, rs, m)
    BY DEF StoreGood
  <2>2. {RowAt(fs, i) : i \in Promotions(fs, m)} = {RowAt(es, i) : i \in Promotions(es, m)}
    BY <1>2
  <2> QED BY <2>1, <2>2 DEF Projected
<1>5. WholeOnce(fs)
  <2>1. \A i \in DOMAIN fs : IsPromotion(fs, i) => i \in DOMAIN es /\ IsPromotion(es, i) /\ fs[i] = es[i]
    BY GrownIs DEF IsPromotion
  <2> QED BY <2>1 DEF WholeOnce, StoreGood
<1> QED BY <1>1, <1>3, <1>4, <1>5 DEF StoreGood

-----------------------------------------------------------------------------
(* A promotion more *)

LEMMA LastOfNumbered ==
    ASSUME NEW rs, Numbered(rs)
    PROVE  /\ Cardinality(rs) \in Nat
           /\ Max({Revision(r.proposal) : r \in rs} \cup {0}) = Cardinality(rs)
<1>1. Cardinality(rs) \in Nat
  BY FS_CardinalityType DEF Numbered
<1>2. PICK k : k = Cardinality(rs)
  OBVIOUS
<1>3. k \in Nat /\ {Revision(r.proposal) : r \in rs} = 1..k
  BY <1>1, <1>2 DEF Numbered
<1>4. (1..k) \cup {0} \in SUBSET Int /\ k \in (1..k) \cup {0} /\ \A y \in (1..k) \cup {0} : k >= y
  BY <1>3
<1>5. Max((1..k) \cup {0}) = k
  BY <1>4, MaxIs
<1> QED BY <1>1, <1>2, <1>3, <1>5

(* Proposal p is promoted as the n-th event, after all rows of its memory. *)
Promoted(es, e, n, fs, rs, ls, p) ==
    /\ Grown(es, e, n, fs)
    /\ p \in Proposals
    /\ e.kind = "memory.promoted" /\ e.proposal = p
    /\ e.at < p.until /\ e.at < p.ends
    /\ \E j \in DOMAIN es : es[j].kind = "source" /\ es[j].source = e.source
    /\ e.whole => ls = {}
    /\ \A r \in rs : r.proposal.id # p.id
    /\ p.expected = Max({Revision(r.proposal) : r \in RowsIn(rs, p.memory)} \cup {0})

NewRow(p, n) == [proposal |-> p, event |-> n]

LEMMA PromotedNumbered ==
    ASSUME NEW es, NEW e, NEW n, NEW fs, NEW rs, NEW ls, NEW p,
           Promoted(es, e, n, fs, rs, ls, p), NEW ts, StoreGood(es, rs, ts, ls), NEW m \in Memories
    PROVE  Numbered(RowsIn(rs \cup {NewRow(p, n)}, m))
<1>1. NewRow(p, n).proposal = p /\ NewRow(p, n).event = n
  BY DEF NewRow
<1>2. NewRow(p, n) \notin rs
  BY <1>1, GrownIs DEF StoreGood, OnRecord, Promoted
<1>3. Numbered(RowsIn(rs, m))
  BY DEF StoreGood
<1>4. CASE p.memory # m
  <2>1. RowsIn(rs \cup {NewRow(p, n)}, m) = RowsIn(rs, m)
    BY <1>1, <1>4 DEF RowsIn
  <2> QED BY <1>3, <2>1
<1>5. CASE p.memory = m
  <2>1. PICK R : R = RowsIn(rs, m)
    OBVIOUS
  <2>2. PICK w : w = NewRow(p, n)
    OBVIOUS
  <2>3. RowsIn(rs \cup {w}, m) = R \cup {w}
    BY <1>1, <1>5, <2>1, <2>2 DEF RowsIn
  <2>4. w \notin R
    BY <1>2, <2>1, <2>2 DEF RowsIn
  <2>5. PICK k : k = Cardinality(R)
    OBVIOUS
  <2>6. k \in Nat /\ p.expected = k
    BY <1>3, <1>5, <2>1, <2>5, LastOfNumbered DEF Promoted
  <2>7. Revision(w.proposal) = k + 1
    BY <1>1, <2>2, <2>6 DEF Revision
  <2>8. IsFiniteSet(R) /\ {Revision(r.proposal) : r \in R} = 1..k
        /\ \A r, s \in R : Revision(r.proposal) = Revision(s.proposal) => r = s
    BY <1>3, <2>1, <2>5 DEF Numbered
  <2>9. IsFiniteSet(R \cup {w}) /\ Cardinality(R \cup {w}) = k + 1
    BY <2>4, <2>5, <2>8, FS_AddElement
  <2>10. {Revision(r.proposal) : r \in R \cup {w}} = (1..k) \cup {k + 1}
    BY <2>7, <2>8
  <2>11. (1..k) \cup {k + 1} = 1..(k + 1)
    BY <2>6
  <2>12. \A r \in R : Revision(r.proposal) \in 1..k
    BY <2>8
  <2>13. \A r \in R : Revision(r.proposal) # k + 1
    BY <2>6, <2>12
  <2>14. \A r, s \in R \cup {w} : Revision(r.proposal) = Revision(s.proposal) => r = s
    BY <2>7, <2>8, <2>13
  <2> QED BY <2>2, <2>3, <2>9, <2>10, <2>11, <2>14 DEF Numbered
<1> QED BY <1>4, <1>5

LEMMA PromotedInOrder ==
    ASSUME NEW es, NEW e, NEW n, NEW fs, NEW rs, NEW ls, NEW p,
           Promoted(es, e, n, fs, rs, ls, p), NEW ts, StoreGood(es, rs, ts, ls), NEW m \in Memories
    PROVE  Segment(fs, m) /\ InOrder(fs, m)
<1>0. Grown(es, e, n, fs) /\ e.kind = "memory.promoted" /\ e.proposal = p /\ p \in Proposals
  BY DEF Promoted
<1>1. PICK P : P = Promotions(es, m)
  OBVIOUS
<1>2. \A i \in P : Rev(fs, i) = Rev(es, i)
  BY <1>0, <1>1, GrownPromotions
<1>3. Segment(es, m) /\ InOrder(es, m)
  BY DEF StoreGood
<1>4. CASE p.memory # m
  <2>1. Promotions(fs, m) = P
    BY <1>0, <1>1, <1>4, GrownPromotions
  <2>2. {Rev(fs, i) : i \in P} = {Rev(es, i) : i \in P}
    BY <1>2
  <2>3. Segment(fs, m)
    BY <1>1, <1>3, <2>1, <2>2 DEF Segment
  <2>4. InOrder(fs, m)
    BY <1>1, <1>2, <1>3, <2>1 DEF InOrder, Repeated
  <2> QED BY <2>3, <2>4
<1>5. CASE p.memory = m
  <2>1. Promotions(fs, m) = P \cup {n}
    BY <1>0, <1>1, <1>5, GrownPromotions
  <2>2. PICK k : k = Cardinality(RowsIn(rs, m))
    OBVIOUS
  <2>3. Numbered(RowsIn(rs, m))
    BY DEF StoreGood
  <2>4. k \in Nat /\ p.expected = k
    BY <1>5, <2>2, <2>3, LastOfNumbered DEF Promoted
  <2>5. Rev(fs, n) = k + 1
    BY <1>0, <2>4, GrownIs DEF Rev, Revision
  <2>6. PICK N \in Nat : {Rev(es, i) : i \in P} = 1..N
    BY <1>1, <1>3 DEF Segment
  <2>7. k <= N
    <3>1. CASE k = 0
      BY <3>1, <2>6
    <3>2. CASE k # 0
      <4>1. k \in 1..k
        BY <2>4, <3>2
      <4>2. PICK r \in RowsIn(rs, m) : Revision(r.proposal) = k
        BY <2>2, <2>3, <4>1 DEF Numbered
      <4>3. r \in rs /\ r.proposal.memory = m
        BY DEF RowsIn
      <4>4. r.event \in DOMAIN es /\ IsPromotion(es, r.event) /\ es[r.event].proposal = r.proposal
        BY <4>3 DEF StoreGood, OnRecord, IsPromotion
      <4>5. r.event \in P /\ Rev(es, r.event) = k
        BY <1>1, <4>2, <4>3, <4>4 DEF Promotions, Rev
      <4>6. k \in 1..N
        BY <2>6, <4>5
      <4> QED BY <2>6, <4>6
    <3> QED BY <3>1, <3>2
  <2>8. \A i \in P : i \in DOMAIN es /\ i # n /\ i < n /\ i \in Nat /\ n \in Nat
    BY <1>0, <1>1, GrownIs DEF Promotions
  <2>9. {Rev(fs, i) : i \in P \cup {n}} = (1..N) \cup {k + 1}
    <3>1. {Rev(fs, i) : i \in P} = 1..N
      BY <1>2, <2>6
    <3> QED BY <2>5, <3>1
  <2>10. \A i \in P : Rev(fs, i) \in 1..N
    BY <1>2, <2>6
  <2>11. CASE k < N
    <3>1. k + 1 \in 1..N
      BY <2>4, <2>6, <2>11
    <3>2. (1..N) \cup {k + 1} = 1..N
      BY <3>1
    <3>3. Segment(fs, m)
      BY <2>1, <2>6, <2>9, <3>2 DEF Segment
    <3>4. PICK i \in P : Rev(es, i) = k + 1
      BY <2>6, <3>1
    <3>5. Rev(fs, i) = Rev(fs, n) /\ i # n
      BY <1>2, <2>5, <2>8, <3>4
    <3>6. Repeated(fs, m)
      BY <2>1, <3>5 DEF Repeated
    <3> QED BY <3>3, <3>6 DEF InOrder
  <2>12. CASE k = N
    <3>1. (1..N) \cup {k + 1} = 1..(N + 1) /\ N + 1 \in Nat
      BY <2>6, <2>12
    <3>2. Segment(fs, m)
      BY <2>1, <2>9, <3>1 DEF Segment
    <3>3. CASE Repeated(es, m)
      <4>1. Repeated(fs, m)
        BY <1>1, <1>2, <2>1, <3>3 DEF Repeated
      <4> QED BY <3>2, <4>1 DEF InOrder
    <3>4. CASE ~Repeated(es, m)
      <4>1. \A i, j \in P : i < j => Rev(fs, i) < Rev(fs, j)
        BY <1>1, <1>2, <1>3, <3>4 DEF InOrder
      <4>2. \A i \in P : Rev(fs, i) < Rev(fs, n)
        BY <2>5, <2>6, <2>10, <2>12
      <4>3. \A i \in P : ~(n < i)
        BY <2>8
      <4>4. ~(n < n)
        BY <1>0, GrownIs
      <4>5. \A i, j \in P \cup {n} : i < j => Rev(fs, i) < Rev(fs, j)
        BY <4>1, <4>2, <4>3, <4>4
      <4> QED BY <2>1, <3>2, <4>5 DEF InOrder
    <3> QED BY <3>3, <3>4
  <2> QED BY <2>4, <2>6, <2>7, <2>11, <2>12
<1> QED BY <1>4, <1>5

LEMMA PromotedProjected ==
    ASSUME NEW es, NEW e, NEW n, NEW fs, NEW rs, NEW ls, NEW p,
           Promoted(es, e, n, fs, rs, ls, p), NEW m, Projected(es, rs, m)
    PROVE  Projected(fs, rs \cup {NewRow(p, n)}, m)
<1>0. Grown(es, e, n, fs) /\ e.kind = "memory.promoted" /\ e.proposal = p
  BY DEF Promoted
<1>1. PICK P : P = Promotions(es, m)
  OBVIOUS
<1>2. NewRow(p, n).proposal = p /\ RowAt(fs, n) = NewRow(p, n)
  BY <1>0, GrownIs DEF NewRow, RowAt
<1>3. \A i \in P : RowAt(fs, i) = RowAt(es, i)
  BY <1>0, <1>1, GrownPromotions
<1>4. RowsIn(rs, m) = {RowAt(fs, i) : i \in P}
  BY <1>1, <1>3 DEF Projected
<1>5. CASE p.memory # m
  <2>1. Promotions(fs, m) = P
    BY <1>0, <1>1, <1>5, GrownPromotions
  <2>2. RowsIn(rs \cup {NewRow(p, n)}, m) = RowsIn(rs, m)
    BY <1>2, <1>5 DEF RowsIn
  <2> QED BY <1>4, <2>1, <2>2 DEF Projected
<1>6. CASE p.memory = m
  <2>1. Promotions(fs, m) = P \cup {n}
    BY <1>0, <1>1, <1>6, GrownPromotions
  <2>2. RowsIn(rs \cup {NewRow(p, n)}, m) = RowsIn(rs, m) \cup {NewRow(p, n)}
    BY <1>2, <1>6 DEF RowsIn
  <2>3. {RowAt(fs, i) : i \in P \cup {n}} = {RowAt(fs, i) : i \in P} \cup {NewRow(p, n)}
    BY <1>2
  <2> QED BY <1>4, <2>1, <2>2, <2>3 DEF Projected
<1> QED BY <1>5, <1>6

(* While no rows are missing, an identifier without a row is a new one. *)
LEMMA PromotedWholeOnce ==
    ASSUME NEW es, NEW e, NEW n, NEW fs, NEW rs, NEW ls, NEW p,
           Promoted(es, e, n, fs, rs, ls, p), NEW ts, StoreGood(es, rs, ts, ls)
    PROVE  WholeOnce(fs)
<1>0. Grown(es, e, n, fs) /\ e.kind = "memory.promoted" /\ e.proposal = p
  BY DEF Promoted
<1>1. \A i \in DOMAIN fs : i = n \/ (i \in DOMAIN es /\ fs[i] = es[i]
                                     /\ (IsPromotion(fs, i) <=> IsPromotion(es, i)))
  BY <1>0, GrownIs, GrownPromotions
<1>2. ASSUME e.whole, NEW i \in DOMAIN es, IsPromotion(es, i)
      PROVE  es[i].proposal.id # p.id
  <2>1. ls = {} /\ \A r \in rs : r.proposal.id # p.id
    BY <1>2 DEF Promoted
  <2>2. es[i].proposal \in Proposals
    BY <1>2 DEF StoreGood, EventsGood
  <2>3. PICK m \in Memories : es[i].proposal.memory = m
    BY <2>2 DEF Memories
  <2>4. Projected(es, rs, m) /\ i \in Promotions(es, m)
    BY <1>2, <2>1, <2>3 DEF StoreGood, Promotions
  <2>5. RowAt(es, i) \in rs /\ RowAt(es, i).proposal = es[i].proposal
    BY <2>4 DEF Projected, RowsIn, RowAt
  <2> QED BY <2>1, <2>5
<1>3. fs[n] = e /\ WholeOnce(es)
  BY <1>0, GrownIs DEF StoreGood
<1>4. SUFFICES ASSUME NEW i \in DOMAIN fs, NEW j \in DOMAIN fs,
                      IsPromotion(fs, i), fs[i].whole, IsPromotion(fs, j), fs[j].whole,
                      fs[i].proposal.id = fs[j].proposal.id
               PROVE  i = j
  BY DEF WholeOnce
<1>5. CASE i = n /\ j # n
  BY <1>0, <1>1, <1>2, <1>3, <1>4, <1>5
<1>6. CASE i # n /\ j = n
  BY <1>0, <1>1, <1>2, <1>3, <1>4, <1>6
<1>7. CASE i # n /\ j # n
  BY <1>1, <1>3, <1>4, <1>7 DEF WholeOnce
<1> QED BY <1>5, <1>6, <1>7

LEMMA PromotedStore ==
    ASSUME NEW es, NEW e, NEW n, NEW fs, NEW rs, NEW ls, NEW p,
           Promoted(es, e, n, fs, rs, ls, p), NEW ts, StoreGood(es, rs, ts, ls)
    PROVE  StoreGood(fs, rs \cup {NewRow(p, n)}, ts \cup {NewRow(p, n)}, ls)
<1>0. Grown(es, e, n, fs) /\ e.kind = "memory.promoted" /\ e.proposal = p /\ p \in Proposals
  BY DEF Promoted
<1>1. EventsGood(fs)
  BY <1>0, GrownEvents DEF Promoted, StoreGood
<1>2. OnRecord(fs, rs) /\ OnRecord(fs, ts)
  BY <1>0, GrownRecords DEF StoreGood
<1>3. NewRow(p, n) \in [proposal : Proposals, event : DOMAIN fs]
      /\ IsPromotion(fs, NewRow(p, n).event) /\ fs[NewRow(p, n).event].proposal = NewRow(p, n).proposal
  BY <1>0, GrownIs DEF NewRow, IsPromotion
<1>4. OnRecord(fs, rs \cup {NewRow(p, n)}) /\ OnRecord(fs, ts \cup {NewRow(p, n)})
  BY <1>2, <1>3 DEF OnRecord
<1>5. \A m \in Memories : /\ Numbered(RowsIn(rs \cup {NewRow(p, n)}, m))
                          /\ Segment(fs, m) /\ InOrder(fs, m)
  BY PromotedNumbered, PromotedInOrder
<1>6. \A m \in Memories \ ls : Projected(fs, rs \cup {NewRow(p, n)}, m)
  BY PromotedProjected DEF StoreGood
<1>7. WholeOnce(fs)
  BY PromotedWholeOnce
<1> QED BY <1>1, <1>4, <1>5, <1>6, <1>7 DEF StoreGood

-----------------------------------------------------------------------------
(* A rebuild, a loss and a result *)

(* A rebuild of contiguous revisions stores each of them once. *)
LEMMA RebuiltNumbered ==
    ASSUME NEW es \in Seq(Events), NEW m, NEW P, ReadGood(es, P, m)
    PROVE  Numbered({RowAt(es, i) : i \in P})
<1>1. P \subseteq DOMAIN es /\ {Rev(es, i) : i \in P} = 1..Cardinality(P)
  BY DEF ReadGood, Promotions
<1>2. IsFiniteSet(P)
  <2>1. Len(es) \in Nat /\ DOMAIN es = 1..Len(es)
    BY LenProperties
  <2>2. IsFiniteSet(1..Len(es))
    BY <2>1, FS_Interval
  <2> QED BY <1>1, <2>1, <2>2, FS_Subset
<1>3. PICK k : k = Cardinality(P)
  OBVIOUS
<1>4. k \in Nat /\ Cardinality(1..k) = k
  <2>1. k \in Nat
    BY <1>2, <1>3, FS_CardinalityType
  <2>2. Cardinality(1..k) = IF 1 > k THEN 0 ELSE k - 1 + 1
    BY <2>1, FS_Interval
  <2> QED BY <2>1, <2>2
<1>5. \A i, j \in P : Rev(es, i) = Rev(es, j) => i = j
  <2> DEFINE f == [i \in P |-> Rev(es, i)]
  <2>1. f \in Surjection(P, 1..k)
    BY <1>1, <1>3 DEF Surjection
  <2>2. f \in Injection(P, 1..k)
    BY <1>2, <1>3, <1>4, <2>1, FS_SurjSameCardinalityImpliesInj
  <2>3. \A i, j \in P : f[i] = f[j] => i = j
    BY <2>2 DEF Injection, IsInjective
  <2> QED BY <2>3
<1>6. PICK Q : Q = {RowAt(es, i) : i \in P}
  OBVIOUS
<1>7. \A i \in P : RowAt(es, i).event = i /\ Revision(RowAt(es, i).proposal) = Rev(es, i)
  BY DEF RowAt, Rev
<1>8. IsFiniteSet(Q) /\ Cardinality(Q) = k
  <2> DEFINE g == [i \in P |-> RowAt(es, i)]
  <2>1. g \in [P -> Q]
    BY <1>6
  <2>2. \A i, j \in P : g[i] = g[j] => i = j
    BY <1>7
  <2>3. \A q \in Q : \E i \in P : g[i] = q
    BY <1>6
  <2>4. g \in Bijection(P, Q)
    BY <2>1, <2>2, <2>3 DEF Bijection, Injection, Surjection, IsInjective
  <2>5. ExistsBijection(P, Q)
    BY <2>4 DEF ExistsBijection
  <2> QED BY <1>2, <1>3, <2>5, FS_Bijection
<1>9. {Revision(r.proposal) : r \in Q} = 1..k
  <2>1. {Revision(r.proposal) : r \in Q} = {Rev(es, i) : i \in P}
    BY <1>6, <1>7
  <2> QED BY <1>1, <1>3, <2>1
<1>10. \A r, s \in Q : Revision(r.proposal) = Revision(s.proposal) => r = s
  BY <1>5, <1>6, <1>7
<1> QED BY <1>6, <1>8, <1>9, <1>10 DEF Numbered

LEMMA RebuiltStore ==
    ASSUME NEW es \in Seq(Events), NEW m, NEW P, ReadGood(es, P, m),
           NEW rs, NEW ts, NEW ls, StoreGood(es, rs, ts, ls)
    PROVE  StoreGood(es, (rs \ RowsIn(rs, m)) \cup {RowAt(es, i) : i \in P}, ts, ls \ {m})
<1>0. P = Promotions(es, m) /\ EventsGood(es)
  BY DEF ReadGood, StoreGood
<1>1. PICK ws : ws = (rs \ RowsIn(rs, m)) \cup {RowAt(es, i) : i \in P}
  OBVIOUS
<1>2. \A i \in P : /\ RowAt(es, i).proposal = es[i].proposal /\ RowAt(es, i).event = i
                   /\ RowAt(es, i).proposal.memory = m
                   /\ RowAt(es, i) \in [proposal : Proposals, event : DOMAIN es]
                   /\ IsPromotion(es, i)
  BY <1>0, PromotionIs DEF RowAt
<1>3. OnRecord(es, ws)
  BY <1>1, <1>2 DEF StoreGood, OnRecord
<1>4. RowsIn(ws, m) = {RowAt(es, i) : i \in P}
  BY <1>1, <1>2 DEF RowsIn
<1>5. \A q : q # m => RowsIn(ws, q) = RowsIn(rs, q)
  BY <1>1, <1>2 DEF RowsIn
<1>6. \A q \in Memories : Numbered(RowsIn(ws, q))
  BY <1>4, <1>5, RebuiltNumbered DEF StoreGood
<1>7. \A q \in Memories \ (ls \ {m}) : Projected(es, ws, q)
  BY <1>0, <1>4, <1>5 DEF StoreGood, Projected
<1> QED BY <1>1, <1>3, <1>6, <1>7 DEF StoreGood

LEMMA LostStore ==
    ASSUME NEW m, NEW es, NEW rs, NEW ts, NEW ls, StoreGood(es, rs, ts, ls)
    PROVE  StoreGood(es, rs \ RowsIn(rs, m), ts, ls \cup {m})
<1>1. PICK ws : ws = rs \ RowsIn(rs, m)
  OBVIOUS
<1>2. OnRecord(es, ws)
  BY <1>1 DEF StoreGood, OnRecord
<1>3. RowsIn(ws, m) = {}
  BY <1>1 DEF RowsIn
<1>4. \A q : q # m => RowsIn(ws, q) = RowsIn(rs, q)
  BY <1>1 DEF RowsIn
<1>5. Numbered({})
  <2>1. {Revision(r.proposal) : r \in {}} = 1..0
    OBVIOUS
  <2> QED BY <2>1, FS_EmptySet DEF Numbered
<1>6. \A q \in Memories : Numbered(RowsIn(ws, q))
  BY <1>3, <1>4, <1>5 DEF StoreGood
<1>7. \A q \in Memories \ (ls \cup {m}) : Projected(es, ws, q)
  BY <1>4 DEF StoreGood, Projected
<1> QED BY <1>1, <1>2, <1>6, <1>7 DEF StoreGood

LEMMA ToldStore ==
    ASSUME NEW es, NEW rs, NEW ts, NEW ls, StoreGood(es, rs, ts, ls), NEW r \in rs
    PROVE  StoreGood(es, rs, ts \cup {r}, ls)
<1>1. OnRecord(es, ts \cup {r})
  BY DEF StoreGood, OnRecord
<1> QED BY <1>1 DEF StoreGood

-----------------------------------------------------------------------------
(* The promoters *)

(* Promoter c goes to label l with job j and events I; the others stay. *)
Moves(c, l, j, I) ==
    /\ pc' = [pc EXCEPT ![c] = l]
    /\ job' = [job EXCEPT ![c] = j]
    /\ read' = [read EXCEPT ![c] = I]

LEMMA MovesTyped ==
    ASSUME Typed, NEW c \in Promoters, NEW l \in PCs,
           NEW j \in Proposals \cup Memories \cup {None}, NEW I \in SUBSET DOMAIN ledger,
           Moves(c, l, j, I), DOMAIN ledger \subseteq DOMAIN ledger'
    PROVE  /\ pc' \in [Promoters -> PCs]
           /\ job' \in [Promoters -> Proposals \cup Memories \cup {None}]
           /\ read' \in [Promoters -> SUBSET DOMAIN ledger']
           /\ pc'[c] = l /\ job'[c] = j /\ read'[c] = I
           /\ \A d \in Promoters \ {c} : pc'[d] = pc[d] /\ job'[d] = job[d] /\ read'[d] = read[d]
<1>1. pc \in [Promoters -> PCs] /\ job \in [Promoters -> Proposals \cup Memories \cup {None}]
  BY DEF Typed
<1>2. read \in [Promoters -> SUBSET DOMAIN ledger]
  BY DEF Typed
<1>3. read \in [Promoters -> SUBSET DOMAIN ledger'] /\ I \in SUBSET DOMAIN ledger'
  BY <1>2
<1> QED BY <1>1, <1>2, <1>3 DEF Moves

(* A step that a rebuild in progress does not notice. *)
Unseen(c, l, j, es, fs) ==
    /\ \A d \in Promoters \ {c} : pc[d] = "rebuilding" => \A I : ReadGood(es, I, job[d])
                                                                 => ReadGood(fs, I, job[d])
    /\ l = "rebuilding" => \A d \in Promoters \ {c} : pc[d] \in Holding => job[d].memory # j
    /\ l \in Holding => \A d \in Promoters \ {c} : pc[d] = "rebuilding" => j.memory # job[d]

LEMMA MovesGood ==
    ASSUME Typed, PromotersInv, NEW c \in Promoters, NEW l \in PCs,
           NEW j \in Proposals \cup Memories \cup {None}, NEW I \in SUBSET DOMAIN ledger,
           Moves(c, l, j, I), DOMAIN ledger \subseteq DOMAIN ledger',
           PromoterGood(ledger', l, j, I), Unseen(c, l, j, ledger, ledger')
    PROVE  PromotersInv'
<1>1. /\ pc'[c] = l /\ job'[c] = j /\ read'[c] = I
      /\ \A d \in Promoters \ {c} : pc'[d] = pc[d] /\ job'[d] = job[d] /\ read'[d] = read[d]
  BY MovesTyped
<1>2. ASSUME NEW d \in Promoters PROVE PromoterGood(ledger', pc'[d], job'[d], read'[d])
  <2>1. CASE d = c
    BY <1>1, <2>1
  <2>2. CASE d # c
    <3>1. PromoterGood(ledger, pc[d], job[d], read[d])
      BY DEF PromotersInv
    <3>2. pc'[d] = pc[d] /\ job'[d] = job[d] /\ read'[d] = read[d]
      BY <1>1, <2>2
    <3>3. pc[d] = "rebuilding" => ReadGood(ledger', read[d], job[d])
      BY <2>2, <3>1 DEF PromoterGood, Unseen
    <3>4. PromoterGood(ledger', pc[d], job[d], read[d])
      BY <3>1, <3>3 DEF PromoterGood
    <3> QED BY <3>2, <3>4
  <2> QED BY <2>1, <2>2
<1>3. ASSUME NEW d \in Promoters, NEW f \in Promoters PROVE Apart(pc'[d], job'[d], pc'[f], job'[f])
  <2>0. "rebuilding" \notin Holding
    BY DEF Holding
  <2>1. CASE d = c /\ f = c
    BY <1>1, <2>0, <2>1 DEF Apart
  <2>2. CASE d = c /\ f # c
    BY <1>1, <2>2 DEF Apart, Unseen
  <2>3. CASE d # c /\ f = c
    BY <1>1, <2>3 DEF Apart, Unseen
  <2>4. CASE d # c /\ f # c
    <3>1. Apart(pc[d], job[d], pc[f], job[f])
      BY DEF PromotersInv
    <3> QED BY <1>1, <2>4, <3>1
  <2> QED BY <2>1, <2>2, <2>3, <2>4
<1> QED BY <1>2, <1>3 DEF PromotersInv

-----------------------------------------------------------------------------
(* The steps *)

LEMMA InitGood ==
    ASSUME Init
    PROVE  IndInv
<1> USE DEF Init
<1>1. Typed
  <2>1. <<>> \in Seq(Events) /\ 0 \in 0..MaxTime /\ 0 \in 0..MaxLosses
    BY BoundAssumption
  <2> QED BY <2>1 DEF Typed, PCs
<1>2. DOMAIN ledger = {}
  OBVIOUS
<1>3. \A m : Promotions(ledger, m) = {} /\ RowsIn(rows, m) = {}
  BY <1>2 DEF Promotions, RowsIn
<1>4. Numbered({})
  <2>1. {Revision(r.proposal) : r \in {}} = 1..0
    OBVIOUS
  <2> QED BY <2>1, FS_EmptySet DEF Numbered
<1>5. \A m : Segment(ledger, m) /\ InOrder(ledger, m) /\ Projected(ledger, rows, m)
  <2> TAKE m
  <2>1. {Rev(ledger, i) : i \in {}} = 1..0 /\ 0 \in Nat
    OBVIOUS
  <2>2. Segment(ledger, m)
    BY <1>3, <2>1 DEF Segment
  <2>3. InOrder(ledger, m)
    BY <1>3 DEF InOrder
  <2>4. Projected(ledger, rows, m)
    BY <1>3 DEF Projected
  <2> QED BY <2>2, <2>3, <2>4
<1>6. StoreInv
  BY <1>2, <1>3, <1>4, <1>5 DEF StoreInv, StoreGood, EventsGood, OnRecord, WholeOnce
<1>7. PromotersInv
  BY DEF PromotersInv, PromoterGood, Apart, Holding
<1> QED BY <1>1, <1>6, <1>7 DEF IndInv

(* A step of one promoter that leaves the store as it is. *)
LEMMA LocalStep ==
    ASSUME IndInv, NEW c \in Promoters, NEW l \in PCs,
           NEW j \in Proposals \cup Memories \cup {None}, NEW I \in SUBSET DOMAIN ledger,
           Moves(c, l, j, I), PromoterGood(ledger, l, j, I), Unseen(c, l, j, ledger, ledger),
           UNCHANGED <<ledger, rows, now, told, lost, losses>>
    PROVE  IndInv'
<1>0. Typed /\ StoreInv /\ PromotersInv
  BY DEF IndInv
<1>1. ledger' = ledger /\ rows' = rows /\ told' = told /\ lost' = lost /\ now' = now /\ losses' = losses
  OBVIOUS
<1>2. Typed'
  <2>1. /\ pc' \in [Promoters -> PCs]
        /\ job' \in [Promoters -> Proposals \cup Memories \cup {None}]
        /\ read' \in [Promoters -> SUBSET DOMAIN ledger']
    BY <1>0, <1>1, MovesTyped
  <2> QED BY <1>0, <1>1, <2>1 DEF Typed
<1>3. StoreInv'
  BY <1>0, <1>1 DEF StoreInv
<1>4. PromotersInv'
  BY <1>0, <1>1, MovesGood
<1> QED BY <1>2, <1>3, <1>4 DEF IndInv

LEMMA UnseenLocal ==
    ASSUME NEW c, NEW l, NEW j, NEW es, l \notin Holding, l # "rebuilding"
    PROVE  Unseen(c, l, j, es, es)
BY DEF Unseen

LEMMA LeaveMoves ==
    ASSUME NEW c, Leave(c)
    PROVE  Moves(c, "idle", None, {})
BY DEF Leave, Goto, Moves

LEMMA IdleGood ==
    /\ "idle" \in PCs /\ "idle" \notin Holding /\ {} \in SUBSET DOMAIN ledger
    /\ \A es : PromoterGood(es, "idle", None, {})
BY DEF PCs, Holding, PromoterGood

LEMMA LeaveGood ==
    ASSUME IndInv, NEW c \in Promoters, Leave(c),
           UNCHANGED <<ledger, rows, now, told, lost, losses>>
    PROVE  IndInv'
<1>1. Moves(c, "idle", None, {})
  BY LeaveMoves
<1>2. Unseen(c, "idle", None, ledger, ledger)
  BY IdleGood, UnseenLocal
<1> QED BY <1>1, <1>2, IdleGood, LocalStep

LEMMA StaysMoves ==
    ASSUME Typed, NEW c \in Promoters
    PROVE  /\ job = [job EXCEPT ![c] = job[c]] /\ read = [read EXCEPT ![c] = read[c]]
           /\ job[c] \in Proposals \cup Memories \cup {None} /\ read[c] \in SUBSET DOMAIN ledger
           /\ pc[c] \in PCs
BY DEF Typed

LEMMA PromoteGood ==
    ASSUME IndInv, NEW c \in Promoters, NEW p \in Proposals, Promote(c, p)
    PROVE  IndInv'
<1>0. Typed
  BY DEF IndInv
<1>1. Moves(c, "validated", p, read[c]) /\ read[c] \in SUBSET DOMAIN ledger
  BY <1>0, StaysMoves DEF Promote, Goto, Moves
<1>2. "validated" \in PCs /\ "validated" \notin Holding
  BY DEF PCs, Holding
<1>3. PromoterGood(ledger, "validated", p, read[c])
  BY DEF PromoterGood
<1>4. Unseen(c, "validated", p, ledger, ledger)
  BY <1>2, UnseenLocal
<1>5. UNCHANGED <<ledger, rows, now, told, lost, losses>>
  BY DEF Promote
<1> QED BY <1>1, <1>2, <1>3, <1>4, <1>5, LocalStep

LEMMA LockMemoryGood ==
    ASSUME IndInv, NEW c \in Promoters, LockMemory(c)
    PROVE  IndInv'
<1>0. Typed /\ PromotersInv
  BY DEF IndInv
<1>1. Moves(c, "locked", job[c], read[c]) /\ read[c] \in SUBSET DOMAIN ledger
      /\ job[c] \in Proposals \cup Memories \cup {None}
  BY <1>0, StaysMoves DEF LockMemory, Goto, Moves
<1>2. "locked" \in PCs /\ "locked" \in Holding /\ "locked" # "rebuilding"
  BY DEF PCs, Holding
<1>3. job[c] \in Proposals
  BY <1>0 DEF LockMemory, PromotersInv, PromoterGood
<1>4. PromoterGood(ledger, "locked", job[c], read[c])
  BY <1>3 DEF PromoterGood
<1>5. \A d \in Promoters : pc[d] = "rebuilding" => job[c].memory # job[d]
  BY DEF LockMemory, MemoryHeld
<1>6. Unseen(c, "locked", job[c], ledger, ledger)
  BY <1>2, <1>5 DEF Unseen
<1>7. UNCHANGED <<ledger, rows, now, told, lost, losses>>
  BY DEF LockMemory
<1> QED BY <1>1, <1>2, <1>4, <1>6, <1>7, LocalStep

LEMMA LockProposalGood ==
    ASSUME IndInv, NEW c \in Promoters, LockProposal(c)
    PROVE  IndInv'
<1>0. Typed /\ PromotersInv
  BY DEF IndInv
<1>1. Moves(c, "promoting", job[c], read[c]) /\ read[c] \in SUBSET DOMAIN ledger
      /\ job[c] \in Proposals \cup Memories \cup {None}
  BY <1>0, StaysMoves DEF LockProposal, Goto, Moves
<1>2. "promoting" \in PCs /\ "promoting" \in Holding /\ "promoting" # "rebuilding"
      /\ pc[c] \in Holding
  BY DEF PCs, Holding, LockProposal
<1>3. job[c] \in Proposals
  BY <1>0, <1>2 DEF PromotersInv, PromoterGood
<1>4. PromoterGood(ledger, "promoting", job[c], read[c])
  BY <1>3 DEF PromoterGood
<1>5. \A d \in Promoters : pc[d] = "rebuilding" => job[c].memory # job[d]
  BY <1>0, <1>2 DEF PromotersInv, Apart
<1>6. Unseen(c, "promoting", job[c], ledger, ledger)
  BY <1>2, <1>5 DEF Unseen
<1>7. UNCHANGED <<ledger, rows, now, told, lost, losses>>
  BY DEF LockProposal
<1> QED BY <1>1, <1>2, <1>4, <1>6, <1>7, LocalStep

LEMMA RebuildReadGood ==
    ASSUME IndInv, NEW c \in Promoters, NEW m \in Memories, RebuildRead(c, m)
    PROVE  IndInv'
<1>1. Moves(c, "rebuilding", m, Promotions(ledger, m))
  BY Reads DEF RebuildRead, Goto, Moves
<1>2. "rebuilding" \in PCs /\ "rebuilding" \notin Holding
      /\ Promotions(ledger, m) \in SUBSET DOMAIN ledger
  BY DEF PCs, Holding, Promotions
<1>3. ReadGood(ledger, Promotions(ledger, m), m)
  BY Reads DEF RebuildRead, Contiguous, ReadGood, Rev
<1>4. PromoterGood(ledger, "rebuilding", m, Promotions(ledger, m))
  BY <1>2, <1>3 DEF PromoterGood
<1>5. \A d \in Promoters : pc[d] \in Holding => job[d].memory # m
  BY DEF RebuildRead, MemoryHeld, Holding
<1>6. Unseen(c, "rebuilding", m, ledger, ledger)
  BY <1>2, <1>5 DEF Unseen
<1>7. UNCHANGED <<ledger, rows, now, told, lost, losses>>
  BY DEF RebuildRead
<1> QED BY <1>1, <1>2, <1>4, <1>6, <1>7, LocalStep

LEMMA ReplayGood ==
    ASSUME IndInv, NEW c \in Promoters, Replay(c)
    PROVE  IndInv'
<1>0. Typed /\ StoreInv /\ PromotersInv
  BY DEF IndInv
<1>1. ledger' = ledger /\ rows' = rows /\ lost' = lost /\ now' = now /\ losses' = losses
      /\ Moves(c, "idle", None, {})
  BY LeaveMoves DEF Replay
<1>2. PICK r \in rows : told' = told \cup {r}
  BY DEF Replay, Stored
<1>3. StoreGood(ledger, rows, told \cup {r}, lost)
  BY <1>0, ToldStore DEF StoreInv
<1>4. StoreInv'
  BY <1>1, <1>2, <1>3 DEF StoreInv
<1>5. Typed'
  <2>1. /\ pc' \in [Promoters -> PCs]
        /\ job' \in [Promoters -> Proposals \cup Memories \cup {None}]
        /\ read' \in [Promoters -> SUBSET DOMAIN ledger']
    BY <1>0, <1>1, IdleGood, MovesTyped
  <2> QED BY <1>0, <1>1, <2>1 DEF Typed
<1>6. Unseen(c, "idle", None, ledger, ledger')
  BY <1>1, IdleGood, UnseenLocal
<1>7. PromotersInv'
  BY <1>0, <1>1, <1>6, IdleGood, MovesGood
<1> QED BY <1>4, <1>5, <1>7 DEF IndInv

(* What a rebuild read of a memory stays all there is while no promotion   *)
(* of that memory is recorded.                                             *)
LEMMA ReadStays ==
    ASSUME NEW es, NEW e, NEW n, NEW fs, Grown(es, e, n, fs), NEW m, NEW I, ReadGood(es, I, m),
           e.kind # "memory.promoted" \/ e.proposal.memory # m
    PROVE  ReadGood(fs, I, m)
<1>1. Promotions(fs, m) = Promotions(es, m) /\ \A i \in Promotions(es, m) : Rev(fs, i) = Rev(es, i)
  BY GrownPromotions
<1>2. I = Promotions(es, m) /\ {Rev(es, i) : i \in I} = 1..Cardinality(I)
  BY DEF ReadGood
<1>3. {Rev(fs, i) : i \in I} = {Rev(es, i) : i \in I}
  BY <1>1, <1>2
<1> QED BY <1>1, <1>2, <1>3 DEF ReadGood

LEMMA CommitGood ==
    ASSUME IndInv, NEW c \in Promoters, Commit(c)
    PROVE  IndInv'
<1>0. Typed /\ StoreInv /\ PromotersInv /\ pc[c] = "promoting"
  BY DEF IndInv, Commit
<1>1. PICK p \in Proposals : p = job[c]
  BY <1>0 DEF PromotersInv, PromoterGood, Holding
<1>2. PICK n : n = Len(ledger) + 1
  OBVIOUS
<1> DEFINE e == [kind |-> "memory.promoted", source |-> p.source,
                 proposal |-> p, at |-> now, whole |-> lost = {}]
<1>3. /\ ledger' = Append(ledger, e)
      /\ rows' = rows \cup {NewRow(p, n)} /\ told' = told \cup {NewRow(p, n)}
      /\ Leave(c) /\ UNCHANGED <<now, lost, losses>> /\ Committable(p)
  BY <1>1, <1>2 DEF Commit, NewRow
<1>4. e \in Events
  BY <1>0, ProposalIs DEF Events, Typed
<1>5. e.kind = "memory.promoted" /\ e.proposal = p /\ e.at = now /\ e.source = p.source
      /\ (e.whole => lost = {})
  OBVIOUS
<1> HIDE DEF e
<1>6. Grown(ledger, e, n, ledger') /\ ledger' \in Seq(Events)
  BY <1>0, <1>2, <1>3, <1>4, GrownAppend DEF Typed
<1>7. Promoted(ledger, e, n, ledger', rows, lost, p)
  <2>1. now < p.until /\ now < p.ends
    BY <1>3 DEF Committable, StillCurrent
  <2>2. \E j \in DOMAIN ledger : ledger[j].kind = "source" /\ ledger[j].source = p.source
    BY <1>3 DEF Committable, SourceRecorded
  <2>3. \A r \in rows : r.proposal.id # p.id
    BY <1>3 DEF Committable, Stored
  <2>4. p.expected = Max({Revision(r.proposal) : r \in RowsIn(rows, p.memory)} \cup {0})
    BY <1>3, Reads DEF Committable, Follows, LastRevision
  <2> QED BY <1>5, <1>6, <2>1, <2>2, <2>3, <2>4 DEF Promoted
<1>8. StoreInv'
  <2>1. StoreGood(ledger', rows \cup {NewRow(p, n)}, told \cup {NewRow(p, n)}, lost)
    BY <1>0, <1>7, PromotedStore DEF StoreInv
  <2> QED BY <1>3, <2>1 DEF StoreInv
<1>9. DOMAIN ledger \subseteq DOMAIN ledger'
  BY <1>6, GrownIs
<1>10. Moves(c, "idle", None, {})
  BY <1>3, LeaveMoves
<1>11. Typed'
  <2>1. /\ pc' \in [Promoters -> PCs]
        /\ job' \in [Promoters -> Proposals \cup Memories \cup {None}]
        /\ read' \in [Promoters -> SUBSET DOMAIN ledger']
    BY <1>0, <1>9, <1>10, IdleGood, MovesTyped
  <2>2. now' = now /\ lost' = lost /\ losses' = losses
    BY <1>3
  <2> QED BY <1>0, <1>6, <2>1, <2>2 DEF Typed
<1>12. Unseen(c, "idle", None, ledger, ledger')
  <2>1. ASSUME NEW d \in Promoters \ {c}, pc[d] = "rebuilding", NEW I, ReadGood(ledger, I, job[d])
        PROVE  ReadGood(ledger', I, job[d])
    <3>1. p.memory # job[d]
      BY <1>0, <1>1, <2>1 DEF PromotersInv, Apart, Holding
    <3> QED BY <1>5, <1>6, <2>1, <3>1, ReadStays
  <2> QED BY <2>1, IdleGood DEF Unseen
<1>13. PromotersInv'
  BY <1>0, <1>9, <1>10, <1>12, IdleGood, MovesGood
<1> QED BY <1>8, <1>11, <1>13 DEF IndInv

LEMMA RebuildWriteGood ==
    ASSUME IndInv, NEW c \in Promoters, RebuildWrite(c)
    PROVE  IndInv'
<1>0. Typed /\ StoreInv /\ PromotersInv /\ pc[c] = "rebuilding"
  BY DEF IndInv, RebuildWrite
<1>1. ledger' = ledger /\ now' = now /\ told' = told /\ losses' = losses
      /\ Moves(c, "idle", None, {}) /\ lost' = lost \ {job[c]}
  BY LeaveMoves DEF RebuildWrite
<1>2. PICK m : m = job[c]
  OBVIOUS
<1>3. PICK P : P = read[c]
  OBVIOUS
<1>4. ReadGood(ledger, P, m)
  BY <1>0, <1>2, <1>3 DEF PromotersInv, PromoterGood
<1>5. rows' = (rows \ RowsIn(rows, m)) \cup {RowAt(ledger, i) : i \in P}
  BY <1>2, <1>3, Reads DEF RebuildWrite, Rebuilt
<1>6. StoreInv'
  <2>1. StoreGood(ledger, (rows \ RowsIn(rows, m)) \cup {RowAt(ledger, i) : i \in P}, told, lost \ {m})
    BY <1>0, <1>4, RebuiltStore DEF StoreInv, Typed
  <2> QED BY <1>1, <1>2, <1>5, <2>1 DEF StoreInv
<1>7. Typed'
  <2>1. /\ pc' \in [Promoters -> PCs]
        /\ job' \in [Promoters -> Proposals \cup Memories \cup {None}]
        /\ read' \in [Promoters -> SUBSET DOMAIN ledger']
    BY <1>0, <1>1, IdleGood, MovesTyped
  <2> QED BY <1>0, <1>1, <2>1 DEF Typed
<1>8. Unseen(c, "idle", None, ledger, ledger')
  BY <1>1, IdleGood, UnseenLocal
<1>9. PromotersInv'
  BY <1>0, <1>1, <1>8, IdleGood, MovesGood
<1> QED BY <1>6, <1>7, <1>9 DEF IndInv

LEMMA AppendSourceGood ==
    ASSUME IndInv, NEW s \in Sources, AppendSource(s)
    PROVE  IndInv'
<1>0. Typed /\ StoreInv /\ PromotersInv
  BY DEF IndInv
<1> DEFINE e == [kind |-> "source", source |-> s, proposal |-> None, at |-> now, whole |-> TRUE]
<1>1. ledger' = Append(ledger, e)
      /\ UNCHANGED <<rows, now, pc, job, read, told, lost, losses>>
  BY DEF AppendSource
<1>2. e \in Events /\ e.kind = "source" /\ e.kind # "memory.promoted"
  BY <1>0 DEF Events, Typed
<1> HIDE DEF e
<1>3. PICK n : n = Len(ledger) + 1
  OBVIOUS
<1>4. Grown(ledger, e, n, ledger') /\ ledger' \in Seq(Events)
  BY <1>0, <1>1, <1>2, <1>3, GrownAppend DEF Typed
<1>5. DOMAIN ledger \subseteq DOMAIN ledger'
  BY <1>4, GrownIs
<1>6. Typed'
  BY <1>0, <1>1, <1>4, <1>5 DEF Typed
<1>7. StoreInv'
  <2>1. StoreGood(ledger', rows, told, lost)
    BY <1>0, <1>2, <1>4, GrownSource DEF StoreInv
  <2> QED BY <1>1, <2>1 DEF StoreInv
<1>8. PromotersInv'
  <2>1. \A c \in Promoters : PromoterGood(ledger', pc[c], job[c], read[c])
    BY <1>0, <1>2, <1>4, ReadStays DEF PromotersInv, PromoterGood
  <2> QED BY <1>0, <1>1, <2>1 DEF PromotersInv
<1> QED BY <1>6, <1>7, <1>8 DEF IndInv

LEMMA LoseRowsGood ==
    ASSUME IndInv, NEW m \in Memories, LoseRows(m)
    PROVE  IndInv'
<1>0. Typed /\ StoreInv /\ PromotersInv
  BY DEF IndInv
<1>1. /\ UNCHANGED <<ledger, now, pc, job, read, told>>
      /\ rows' = rows \ RowsIn(rows, m) /\ lost' = lost \cup {m}
      /\ losses < MaxLosses /\ losses' = losses + 1
  BY Reads DEF LoseRows
<1>2. losses' \in 0..MaxLosses
  BY <1>0, <1>1, BoundAssumption DEF Typed
<1>3. Typed'
  BY <1>0, <1>1, <1>2 DEF Typed
<1>4. StoreInv'
  <2>1. StoreGood(ledger, rows \ RowsIn(rows, m), told, lost \cup {m})
    BY <1>0, LostStore DEF StoreInv
  <2> QED BY <1>1, <2>1 DEF StoreInv
<1>5. PromotersInv'
  BY <1>0, <1>1 DEF PromotersInv
<1> QED BY <1>3, <1>4, <1>5 DEF IndInv

LEMMA TickGood ==
    ASSUME IndInv, Tick
    PROVE  IndInv'
<1>0. Typed /\ StoreInv /\ PromotersInv
  BY DEF IndInv
<1>1. UNCHANGED <<ledger, rows, pc, job, read, told, lost, losses>> /\ now' \in 0..MaxTime
  BY <1>0, BoundAssumption DEF Tick, Typed
<1> QED BY <1>0, <1>1 DEF IndInv, Typed, StoreInv, PromotersInv

-----------------------------------------------------------------------------
(* The theorems *)

LEMMA StepGood ==
    ASSUME IndInv, [Next]_memoryVars
    PROVE  IndInv'
<1>1. CASE Next
  <2>1. ASSUME NEW c \in Promoters, Refuse(c) \/ RebuildRefused(c) \/ Abort(c)
        PROVE  IndInv'
    BY <2>1, LeaveGood DEF Refuse, RebuildRefused, Abort
  <2> QED BY <1>1, <2>1, PromoteGood, LockMemoryGood, LockProposalGood, ReplayGood, CommitGood,
             RebuildReadGood, RebuildWriteGood, AppendSourceGood, LoseRowsGood, TickGood DEF Next
<1>2. CASE UNCHANGED memoryVars
  BY <1>2 DEF memoryVars, IndInv, Typed, StoreInv, PromotersInv
<1> QED BY <1>1, <1>2

(* The invariant of the promotions, the rows and the rebuilds holds in     *)
(* every state of persistence/memory.py and the functions of migration     *)
(* 0005, whatever is lost, aborted or promoted meanwhile.                  *)
THEOREM PromotionInductive == Spec => []IndInv
<1>1. Init => IndInv
  BY InitGood
<1>2. IndInv /\ [Next]_memoryVars => IndInv'
  BY StepGood
<1> QED BY <1>1, <1>2, PTL DEF Spec

(* The rows gah_memory_promote writes number the revisions of a memory     *)
(* without a gap and each once.                                            *)
THEOREM PromotionTypeCorrect == Spec => []TypeOK
<1>1. IndInv => TypeOK
  <2>1. SUFFICES ASSUME IndInv PROVE TypeOK
    OBVIOUS
  <2>2. Typed /\ StoreInv
    BY <2>1 DEF IndInv
  <2>3. \A i \in DOMAIN ledger : ledger[i] \in Events
    BY <2>2, LenProperties, ElementOfSeq DEF Typed
  <2>4. /\ rows \subseteq [proposal : Proposals, event : DOMAIN ledger]
        /\ told \subseteq [proposal : Proposals, event : DOMAIN ledger]
    BY <2>2 DEF StoreInv, StoreGood, OnRecord
  <2>5. \A m \in Memories : {Revision(r.proposal) : r \in RowsOf(m)} = 1..Cardinality(RowsOf(m))
    BY <2>2, Reads DEF StoreInv, StoreGood, Numbered
  <2> QED BY <2>2, <2>3, <2>4, <2>5 DEF TypeOK, Typed, PCs, Events
<1> QED BY <1>1, PromotionInductive, PTL

(* Without a second one the last revision was promoted last. *)
LEMMA LastPromoted ==
    ASSUME IndInv, NEW m \in Memories \ lost, NEW r \in Retrieved(m)
    PROVE  r.event = Max(PromotedOf(m))
<1>0. Typed /\ StoreInv /\ EventsGood(ledger)
  BY DEF IndInv, StoreInv, StoreGood
<1>1. PICK P : P = Promotions(ledger, m)
  OBVIOUS
<1>2. PromotedOf(m) = P /\ RowsOf(m) = RowsIn(rows, m)
  BY <1>1, Reads
<1>3. Numbered(RowsIn(rows, m)) /\ InOrder(ledger, m) /\ Projected(ledger, rows, m)
  BY <1>0 DEF StoreInv, StoreGood
<1>4. \A i \in P : RowAt(ledger, i) \in RowsIn(rows, m) /\ RowAt(ledger, i).event = i
                   /\ Revision(RowAt(ledger, i).proposal) = Rev(ledger, i)
  BY <1>1, <1>3 DEF Projected, RowAt, Rev
<1>5. ~Repeated(ledger, m)
  BY <1>1, <1>3, <1>4 DEF Repeated, Numbered
<1>6. \A i, j \in P : i < j => Rev(ledger, i) < Rev(ledger, j)
  BY <1>1, <1>3, <1>5 DEF InOrder
<1>7. r \in RowsIn(rows, m) /\ Revision(r.proposal) = LastRevision(m)
  BY <1>2 DEF Retrieved
<1>8. PICK i \in P : r = RowAt(ledger, i)
  BY <1>1, <1>3, <1>7 DEF Projected
<1>9. PICK k : k = Cardinality(RowsIn(rows, m))
  OBVIOUS
<1>10. k \in Nat /\ LastRevision(m) = k /\ {Revision(s.proposal) : s \in RowsIn(rows, m)} = 1..k
  BY <1>2, <1>3, <1>9, LastOfNumbered DEF LastRevision, Numbered
<1>11. Rev(ledger, i) = k /\ r.event = i
  BY <1>4, <1>7, <1>8, <1>10
<1>12. \A j \in P : Rev(ledger, j) \in 1..k
  BY <1>4, <1>10
<1>13. P \in SUBSET Int
  <2>1. DOMAIN ledger = 1..Len(ledger) /\ Len(ledger) \in Nat
    BY <1>0, LenProperties DEF Typed
  <2> QED BY <1>1, <2>1 DEF Promotions
<1>14. \A j \in P : ~(i < j)
  <2>1. ASSUME NEW j \in P, i < j PROVE FALSE
    <3>1. k < Rev(ledger, j) /\ Rev(ledger, j) \in 1..k
      BY <1>6, <1>11, <1>12, <2>1
    <3> QED BY <1>10, <3>1
  <2> QED BY <2>1
<1>15. \A j \in P : i >= j
  BY <1>13, <1>14
<1>16. Max(P) = i
  BY <1>13, <1>15, MaxIs
<1> QED BY <1>2, <1>11, <1>16

(* A rebuild never undoes a promotion that commits while it runs, and      *)
(* retrieve_memory never returns a revision that was not promoted last.    *)
THEOREM RowsFollowLedger == Spec => []RecordsFollowLedger
<1>1. IndInv => RecordsFollowLedger
  <2>1. SUFFICES ASSUME IndInv, NEW m \in Memories \ lost
                 PROVE  /\ RowsOf(m) = {Row(i) : i \in PromotedOf(m)}
                        /\ \A r \in Retrieved(m) : r.event = Max(PromotedOf(m))
    BY DEF RecordsFollowLedger
  <2>2. RowsIn(rows, m) = {RowAt(ledger, i) : i \in Promotions(ledger, m)}
    BY <2>1 DEF IndInv, StoreInv, StoreGood, Projected
  <2>3. RowsOf(m) = {Row(i) : i \in PromotedOf(m)}
    BY <2>2, Reads
  <2>4. \A r \in Retrieved(m) : r.event = Max(PromotedOf(m))
    BY <2>1, LastPromoted
  <2> QED BY <2>3, <2>4
<1> QED BY <1>1, PromotionInductive, PTL

(* promote_memory records a proposal identifier once while no rows are     *)
(* missing, and tells every caller the same event of it.                   *)
THEOREM PromotedOnce == Spec => []OnePromotion
<1>1. IndInv => OnePromotion
  <2>1. SUFFICES ASSUME IndInv PROVE OnePromotion
    OBVIOUS
  <2> DEFINE whole == {i \in DOMAIN ledger : ledger[i].kind = "memory.promoted" /\ ledger[i].whole}
  <2>2. OnRecord(ledger, told) /\ WholeOnce(ledger)
    BY <2>1 DEF IndInv, StoreInv, StoreGood
  <2>3. \A i, j \in whole : ledger[i].proposal.id = ledger[j].proposal.id => i = j
    BY <2>2 DEF WholeOnce, IsPromotion
  <2>4. \A r \in told : /\ ledger[r.event].proposal = r.proposal
                        /\ r \in [proposal : Proposals, event : DOMAIN ledger]
    BY <2>2 DEF OnRecord
  <2>5. ASSUME NEW r \in told, NEW s \in told, r.proposal.id = s.proposal.id,
               {r.event, s.event} \subseteq whole
        PROVE  r = s
    <3>1. r.event = s.event
      BY <2>3, <2>4, <2>5
    <3>2. r.proposal = s.proposal
      BY <2>4, <3>1
    <3> QED BY <2>4, <3>1, <3>2
  <2> QED BY <2>3, <2>4, <2>5 DEF OnePromotion
<1> QED BY <1>1, PromotionInductive, PTL

(* No promotion is recorded before its source evidence or after the end of *)
(* actor, proposal, scope or record: gah_commit_memory_transition checks   *)
(* these under the locks.  It does not check the approvals again, and      *)
(* nothing is said of them here.                                           *)
THEOREM PromotedAfterEvidence == Spec => []PromotedOnEvidence
<1>1. IndInv => PromotedOnEvidence
  BY DEF IndInv, StoreInv, StoreGood, EventsGood, IsPromotion, PromotedOnEvidence
<1> QED BY <1>1, PromotionInductive, PTL

===============================================================================

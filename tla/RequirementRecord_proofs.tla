----------------------- MODULE RequirementRecord_proofs -----------------------
(***************************************************************************)
(* Proofs about one requirement and its trail, for any inputs and bounds.  *)
(***************************************************************************)
EXTENDS RequirementRecord, SequenceTheorems, TLAPS

-----------------------------------------------------------------------------
(* A trail: what it says depends on the entries read, and the last of them  *)
(* has the last word on what it mentions.                                   *)

LEMMA SameEntries ==
    ASSUME NEW g, NEW h, NEW b, NEW f, NEW v, NEW n \in Nat, \A i \in 1..n : g[i] = h[i],
           Says(g, b, f, v, n)
    PROVE  Says(h, b, f, v, n)
<1>1. \A i \in 1..n : Mentions(g[i], f) <=> Mentions(h[i], f)
  BY DEF Mentions
<1>2. CASE v = b[f] /\ \A i \in 1..n : ~Mentions(g[i], f)
  BY <1>1, <1>2 DEF Says
<1>3. ASSUME NEW i \in 1..n, Mentions(g[i], f), v = g[i].summary[f][2],
             \A j \in i + 1 .. n : ~Mentions(g[j], f)
      PROVE  Says(h, b, f, v, n)
  <2>1. \A j \in i + 1 .. n : ~Mentions(h[j], f)
    BY <1>1, <1>3
  <2> QED BY <1>1, <1>3, <2>1 DEF Says
<1> QED BY <1>2, <1>3 DEF Says

LEMMA LastWord ==
    ASSUME NEW h, NEW b, NEW f, NEW n \in Nat \ {0}, Mentions(h[n], f)
    PROVE  Says(h, b, f, h[n].summary[f][2], n)
  BY DEF Says

LEMMA NothingSaid ==
    ASSUME NEW h, NEW b, NEW f, NEW v, NEW m \in Nat, NEW n \in 0..m,
           \A i \in n + 1 .. m : ~Mentions(h[i], f), Says(h, b, f, v, n)
    PROVE  Says(h, b, f, v, m)
<1>1. CASE v = b[f] /\ \A i \in 1..n : ~Mentions(h[i], f)
  BY <1>1 DEF Says
<1>2. ASSUME NEW i \in 1..n, Mentions(h[i], f), v = h[i].summary[f][2],
             \A j \in i + 1 .. n : ~Mentions(h[j], f)
      PROVE  Says(h, b, f, v, m)
  <2>1. \A j \in i + 1 .. m : ~Mentions(h[j], f)
    BY <1>2
  <2> QED BY <1>2, <2>1 DEF Says
<1> QED BY <1>1, <1>2 DEF Says

LEMMA FunctionIsSeq ==
    ASSUME NEW S, NEW n \in Nat, NEW s \in [1..n -> S] PROVE s \in Seq(S) /\ Len(s) = n
<1>1. s \in Seq(S)
  BY SeqDef, Zenon
<1> QED BY <1>1, LenProperties

-----------------------------------------------------------------------------
(* Types.  A trail is a sequence of entries whose summaries are pairs of     *)
(* field values.                                                             *)

Values == Claims \cup RequirementStates \cup EnforcementLevels \cup Nat
          \cup SUBSET UNION EnforcerLists \cup SUBSET UNION EvidenceLists \cup Seq(Entries)
Summaries == UNION {[F -> Values \X Values] : F \in SUBSET Fields}
TrailEntries == [at : Days, by : Stakeholders \cup {Nobody}, summary : Summaries]

TypeInv ==
    /\ row \in Rows \cup {Missing} /\ born \in Rows \cup {Missing}
    /\ row = Missing <=> born = Missing
    /\ row = Missing => history = <<>>
    /\ history \in Seq(TrailEntries)

LEMMA FieldValue == ASSUME NEW r \in Rows, NEW f \in Fields PROVE r[f] \in Values
<1>1. /\ r["claim"] \in Values /\ r["status"] \in Values /\ r["enforcement"] \in Values
      /\ r["enforced_by"] \in Values /\ r["settled_at"] \in Values
      /\ r["last_reviewed_at"] \in Values /\ r["evidence"] \in Values
      /\ r["gate_signoffs"] \in Values
  BY DEF Rows, Values
<1> QED BY <1>1 DEF Fields

LEMMA SummaryType ==
    ASSUME NEW old \in Rows, NEW new \in Rows
    PROVE  summarizeFieldDiff(old, new) \in Summaries
<1> DEFINE F == {g \in Fields : old[g] # new[g]}
<1>1. \A f \in F : <<old[f], new[f]>> \in Values \X Values
  BY FieldValue
<1>2. summarizeFieldDiff(old, new) \in [F -> Values \X Values]
  BY <1>1 DEF summarizeFieldDiff
<1>3. F \in SUBSET Fields
  OBVIOUS
<1> QED BY <1>2, <1>3 DEF Summaries

LEMMA NarratedType ==
    ASSUME NEW old \in Rows, NEW new \in Rows, NEW today \in Days,
           NEW by \in Stakeholders \cup {Nobody}, history \in Seq(TrailEntries)
    PROVE  narrated(old, new, today, by) \in Seq(TrailEntries)
<1>1. [at |-> today, by |-> by, summary |-> summarizeFieldDiff(old, new)] \in TrailEntries
  BY SummaryType DEF TrailEntries
<1> QED BY <1>1 DEF narrated

LEMMA UpdatedType ==
    ASSUME NEW old \in Rows, NEW p \in Proposals, NEW today \in Days
    PROVE  updated(old, p, today) \in Rows
<1>1. coalesceStr(p.enforcement, old.enforcement) \in EnforcementLevels
  BY InputsAssumption DEF coalesceStr, Proposals, Rows
<1>2. resolveEnforcedBy(p.enforced_by, old.enforced_by) \in SUBSET UNION EnforcerLists
  BY DEF resolveEnforcedBy, coalesceSlice, Proposals, Rows
<1>3. settledAt(p, old, today) \in Nat
  BY DatesAssumption DEF settledAt, Proposals, Rows
<1>4. coalesceDate(p.last_reviewed_at, old.last_reviewed_at) \in Nat
  BY DatesAssumption DEF coalesceDate, Proposals, Rows
<1>5. coalesceSlice(p.evidence, old.evidence) \in SUBSET UNION EvidenceLists
  BY DEF coalesceSlice, Proposals, Rows
<1>6. p.claim \in Claims /\ p.status \in RequirementStates /\ old.gate_signoffs \in Seq(Entries)
  BY InputsAssumption DEF Proposals, Rows
<1> QED BY <1>1, <1>2, <1>3, <1>4, <1>5, <1>6 DEF updated, Rows

LEMMA ReviewedType ==
    ASSUME NEW reviewedAt \in ReviewDates, NEW evidence \in EvidenceLists, NEW today \in Days,
           row \in Rows
    PROVE  reviewed(reviewedAt, evidence, today) \in Rows
<1>1. coalesceDate(reviewedAt, today) \in Nat
  BY DatesAssumption DEF coalesceDate
<1>2. evidence \in SUBSET UNION EvidenceLists
  BY Zenon
<1> QED BY <1>1, <1>2 DEF reviewed, Rows

LEMMA CreatedType ==
    ASSUME NEW p \in Proposals, NEW today \in Days
    PROVE  created(p, today) \in Rows
<1>1. coalesceStr(p.enforcement, "PROSE") \in EnforcementLevels
  BY InputsAssumption DEF coalesceStr, Proposals, EnforcementLevels
<1>2. (IF p.status = "SETTLED" THEN coalesceDate(p.settled_at, today) ELSE p.settled_at) \in Nat
  BY DatesAssumption DEF coalesceDate, Proposals
<1>3. p.claim \in Claims /\ p.status \in RequirementStates
  BY InputsAssumption DEF Proposals
<1>4. p.enforced_by \in SUBSET UNION EnforcerLists /\ p.evidence \in SUBSET UNION EvidenceLists
  BY Zenon DEF Proposals
<1>5. p.last_reviewed_at \in Nat
  BY DatesAssumption DEF Proposals
<1>6. <<>> \in Seq(Entries)
  BY EmptySeq
<1> QED BY <1>1, <1>2, <1>3, <1>4, <1>5, <1>6 DEF created, Rows

LEMMA BatchType ==
    ASSUME NEW n \in Batches, NEW entries \in [1..n -> Entries], NEW today \in Days,
           row \in Rows
    PROVE  /\ entries \in Seq(Entries) /\ Len(entries) = n
           /\ [row EXCEPT !.gate_signoffs = @ \o entries] \in Rows
           /\ narratedBatch(entries, today) \in Seq(TrailEntries)
           /\ Len(narratedBatch(entries, today)) = n
<1>1. n \in Nat
  BY InputsAssumption
<1>2. entries \in Seq(Entries) /\ Len(entries) = n
  BY <1>1, FunctionIsSeq
<1>3. row.gate_signoffs \in Seq(Entries)
  BY DEF Rows
<1>4. [row EXCEPT !.gate_signoffs = @ \o entries] \in Rows
  <2>1. row.gate_signoffs \o entries \in Seq(Entries)
    BY <1>2, <1>3, ConcatProperties
  <2> QED BY <2>1 DEF Rows
<1> DEFINE pair(i) == <<row.gate_signoffs \o SubSeq(entries, 1, i - 1),
                        row.gate_signoffs \o SubSeq(entries, 1, i)>>
           entry(i) == [at |-> today, by |-> Nobody,
                        summary |-> [f \in {"gate_signoffs"} |-> pair(i)]]
<1>5. ASSUME NEW i \in 1..n PROVE entry(i) \in TrailEntries
  <2>1. \A k \in 0..n : SubSeq(entries, 1, k) \in Seq(Entries)
    BY <1>1, <1>2, SubSeqProperties
  <2>2. \A k \in 0..n : row.gate_signoffs \o SubSeq(entries, 1, k) \in Seq(Entries)
    BY <1>3, <2>1, ConcatProperties
  <2>3. i \in 0..n /\ i - 1 \in 0..n
    BY <1>1
  <2>4. pair(i) \in Values \X Values
    BY <2>2, <2>3 DEF Values
  <2> HIDE DEF pair
  <2>5. [f \in {"gate_signoffs"} |-> pair(i)] \in [{"gate_signoffs"} -> Values \X Values]
    BY <2>4
  <2>6. [f \in {"gate_signoffs"} |-> pair(i)] \in Summaries
    BY <2>5 DEF Summaries, Fields
  <2> QED BY <2>6 DEF TrailEntries
<1>6. narratedBatch(entries, today) = [i \in 1..n |-> entry(i)]
  BY <1>2, Zenon DEF narratedBatch
<1>7. narratedBatch(entries, today) \in [1..n -> TrailEntries]
  <2> HIDE DEF entry
  <2> QED BY <1>5, <1>6
<1>8. narratedBatch(entries, today) \in Seq(TrailEntries) /\ Len(narratedBatch(entries, today)) = n
  BY <1>1, <1>7, FunctionIsSeq
<1> QED BY <1>2, <1>4, <1>8

LEMMA StepType == TypeInv /\ [Next]_vars => TypeInv'
<1> SUFFICES ASSUME TypeInv, [Next]_vars PROVE TypeInv'
  OBVIOUS
<1>1. ASSUME NEW p \in Proposals, NEW signoff \in Deciders \cup {Nobody}, NEW today \in Days,
             CreateRequirement(p, signoff, today)
      PROVE  TypeInv'
  <2>1. created(p, today) \in Rows
    BY CreatedType
  <2>2. row' = created(p, today) /\ born' = row' /\ history' = <<>>
    BY <1>1 DEF CreateRequirement, Apply
  <2> QED BY <2>1, <2>2, MissingAssumption, EmptySeq DEF TypeInv
<1>2. ASSUME NEW p \in Proposals, NEW signoff \in Deciders \cup {Nobody}, NEW today \in Days,
             UpdateRequirement(p, signoff, today)
      PROVE  TypeInv'
  <2>1. row \in Rows /\ signoff \in Stakeholders \cup {Nobody}
    BY <1>2 DEF UpdateRequirement, resolveHistorySignoff, TypeInv
  <2>2. updated(row, p, today) \in Rows
    BY <2>1, UpdatedType
  <2>3. narrated(row, updated(row, p, today), today, signoff) \in Seq(TrailEntries)
    BY <2>1, <2>2, NarratedType DEF TypeInv
  <2>4. /\ row' = updated(row, p, today) /\ born' = born
        /\ history' = narrated(row, updated(row, p, today), today, signoff)
    BY <1>2 DEF UpdateRequirement, Apply
  <2> QED BY <2>1, <2>2, <2>3, <2>4, MissingAssumption DEF TypeInv
<1>3. ASSUME ProposedRejection PROVE TypeInv'
  <2>1. row \in Rows
    BY <1>3 DEF ProposedRejection, TypeInv
  <2>2. [row EXCEPT !.status = "REJECTED"] \in Rows
    BY <2>1 DEF Rows, RequirementStates
  <2>3. row' = [row EXCEPT !.status = "REJECTED"] /\ history' = history /\ born' = born
    BY <1>3 DEF ProposedRejection, Apply
  <2> QED BY <2>1, <2>2, <2>3, MissingAssumption DEF TypeInv
<1>4. ASSUME NEW reviewedAt \in ReviewDates, NEW evidence \in EvidenceLists, NEW today \in Days,
             ProposedReviewMark(reviewedAt, evidence, today)
      PROVE  TypeInv'
  <2>1. row \in Rows
    BY <1>4 DEF ProposedReviewMark, TypeInv
  <2>2. reviewed(reviewedAt, evidence, today) \in Rows
    BY <2>1, ReviewedType
  <2>3. narrated(row, reviewed(reviewedAt, evidence, today), today, Nobody) \in Seq(TrailEntries)
    BY <2>1, <2>2, NarratedType DEF TypeInv
  <2>4. /\ row' = reviewed(reviewedAt, evidence, today) /\ born' = born
        /\ history' = narrated(row, reviewed(reviewedAt, evidence, today), today, Nobody)
    BY <1>4 DEF ProposedReviewMark, Apply
  <2> QED BY <2>1, <2>2, <2>3, <2>4, MissingAssumption DEF TypeInv
<1>5. ASSUME NEW n \in Batches, NEW entries \in [1..n -> Entries], NEW today \in Days,
             ProposedGateSignoffBatch(entries, today)
      PROVE  TypeInv'
  <2>1. row \in Rows
    BY <1>5 DEF ProposedGateSignoffBatch, TypeInv
  <2>2. /\ row' = [row EXCEPT !.gate_signoffs = @ \o entries] /\ born' = born
        /\ history' = history \o narratedBatch(entries, today)
    BY <1>5 DEF ProposedGateSignoffBatch, Apply
  <2>3. history' \in Seq(TrailEntries)
    BY <2>1, <2>2, BatchType, ConcatProperties DEF TypeInv
  <2> QED BY <2>1, <2>2, <2>3, BatchType, MissingAssumption DEF TypeInv
<1>6. CASE UNCHANGED vars
  BY <1>6 DEF TypeInv, vars
<1> QED
  BY <1>1, <1>2, <1>3, <1>4, <1>5, <1>6
     DEF Next, Rejection, Requirement, ReviewMark, GateSignoffBatch

(* The record and its trail have their types: an entry has a day of the     *)
(* command that wrote it, a known decider or nobody, and values of fields   *)
(* (ProposedRequirement.mutate, history.go).                                *)
THEOREM TypeCorrect == Spec => []TypeOK
<1>1. Init => TypeInv
  BY EmptySeq DEF Init, TypeInv
<1>2. TypeInv => TypeOK
  <2> SUFFICES ASSUME TypeInv, NEW i \in DOMAIN history
        PROVE  /\ history[i].at \in Days /\ history[i].by \in Stakeholders \cup {Nobody}
               /\ DOMAIN history[i].summary \subseteq Fields
    BY DEF TypeInv, TypeOK
  <2>1. history[i] \in TrailEntries
    BY LenProperties, ElementOfSeq DEF TypeInv
  <2> QED BY <2>1 DEF TrailEntries, Summaries
<1> QED BY <1>1, <1>2, StepType, PTL DEF Spec

-----------------------------------------------------------------------------
(* The trail explains the record, and every kind of step keeps it so.       *)

LEMMA ExplainedFurther ==
    ASSUME NEW g \in Seq(TrailEntries), NEW h \in Seq(TrailEntries), NEW b, NEW f, NEW v,
           Len(g) <= Len(h), \A i \in 1..Len(g) : g[i] = h[i],
           NEW n \in 0..Len(g), NEW m \in n..Len(h),
           \A i \in n + 1 .. m : ~Mentions(h[i], f), Explained(g, b, f, v, n)
    PROVE  Explained(h, b, f, v, m)
<1>1. Len(g) \in Nat /\ Len(h) \in Nat
  BY LenProperties
<1>2. CASE f = "status" /\ v = "REJECTED"
  BY <1>2 DEF Explained
<1>3. CASE Says(g, b, f, v, n)
  <2>1. n \in Nat /\ m \in Nat /\ n \in 0..m /\ \A i \in 1..n : g[i] = h[i]
    BY <1>1
  <2>2. Says(h, b, f, v, n)
    BY <1>3, <2>1, SameEntries
  <2>3. Says(h, b, f, v, m)
    BY <2>1, <2>2, NothingSaid
  <2> QED BY <2>3 DEF Explained
<1> QED BY <1>2, <1>3 DEF Explained

(* One entry, of the fields that differ.                                    *)
LEMMA NarratedExplains ==
    ASSUME NEW b, NEW old \in Rows, NEW new \in Rows, NEW today \in Days,
           NEW by \in Stakeholders \cup {Nobody}, history \in Seq(TrailEntries),
           Explains(history, b, old)
    PROVE  Explains(narrated(old, new, today, by), b, new)
<1> DEFINE summary == summarizeFieldDiff(old, new)
           e == [at |-> today, by |-> by, summary |-> summary]
           h == Append(history, e)
           N == Len(history)
<1>1. DOMAIN summary = {f \in Fields : old[f] # new[f]}
  BY DEF summarizeFieldDiff
<1>2. CASE DOMAIN summary = {} /\ by = Nobody
  <2>1. \A f \in Fields : new[f] = old[f]
    BY <1>1, <1>2
  <2>2. narrated(old, new, today, by) = history
    BY <1>2 DEF narrated
  <2> QED BY <2>1, <2>2 DEF Explains
<1>3. CASE ~(DOMAIN summary = {} /\ by = Nobody)
  <2>1. narrated(old, new, today, by) = h
    BY <1>3 DEF narrated
  <2>2. e \in TrailEntries
    BY SummaryType DEF TrailEntries
  <2> HIDE DEF e
  <2>3. N \in Nat /\ h \in Seq(TrailEntries) /\ Len(h) = N + 1 /\ DOMAIN h = 1..N + 1
        /\ DOMAIN history = 1..N /\ h[N + 1] = e /\ \A i \in 1..N : history[i] = h[i]
    BY <2>2, AppendProperties, LenProperties
  <2>4. \A f \in Fields : /\ Mentions(e, f) <=> old[f] # new[f]
                          /\ Mentions(e, f) => e.summary[f][1] = old[f] /\ e.summary[f][2] = new[f]
    BY <1>1 DEF e, Mentions, summarizeFieldDiff
  <2>5. \A f \in DOMAIN e.summary : f \in Fields /\ Mentions(e, f)
    BY <1>1 DEF e, Mentions
  <2> HIDE DEF h, N, summary
  <2>6. ASSUME NEW f \in Fields PROVE Explained(h, b, f, new[f], N + 1)
    <3>1. CASE Mentions(e, f)
      <4>1. Mentions(h[N + 1], f) /\ N + 1 \in Nat \ {0}
        BY <2>3, <3>1
      <4>2. Says(h, b, f, h[N + 1].summary[f][2], N + 1)
        BY <4>1, LastWord, Zenon
      <4> QED BY <2>3, <2>4, <3>1, <4>2 DEF Explained
    <3>2. CASE ~Mentions(e, f)
      <4>1. Explained(history, b, f, new[f], N)
        BY <2>4, <3>2 DEF Explains, N
      <4>2. \A i \in N + 1 .. N + 1 : ~Mentions(h[i], f)
        BY <2>3, <3>2
      <4>3. N \in 0..Len(history) /\ N + 1 \in N..Len(h) /\ Len(history) <= Len(h)
        BY <2>3 DEF N
      <4>4. \A i \in 1..Len(history) : history[i] = h[i]
        BY <2>3 DEF N
      <4> QED BY <2>3, <4>1, <4>2, <4>3, <4>4, ExplainedFurther
    <3> QED BY <3>1, <3>2
  <2>7. ASSUME NEW i \in DOMAIN h, NEW f \in DOMAIN h[i].summary
        PROVE  Explained(h, b, f, h[i].summary[f][1], i - 1)
    <3>1. Explained(history, b, f, h[i].summary[f][1], i - 1)
      <4>1. CASE i \in 1..N
        BY <2>3, <4>1 DEF Explains
      <4>2. CASE i = N + 1
        BY <2>3, <2>4, <2>5, <4>2 DEF Explains, N
      <4> QED BY <2>3, <4>1, <4>2
    <3>2. i - 1 \in 0..Len(history) /\ i - 1 \in i - 1 .. Len(h) /\ Len(history) <= Len(h)
      BY <2>3 DEF N
    <3>3. \A j \in 1..Len(history) : history[j] = h[j]
      BY <2>3 DEF N
    <3>4. \A j \in (i - 1) + 1 .. i - 1 : ~Mentions(h[j], f)
      BY <2>3
    <3> QED BY <2>3, <3>1, <3>2, <3>3, <3>4, ExplainedFurther
  <2> QED BY <2>1, <2>3, <2>6, <2>7 DEF Explains
<1> QED BY <1>2, <1>3

(* A batch: each entry starts with the signoffs the one before it left.     *)
LEMMA BatchExplains ==
    ASSUME NEW b, NEW n \in Batches, NEW entries \in [1..n -> Entries], NEW today \in Days,
           row \in Rows, history \in Seq(TrailEntries), Explains(history, b, row)
    PROVE  Explains(history \o narratedBatch(entries, today), b,
                    [row EXCEPT !.gate_signoffs = @ \o entries])
<1> DEFINE gates == row.gate_signoffs
           new == [row EXCEPT !.gate_signoffs = @ \o entries]
           batch == narratedBatch(entries, today)
           h == history \o batch
           N == Len(history)
           after(k) == gates \o SubSeq(entries, 1, k)
           gate == "gate_signoffs"
<1>1. n \in Nat \ {0} /\ entries \in Seq(Entries) /\ Len(entries) = n
      /\ gates \in Seq(Entries)
  BY BatchType, InputsAssumption DEF Rows
<1>2. /\ N \in Nat /\ h \in Seq(TrailEntries) /\ Len(h) = N + n /\ DOMAIN h = 1..N + n
      /\ DOMAIN history = 1..N
      /\ \A i \in 1..N : history[i] = h[i]
      /\ \A i \in 1..n : h[N + i] = batch[i]
  <2>1. batch \in Seq(TrailEntries) /\ Len(batch) = n
    BY BatchType
  <2> HIDE DEF batch
  <2>2. N \in Nat /\ DOMAIN history = 1..N
    BY LenProperties
  <2>3. /\ h \in Seq(TrailEntries) /\ Len(h) = N + n
        /\ \A i \in 1..N + n : h[i] = IF i <= N THEN history[i] ELSE batch[i - N]
    BY <2>1, ConcatProperties
  <2>4. DOMAIN h = 1..N + n
    BY <2>3, LenProperties
  <2> HIDE DEF N, h
  <2>5. \A i \in 1..N : history[i] = h[i]
    BY <1>1, <2>2, <2>3
  <2>6. \A i \in 1..n : N + i \in 1..N + n /\ ~(N + i <= N) /\ (N + i) - N = i
    BY <1>1, <2>2
  <2>7. \A i \in 1..n : h[N + i] = batch[i]
    BY <2>3, <2>6
  <2> QED BY <2>2, <2>3, <2>4, <2>5, <2>7
<1>3. \A i \in 1..n : /\ DOMAIN batch[i].summary = {gate}
                      /\ batch[i].summary[gate][1] = after(i - 1)
                      /\ batch[i].summary[gate][2] = after(i)
  BY <1>1 DEF narratedBatch
<1>4. after(0) = gates
  <2>1. SubSeq(entries, 1, 0) = <<>>
    BY SubSeqEmpty
  <2> QED BY <1>1, <2>1, ConcatEmptySeq
<1>5. \A f \in Fields : IF f = gate THEN new[f] = after(n) ELSE new[f] = row[f]
  <2>1. SubSeq(entries, 1, n) = entries
    BY <1>1, SubSeqFull
  <2> QED BY <2>1 DEF Rows, Fields
<1> HIDE DEF h, N, batch, after, new, gates
<1>6. \A k \in 1..n : Explained(h, b, gate, after(k), N + k)
  <2> SUFFICES ASSUME NEW k \in 1..n PROVE Explained(h, b, gate, after(k), N + k)
    OBVIOUS
  <2>1. Mentions(h[N + k], gate) /\ N + k \in Nat \ {0}
    <3>1. h[N + k] = batch[k] /\ DOMAIN batch[k].summary = {gate}
      BY <1>2, <1>3
    <3>2. N + k \in Nat \ {0}
      BY <1>1, <1>2
    <3> QED BY <3>1, <3>2 DEF Mentions
  <2>2. Says(h, b, gate, h[N + k].summary[gate][2], N + k)
    BY <2>1, LastWord, Zenon
  <2>3. h[N + k].summary[gate][2] = after(k)
    BY <1>2, <1>3
  <2> QED BY <2>2, <2>3 DEF Explained
<1>7. ASSUME NEW f, NEW v, NEW k \in 0..N, NEW m \in k..N + n, Explained(history, b, f, v, k),
             \A i \in k + 1 .. m : ~Mentions(h[i], f)
      PROVE  Explained(h, b, f, v, m)
  <2>1. k \in 0..Len(history) /\ m \in k..Len(h) /\ Len(history) <= Len(h)
    BY <1>1, <1>2 DEF N
  <2>2. \A i \in 1..Len(history) : history[i] = h[i]
    BY <1>2 DEF N
  <2> QED BY <1>2, <1>7, <2>1, <2>2, ExplainedFurther
<1>8. ASSUME NEW f \in Fields PROVE Explained(h, b, f, new[f], N + n)
  <2>1. CASE f = gate
    BY <1>1, <1>5, <1>6, <2>1
  <2>2. CASE f # gate
    <3>1. Explained(history, b, f, new[f], N)
      BY <1>5, <2>2 DEF Explains, N
    <3>2. \A i \in N + 1 .. N + n : ~Mentions(h[i], f)
      <4> SUFFICES ASSUME NEW i \in N + 1 .. N + n PROVE ~Mentions(h[i], f)
        OBVIOUS
      <4>1. i - N \in 1..n /\ N + (i - N) = i
        BY <1>1, <1>2
      <4>2. h[i] = batch[i - N]
        BY <1>2, <4>1
      <4> QED BY <1>3, <2>2, <4>1, <4>2 DEF Mentions
    <3>3. N \in 0..N /\ N + n \in N..N + n
      BY <1>1, <1>2
    <3> QED BY <1>7, <3>1, <3>2, <3>3
  <2> QED BY <2>1, <2>2
<1>9. ASSUME NEW i \in DOMAIN h, NEW f \in DOMAIN h[i].summary
      PROVE  Explained(h, b, f, h[i].summary[f][1], i - 1)
  <2>1. CASE i \in 1..N
    <3>1. Explained(history, b, f, h[i].summary[f][1], i - 1)
      BY <1>2, <2>1 DEF Explains
    <3>2. i - 1 \in 0..N /\ i - 1 \in i - 1 .. N + n /\ \A j \in (i - 1) + 1 .. i - 1 : FALSE
      BY <1>1, <1>2, <2>1
    <3> QED BY <1>7, <3>1, <3>2
  <2>2. CASE i \in N + 1 .. N + n
    <3>1. i - N \in 1..n /\ N + (i - N) = i
      BY <1>1, <1>2, <2>2
    <3>2. h[i] = batch[i - N]
      BY <1>2, <3>1
    <3>3. f = gate /\ h[i].summary[f][1] = after(i - N - 1)
      BY <1>3, <3>1, <3>2
    <3>4. CASE i = N + 1
      <4>1. Explained(history, b, gate, gates, N)
        BY <1>1 DEF Explains, N, gates, Fields
      <4>2. N \in 0..N /\ N \in N..N + n /\ \A j \in N + 1 .. N : FALSE
        BY <1>1, <1>2
      <4>3. Explained(h, b, gate, gates, N)
        BY <1>7, <4>1, <4>2
      <4> QED BY <1>2, <1>4, <3>3, <3>4, <4>3
    <3>5. CASE i # N + 1
      <4>1. i - N - 1 \in 1..n /\ N + (i - N - 1) = i - 1
        BY <1>1, <1>2, <2>2, <3>5
      <4> QED BY <1>6, <3>3, <4>1
    <3> QED BY <3>4, <3>5
  <2> QED BY <1>1, <1>2, <2>1, <2>2
<1> QED BY <1>2, <1>8, <1>9 DEF Explains, h, batch, new

LEMMA StepExplains == TypeInv /\ TrailExplainsRecord /\ [Next]_vars => TrailExplainsRecord'
<1> SUFFICES ASSUME TypeInv, TrailExplainsRecord, [Next]_vars, row' # Missing
             PROVE  Explains(history', born', row')
  BY DEF TrailExplainsRecord
<1>1. ASSUME NEW p \in Proposals, NEW signoff \in Deciders \cup {Nobody}, NEW today \in Days,
             CreateRequirement(p, signoff, today)
      PROVE  Explains(history', born', row')
  <2>1. born' = row' /\ history' = <<>>
    BY <1>1 DEF CreateRequirement, Apply
  <2>2. Len(<<>>) = 0 /\ DOMAIN <<>> = {}
    OBVIOUS
  <2> QED BY <2>1, <2>2 DEF Explains, Explained, Says
<1>2. ASSUME NEW p \in Proposals, NEW signoff \in Deciders \cup {Nobody}, NEW today \in Days,
             UpdateRequirement(p, signoff, today)
      PROVE  Explains(history', born', row')
  <2>1. row \in Rows /\ signoff \in Stakeholders \cup {Nobody} /\ Explains(history, born, row)
    BY <1>2 DEF UpdateRequirement, resolveHistorySignoff, TypeInv, TrailExplainsRecord
  <2>2. updated(row, p, today) \in Rows
    BY <2>1, UpdatedType
  <2>3. /\ row' = updated(row, p, today) /\ born' = born
        /\ history' = narrated(row, updated(row, p, today), today, signoff)
    BY <1>2 DEF UpdateRequirement, Apply
  <2> QED BY <2>1, <2>2, <2>3, NarratedExplains DEF TypeInv
<1>3. ASSUME ProposedRejection PROVE Explains(history', born', row')
  <2>1. row \in Rows /\ Explains(history, born, row)
    BY <1>3 DEF ProposedRejection, TypeInv, TrailExplainsRecord
  <2>2. row' = [row EXCEPT !.status = "REJECTED"] /\ history' = history /\ born' = born
    BY <1>3 DEF ProposedRejection, Apply
  <2>3. \A f \in Fields : row'[f] = IF f = "status" THEN "REJECTED" ELSE row[f]
    BY <2>1, <2>2 DEF Rows, Fields
  <2> QED BY <2>1, <2>2, <2>3 DEF Explains, Explained
<1>4. ASSUME NEW reviewedAt \in ReviewDates, NEW evidence \in EvidenceLists, NEW today \in Days,
             ProposedReviewMark(reviewedAt, evidence, today)
      PROVE  Explains(history', born', row')
  <2>1. row \in Rows /\ Explains(history, born, row)
    BY <1>4 DEF ProposedReviewMark, TypeInv, TrailExplainsRecord
  <2>2. reviewed(reviewedAt, evidence, today) \in Rows
    BY <2>1, ReviewedType
  <2>3. /\ row' = reviewed(reviewedAt, evidence, today) /\ born' = born
        /\ history' = narrated(row, reviewed(reviewedAt, evidence, today), today, Nobody)
    BY <1>4 DEF ProposedReviewMark, Apply
  <2> QED BY <2>1, <2>2, <2>3, NarratedExplains DEF TypeInv
<1>5. ASSUME NEW n \in Batches, NEW entries \in [1..n -> Entries], NEW today \in Days,
             ProposedGateSignoffBatch(entries, today)
      PROVE  Explains(history', born', row')
  <2>1. row \in Rows /\ Explains(history, born, row)
    BY <1>5 DEF ProposedGateSignoffBatch, TypeInv, TrailExplainsRecord
  <2>2. /\ row' = [row EXCEPT !.gate_signoffs = @ \o entries] /\ born' = born
        /\ history' = history \o narratedBatch(entries, today)
    BY <1>5 DEF ProposedGateSignoffBatch, Apply
  <2> QED BY <2>1, <2>2, BatchExplains DEF TypeInv
<1>6. CASE UNCHANGED vars
  BY <1>6 DEF TrailExplainsRecord, vars
<1> QED
  BY <1>1, <1>2, <1>3, <1>4, <1>5, <1>6
     DEF Next, Rejection, Requirement, ReviewMark, GateSignoffBatch

(* The trail explains the record: the value of every field is the one the   *)
(* last entry to mention it wrote, or the creation did, and every entry     *)
(* starts from the value the trail had by then; only the status REJECTED    *)
(* may come from no entry (summarizeFieldDiff and its callers).             *)
THEOREM TrailExplains == Spec => []TrailExplainsRecord
<1>1. Init => TypeInv /\ TrailExplainsRecord
  BY EmptySeq DEF Init, TypeInv, TrailExplainsRecord
<1>2. TypeInv /\ TrailExplainsRecord /\ [Next]_vars => (TypeInv /\ TrailExplainsRecord)'
  BY StepType, StepExplains
<1> QED BY <1>1, <1>2, PTL DEF Spec

-----------------------------------------------------------------------------
(* The checks.  A step keeps a record that breaks none of them, since its   *)
(* violations are among those of the record before.                         *)

Unviolated == AllViolations(row, history) = {}

LEMMA StepUnviolated == Unviolated /\ [Next]_vars => Unviolated'
<1> SUFFICES ASSUME Unviolated, [Next]_vars PROVE Unviolated'
  OBVIOUS
<1>1. ASSUME NEW r, NEW h, Apply(r, h) PROVE Unviolated'
  BY <1>1 DEF Apply, Unviolated
<1>2. CASE UNCHANGED vars
  BY <1>2 DEF Unviolated, vars
<1> QED
  BY <1>1, <1>2 DEF Next, Rejection, Requirement, ReviewMark, GateSignoffBatch, CreateRequirement,
     UpdateRequirement, ProposedRejection, ProposedReviewMark, ProposedGateSignoffBatch

(* What is SETTLED and ENFORCED names an enforcer, and only such as exist:  *)
(* the checks judge the record after the patch rules have chosen, field by  *)
(* field, between what was sent and what was there (applyToGraph).          *)
THEOREM EnforcedStaysReal == Spec => []EnforcedIsReal
<1>1. Init => Unviolated
  BY DEF Init, Unviolated, AllViolations
<1>2. Unviolated => EnforcedIsReal
  BY DEF Unviolated, EnforcedIsReal, AllViolations, Found, enforcedNamesSomebody,
     enforcedByResolvable
<1> QED BY <1>1, <1>2, StepUnviolated, PTL DEF Spec

-----------------------------------------------------------------------------
(* The day of the decision.                                                 *)

LEMMA SameDay ==
    ASSUME NEW old, NEW new, NEW g, NEW h, NEW b, OnItsDay(old, g, b),
           new.status = old.status, new.settled_at = old.settled_at,
           \A i \in DOMAIN g : i \in DOMAIN h /\ h[i] = g[i]
    PROVE  OnItsDay(new, h, b)
  BY DEF OnItsDay

LEMMA NarratedExtends ==
    ASSUME NEW old \in Rows, NEW new \in Rows, NEW today \in Days,
           NEW by \in Stakeholders \cup {Nobody}, history \in Seq(TrailEntries)
    PROVE  LET h == narrated(old, new, today, by)
           IN  \A i \in DOMAIN history : i \in DOMAIN h /\ h[i] = history[i]
<1> DEFINE e == [at |-> today, by |-> by, summary |-> summarizeFieldDiff(old, new)]
<1>1. e \in TrailEntries
  BY SummaryType DEF TrailEntries
<1>2. narrated(old, new, today, by) \in {history, Append(history, e)}
  BY DEF narrated
<1> HIDE DEF e
<1> QED BY <1>1, <1>2, AppendProperties, LenProperties

LEMMA UpdateOnItsDay ==
    ASSUME NEW b, NEW p \in Proposals, NEW today \in Days, NEW by \in Stakeholders \cup {Nobody},
           row \in Rows, history \in Seq(TrailEntries), OnItsDay(row, history, b)
    PROVE  LET new == updated(row, p, today)
           IN  OnItsDay(new, narrated(row, new, today, by), b)
<1> DEFINE new == updated(row, p, today)
           h == narrated(row, new, today, by)
           e == [at |-> today, by |-> by, summary |-> summarizeFieldDiff(row, new)]
           N == Len(history)
<1>1. new \in Rows /\ new.status = p.status /\ new.settled_at = settledAt(p, row, today)
  BY UpdatedType DEF updated
<1>2. \A i \in DOMAIN history : i \in DOMAIN h /\ h[i] = history[i]
  BY <1>1, NarratedExtends
<1>3. today # 0
  BY DatesAssumption
<1>4. CASE p.settled_at # 0
  BY <1>1, <1>4 DEF OnItsDay, settledAt, Proposals
<1>5. CASE p.settled_at = 0 /\ p.status = "SETTLED" /\ row.status # "SETTLED"
  <2>1. "status" \in DOMAIN e.summary /\ e.summary["status"][2] = "SETTLED"
    BY <1>1, <1>5 DEF summarizeFieldDiff, Fields
  <2>2. h = Append(history, e)
    BY <2>1 DEF narrated
  <2>3. e \in TrailEntries
    BY <1>1, SummaryType DEF TrailEntries
  <2>4. e.at = today /\ SettledBy(e)
    BY <2>1 DEF SettledBy
  <2> HIDE DEF e, h, new
  <2>5. N + 1 \in DOMAIN h /\ h[N + 1] = e
    BY <2>2, <2>3, AppendProperties, LenProperties
  <2>6. new.settled_at = today
    BY <1>1, <1>5 DEF settledAt
  <2>7. OnItsDay(new, h, b)
    BY <1>3, <2>4, <2>5, <2>6 DEF OnItsDay
  <2> QED BY <2>7 DEF h, new
<1>6. CASE p.settled_at = 0 /\ (p.status # "SETTLED" \/ row.status = "SETTLED")
  <2>1. new.settled_at = row.settled_at
    BY <1>1, <1>6 DEF settledAt
  <2> HIDE DEF h, new
  <2>2. OnItsDay(new, h, b)
    BY <1>1, <1>2, <1>6, <2>1 DEF OnItsDay
  <2> QED BY <2>2 DEF h, new
<1> QED BY <1>4, <1>5, <1>6

LEMMA StepOnItsDay == TypeInv /\ SettledOnItsDay /\ [Next]_vars => SettledOnItsDay'
<1> SUFFICES ASSUME TypeInv, SettledOnItsDay, [Next]_vars, row' # Missing
             PROVE  OnItsDay(row', history', born')
  BY DEF SettledOnItsDay
<1>1. ASSUME NEW p \in Proposals, NEW signoff \in Deciders \cup {Nobody}, NEW today \in Days,
             CreateRequirement(p, signoff, today)
      PROVE  OnItsDay(row', history', born')
  <2>1. row' = created(p, today) /\ born' = row'
    BY <1>1 DEF CreateRequirement, Apply
  <2>2. row'.status = "SETTLED" => row'.settled_at # 0
    BY <2>1, DatesAssumption DEF created, coalesceDate
  <2> QED BY <2>1, <2>2 DEF OnItsDay
<1>2. ASSUME NEW p \in Proposals, NEW signoff \in Deciders \cup {Nobody}, NEW today \in Days,
             UpdateRequirement(p, signoff, today)
      PROVE  OnItsDay(row', history', born')
  <2>1. row \in Rows /\ signoff \in Stakeholders \cup {Nobody} /\ OnItsDay(row, history, born)
    BY <1>2 DEF UpdateRequirement, resolveHistorySignoff, TypeInv, SettledOnItsDay
  <2>2. /\ row' = updated(row, p, today) /\ born' = born
        /\ history' = narrated(row, updated(row, p, today), today, signoff)
    BY <1>2 DEF UpdateRequirement, Apply
  <2> QED BY <2>1, <2>2, UpdateOnItsDay DEF TypeInv
<1>3. ASSUME ProposedRejection PROVE OnItsDay(row', history', born')
  <2>1. row \in Rows /\ row' = [row EXCEPT !.status = "REJECTED"]
    BY <1>3 DEF ProposedRejection, Apply, TypeInv
  <2>2. row'.status = "REJECTED"
    BY <2>1 DEF Rows
  <2> QED BY <2>2 DEF OnItsDay
<1>4. ASSUME NEW reviewedAt \in ReviewDates, NEW evidence \in EvidenceLists, NEW today \in Days,
             ProposedReviewMark(reviewedAt, evidence, today)
      PROVE  OnItsDay(row', history', born')
  <2>1. row \in Rows /\ OnItsDay(row, history, born)
    BY <1>4 DEF ProposedReviewMark, TypeInv, SettledOnItsDay
  <2> DEFINE new == reviewed(reviewedAt, evidence, today)
  <2>2. new \in Rows
    BY <2>1, ReviewedType
  <2>3. new.status = row.status /\ new.settled_at = row.settled_at
    BY <2>1 DEF reviewed, Rows
  <2>4. row' = new /\ born' = born /\ history' = narrated(row, new, today, Nobody)
    BY <1>4 DEF ProposedReviewMark, Apply
  <2> HIDE DEF new
  <2>5. \A i \in DOMAIN history : i \in DOMAIN history' /\ history'[i] = history[i]
    BY <2>1, <2>2, <2>4, NarratedExtends DEF TypeInv
  <2> QED BY <2>1, <2>3, <2>4, <2>5, SameDay
<1>5. ASSUME NEW n \in Batches, NEW entries \in [1..n -> Entries], NEW today \in Days,
             ProposedGateSignoffBatch(entries, today)
      PROVE  OnItsDay(row', history', born')
  <2>1. row \in Rows /\ OnItsDay(row, history, born)
    BY <1>5 DEF ProposedGateSignoffBatch, TypeInv, SettledOnItsDay
  <2>2. /\ row' = [row EXCEPT !.gate_signoffs = @ \o entries] /\ born' = born
        /\ history' = history \o narratedBatch(entries, today)
    BY <1>5 DEF ProposedGateSignoffBatch, Apply
  <2>3. row'.status = row.status /\ row'.settled_at = row.settled_at
    BY <2>1, <2>2 DEF Rows
  <2>4. narratedBatch(entries, today) \in Seq(TrailEntries)
    BY <2>1, BatchType
  <2>5. \A i \in DOMAIN history : i \in DOMAIN history' /\ history'[i] = history[i]
    BY <2>2, <2>4, ConcatProperties, LenProperties DEF TypeInv
  <2>6. OnItsDay(row', history', born)
    BY <2>1, <2>3, <2>5, SameDay, Zenon
  <2> QED BY <2>2, <2>6
<1>6. CASE UNCHANGED vars
  BY <1>6 DEF SettledOnItsDay, vars
<1> QED
  BY <1>1, <1>2, <1>3, <1>4, <1>5, <1>6
     DEF Next, Rejection, Requirement, ReviewMark, GateSignoffBatch

(* A settled requirement bears the date somebody gave it, that of its       *)
(* creation, or that of an entry which made it SETTLED: an edit that sends  *)
(* the status again does not move it (ProposedRequirement.mutate).          *)
THEOREM SettledOnTheDay == Spec => []SettledOnItsDay
<1>1. Init => TypeInv /\ SettledOnItsDay
  BY EmptySeq DEF Init, TypeInv, SettledOnItsDay
<1>2. TypeInv /\ SettledOnItsDay /\ [Next]_vars => (TypeInv /\ SettledOnItsDay)'
  BY StepType, StepOnItsDay
<1> QED BY <1>1, <1>2, PTL DEF Spec

-----------------------------------------------------------------------------
(* Retries.  Whatever the record is, the second update has nothing to do:   *)
(* each patch rule, given its own result as the old value, returns it.      *)

LEMMA UpdateTwice ==
    ASSUME NEW old, NEW p \in Proposals, NEW today, NEW later
    PROVE  LET once == updated(old, p, today) IN updated(once, p, later) = once
<1> DEFINE once == updated(old, p, today)
<1>1. /\ once.status = p.status
      /\ once.enforcement = coalesceStr(p.enforcement, old.enforcement)
      /\ once.enforced_by = resolveEnforcedBy(p.enforced_by, old.enforced_by)
      /\ once.settled_at = settledAt(p, old, today)
      /\ once.last_reviewed_at = coalesceDate(p.last_reviewed_at, old.last_reviewed_at)
      /\ once.evidence = coalesceSlice(p.evidence, old.evidence)
      /\ once.gate_signoffs = old.gate_signoffs
  BY DEF updated
<1> HIDE DEF once
<1>2. coalesceStr(p.enforcement, once.enforcement) = once.enforcement
  BY <1>1 DEF coalesceStr
<1>3. resolveEnforcedBy(p.enforced_by, once.enforced_by) = once.enforced_by
  BY <1>1 DEF resolveEnforcedBy, coalesceSlice
<1>4. settledAt(p, once, later) = once.settled_at
  BY <1>1 DEF settledAt
<1>5. coalesceDate(p.last_reviewed_at, once.last_reviewed_at) = once.last_reviewed_at
  BY <1>1 DEF coalesceDate
<1>6. coalesceSlice(p.evidence, once.evidence) = once.evidence
  BY <1>1 DEF coalesceSlice
<1>7. updated(once, p, later) = updated(old, p, today)
  BY <1>1, <1>2, <1>3, <1>4, <1>5, <1>6 DEF updated
<1> QED BY <1>7 DEF once

(* An update run again, then or later, changes nothing (the patch rules of  *)
(* ProposedRequirement.mutate are idempotent together, not one by one: the  *)
(* date is stamped by the transition the first run made).                   *)
THEOREM RetryIsIdle == Spec => []RetryChangesNothing
<1>1. RetryChangesNothing
  BY UpdateTwice DEF RetryChangesNothing
<1> QED BY <1>1, PTL

-----------------------------------------------------------------------------
(* Gates.  The trail holds one entry per signoff, in their order; its days  *)
(* never go back; and a stage signed with the k-th entry had every earlier  *)
(* stage signed by then.                                                    *)

Gate == "gate_signoffs"
Entered(e) == Len(e.summary[Gate][2])
EntryOf(h, k, i) == k \in DOMAIN h /\ Mentions(h[k], Gate) /\ Entered(h[k]) = i

Sorted(h) == \A i, j \in DOMAIN h : i <= j => h[i].at <= h[j].at

Counted(h, n) ==
    /\ \A i \in 1..n : \E k \in DOMAIN h : EntryOf(h, k, i)
    /\ \A k \in DOMAIN h : Mentions(h[k], Gate) => Entered(h[k]) \in 1..n
    /\ \A k, l \in DOMAIN h :
           k < l /\ Mentions(h[k], Gate) /\ Mentions(h[l], Gate) => Entered(h[k]) < Entered(h[l])

SignedIn(gates, i, stage, run) ==
    gates[i].state = "SIGNED" /\ gates[i].stage = stage /\ gates[i].run = run

InOrder(h, gates) ==
    \A run \in Runs, j \in 1..Len(gates), n \in DOMAIN Stages, l \in DOMAIN h :
        SignedIn(gates, j, Stages[n], run) /\ EntryOf(h, l, j) =>
            \A m \in 1..n : \E i \in 1..Len(gates), k \in DOMAIN h :
                SignedIn(gates, i, Stages[m], run) /\ EntryOf(h, k, i) /\ h[k].at <= h[l].at

GateInv ==
    row # Missing => /\ Sorted(history)
                     /\ Counted(history, Len(row.gate_signoffs))
                     /\ InOrder(history, row.gate_signoffs)

(* h is g with n entries of one day written behind it; the signoffs new are *)
(* old with m behind; and of the entries behind g each tells of one signoff *)
(* more, or none tells of any.                                              *)
WrittenOn(g, h, n, today) ==
    /\ Len(h) = Len(g) + n
    /\ \A i \in 1..Len(g) : h[i] = g[i]
    /\ \A i \in Len(g) + 1 .. Len(g) + n : h[i].at = today
SignedOnto(old, new, m) ==
    /\ Len(new) = Len(old) + m
    /\ \A i \in 1..Len(old) : new[i] = old[i]
ToldBehind(h, N, n, G, m) ==
    \A i \in 1..n : IF m = 0 THEN ~Mentions(h[N + i], Gate)
                    ELSE Mentions(h[N + i], Gate) /\ Entered(h[N + i]) = G + i
NoneSkipped(new) ==
    \A run \in Runs, j \in 1..Len(new), s \in DOMAIN Stages :
        SignedIn(new, j, Stages[s], run) =>
            \A e \in 1..s : \E i \in 1..Len(new) : SignedIn(new, i, Stages[e], run)

(* The day of an entry is a number. *)
LEMMA DayType ==
    ASSUME NEW h \in Seq(TrailEntries), NEW i \in DOMAIN h PROVE h[i].at \in Nat
<1>1. h[i] \in TrailEntries
  BY LenProperties, ElementOfSeq
<1> QED BY <1>1, DatesAssumption DEF TrailEntries

(* A trail without a step back in its days, written further on one day.     *)
LEMMA SortedFurther ==
    ASSUME NEW g \in Seq(TrailEntries), NEW h \in Seq(TrailEntries), NEW n \in Nat,
           Len(h) = Len(g) + n, \A i \in 1..Len(g) : h[i] = g[i],
           NEW today, \A i \in Len(g) + 1 .. Len(g) + n : h[i].at = today,
           Sorted(g), historyWellformed(h)
    PROVE  Sorted(h)
<1> DEFINE N == Len(g)
<1>1. N \in Nat /\ DOMAIN g = 1..N /\ DOMAIN h = 1..N + n /\ Len(h) = N + n
  BY LenProperties
<1>2. \A i \in 1..N + n : h[i].at \in Nat
  BY <1>1, DayType
<1>3. \A i \in 1..N : h[i] = g[i]
  OBVIOUS
<1>4. \A i \in N + 1 .. N + n : h[i].at = today
  OBVIOUS
<1> HIDE DEF N
<1> SUFFICES ASSUME NEW i \in 1..N + n, NEW j \in 1..N + n, i <= j PROVE h[i].at <= h[j].at
  BY <1>1 DEF Sorted
<1>5. CASE j <= N
  <2>1. i \in 1..N /\ j \in 1..N
    BY <1>1, <1>5
  <2>2. g[i].at <= g[j].at
    BY <1>1, <2>1 DEF Sorted
  <2> QED BY <1>3, <2>1, <2>2
<1>6. CASE i > N
  <2>1. i \in N + 1 .. N + n /\ j \in N + 1 .. N + n
    BY <1>1, <1>6
  <2> QED BY <1>2, <1>4, <2>1
<1>7. CASE i <= N /\ j > N
  <2>1. i \in 1..N /\ N \in 1..N /\ j \in N + 1 .. N + n /\ N + 1 \in N + 1 .. N + n
        /\ N \in 1..Len(h) - 1
    BY <1>1, <1>7
  <2>2. g[i].at <= g[N].at
    BY <1>1, <2>1 DEF Sorted
  <2>3. h[N].at <= h[N + 1].at
    BY <2>1 DEF historyWellformed
  <2>4. h[N + 1].at = today /\ h[j].at = today /\ h[i] = g[i] /\ h[N] = g[N]
    BY <1>3, <1>4, <2>1
  <2>5. h[i].at \in Nat /\ h[N].at \in Nat /\ today \in Nat
    <3>1. i \in 1..N + n /\ N \in 1..N + n /\ N + 1 \in 1..N + n
      BY <1>1, <2>1
    <3> QED BY <1>2, <2>4, <3>1
  <2> QED BY <2>2, <2>3, <2>4, <2>5
<1> QED BY <1>1, <1>5, <1>6, <1>7

(* The check leaves no stage signed with an earlier one unsigned.           *)
LEMMA CheckedOrder ==
    ASSUME NEW r, gateSignoffMonotonic(r), r.gate_signoffs \in Seq(Entries), NEW run \in Runs,
           NEW j \in 1..Len(r.gate_signoffs), NEW n \in DOMAIN Stages, NEW m \in 1..n,
           SignedIn(r.gate_signoffs, j, Stages[n], run)
    PROVE  \E i \in 1..Len(r.gate_signoffs) : SignedIn(r.gate_signoffs, i, Stages[m], run)
<1>1. Stages # <<>> /\ DOMAIN Stages = 1..Len(Stages) /\ Len(Stages) \in Nat
      /\ DOMAIN r.gate_signoffs = 1..Len(r.gate_signoffs)
  <2> DEFINE S == {Stages[i] : i \in DOMAIN Stages}
  <2>1. Stages \in Seq(S)
    BY InputsAssumption
  <2> HIDE DEF S
  <2>2. DOMAIN Stages = 1..Len(Stages) /\ Len(Stages) \in Nat
    BY <2>1, LenProperties
  <2>3. Stages # <<>>
    OBVIOUS
  <2> QED BY <2>2, <2>3, LenProperties
<1>2. Stages[n] \in SignedStages(r, run)
  BY <1>1 DEF SignedIn, SignedStages
<1>3. PICK last \in DOMAIN Stages :
        /\ stageIndex(Stages[n], last)
        /\ \A k \in 1..last : \E earlier \in SignedStages(r, run) : stageIndex(earlier, k)
  BY <1>1, <1>2 DEF gateSignoffMonotonic
<1>4. n <= last
  BY <1>1, <1>3 DEF stageIndex
<1>5. m \in 1..last
  BY <1>1, <1>4
<1>6. Stages[m] \in SignedStages(r, run)
  BY <1>3, <1>5 DEF stageIndex
<1> QED BY <1>1, <1>6 DEF SignedIn, SignedStages

LEMMA Concatenated ==
    ASSUME NEW S, NEW s \in Seq(S), NEW t \in Seq(S)
    PROVE  /\ Len(s \o t) = Len(s) + Len(t)
           /\ \A i \in 1..Len(s) : (s \o t)[i] = s[i]
<1>1. Len(s) \in Nat /\ Len(t) \in Nat
  BY LenProperties
<1> QED BY <1>1, ConcatProperties

LEMMA GatesFurther ==
    ASSUME NEW g \in Seq(TrailEntries), NEW h \in Seq(TrailEntries), NEW n \in Nat,
           NEW today, WrittenOn(g, h, n, today),
           NEW old \in Seq(Entries), NEW new \in Seq(Entries), NEW m \in {0, n},
           SignedOnto(old, new, m), ToldBehind(h, Len(g), n, Len(old), m),
           Sorted(g), Counted(g, Len(old)), InOrder(g, old), historyWellformed(h),
           NoneSkipped(new)
    PROVE  Sorted(h) /\ Counted(h, Len(new)) /\ InOrder(h, new)
<1> DEFINE N == Len(g)
           G == Len(old)
<1>1. /\ N \in Nat /\ G \in Nat /\ m \in Nat /\ DOMAIN g = 1..N /\ DOMAIN h = 1..N + n
      /\ Len(h) = N + n /\ Len(new) = G + m
  BY LenProperties DEF WrittenOn, SignedOnto
<1>2. Sorted(h)
  BY SortedFurther DEF WrittenOn
<1>3. \A k \in 1..N : h[k] = g[k]
  BY DEF WrittenOn
<1>4. \A i \in 1..n : IF m = 0 THEN ~Mentions(h[N + i], Gate)
                      ELSE Mentions(h[N + i], Gate) /\ Entered(h[N + i]) = G + i
  BY DEF ToldBehind
<1>5. Counted(g, G) /\ InOrder(g, old) /\ \A i \in 1..G : new[i] = old[i]
  BY DEF SignedOnto
<1>6. \A k \in N + 1 .. N + n : h[k].at = today
  BY DEF WrittenOn
<1>7. \A k \in 1..N + n : h[k].at \in Nat
  BY <1>1, DayType
<1> HIDE DEF N, G
<1>8. \A k \in N + 1 .. N + n : k - N \in 1..n /\ N + (k - N) = k
  BY <1>1
<1>9. \A k \in N + 1 .. N + n : Mentions(h[k], Gate) => m = n /\ m # 0 /\ Entered(h[k]) = G + (k - N)
  BY <1>4, <1>8
<1>10. \A k \in 1..N : Mentions(h[k], Gate) => Entered(h[k]) \in 1..G
  BY <1>1, <1>3, <1>5 DEF Counted
<1>11. Counted(h, G + m)
  <2>1. ASSUME NEW i \in 1..G + m PROVE \E k \in DOMAIN h : EntryOf(h, k, i)
    <3>1. CASE i <= G
      <4>1. PICK k \in 1..N : EntryOf(g, k, i)
        BY <1>1, <1>5, <3>1 DEF Counted
      <4>2. k \in 1..N + n
        BY <1>1
      <4> QED BY <1>1, <1>3, <4>1, <4>2 DEF EntryOf
    <3>2. CASE i > G
      <4>1. m = n /\ m # 0 /\ i - G \in 1..n /\ N + (i - G) \in 1..N + n /\ G + (i - G) = i
        BY <1>1, <3>2
      <4>2. Mentions(h[N + (i - G)], Gate) /\ Entered(h[N + (i - G)]) = i
        BY <1>4, <4>1
      <4> QED BY <1>1, <4>1, <4>2 DEF EntryOf
    <3> QED BY <1>1, <3>1, <3>2
  <2>2. ASSUME NEW k \in 1..N + n, Mentions(h[k], Gate) PROVE Entered(h[k]) \in 1..G + m
    <3>1. CASE k \in 1..N
      BY <1>1, <1>10, <2>2, <3>1
    <3>2. CASE k \in N + 1 .. N + n
      BY <1>1, <1>8, <1>9, <2>2, <3>2
    <3> QED BY <1>1, <3>1, <3>2
  <2>3. ASSUME NEW k \in 1..N + n, NEW l \in 1..N + n, k < l,
               Mentions(h[k], Gate), Mentions(h[l], Gate)
        PROVE  Entered(h[k]) < Entered(h[l])
    <3>1. CASE l \in 1..N
      <4>1. k \in 1..N
        BY <1>1, <2>3, <3>1
      <4> QED BY <1>1, <1>3, <1>5, <2>3, <3>1, <4>1 DEF Counted
    <3>2. CASE l \in N + 1 .. N + n /\ k \in 1..N
      <4>1. Entered(h[k]) \in 1..G
        BY <1>10, <2>3, <3>2
      <4>2. Entered(h[l]) = G + (l - N) /\ l - N \in 1..n
        BY <1>8, <1>9, <2>3, <3>2
      <4> QED BY <1>1, <4>1, <4>2
    <3>3. CASE k \in N + 1 .. N + n /\ l \in N + 1 .. N + n
      BY <1>1, <1>9, <2>3, <3>3
    <3> QED BY <1>1, <2>3, <3>1, <3>2, <3>3
  <2> QED BY <1>1, <2>1, <2>2, <2>3 DEF Counted
<1>12. InOrder(h, new)
  <2> SUFFICES ASSUME NEW run \in Runs, NEW j \in 1..G + m, NEW s \in DOMAIN Stages,
                      NEW l \in 1..N + n, SignedIn(new, j, Stages[s], run), EntryOf(h, l, j),
                      NEW e \in 1..s
               PROVE  \E i \in 1..G + m, k \in 1..N + n :
                          SignedIn(new, i, Stages[e], run) /\ EntryOf(h, k, i) /\ h[k].at <= h[l].at
    BY <1>1 DEF InOrder
  <2>1. CASE l \in 1..N
    <3>1. EntryOf(g, l, j) /\ j \in 1..G /\ SignedIn(old, j, Stages[s], run)
      BY <1>1, <1>3, <1>5, <1>10, <2>1 DEF EntryOf, SignedIn
    <3>2. PICK i \in 1..G, k \in 1..N :
            SignedIn(old, i, Stages[e], run) /\ EntryOf(g, k, i) /\ g[k].at <= g[l].at
      BY <1>1, <1>5, <2>1, <3>1 DEF InOrder, G
    <3>3. i \in 1..G + m /\ k \in 1..N + n
      BY <1>1
    <3>4. h[k] = g[k] /\ h[l] = g[l] /\ new[i] = old[i] /\ k \in DOMAIN h
      BY <1>1, <1>3, <1>5, <2>1, <3>3
    <3>5. SignedIn(new, i, Stages[e], run)
      BY <3>2, <3>4 DEF SignedIn
    <3>6. EntryOf(h, k, i) /\ h[k].at <= h[l].at
      BY <3>2, <3>4 DEF EntryOf
    <3> QED BY <3>3, <3>5, <3>6
  <2>2. CASE l \in N + 1 .. N + n
    <3>1. PICK i \in 1..G + m : SignedIn(new, i, Stages[e], run)
      BY <1>1 DEF NoneSkipped
    <3>2. PICK k \in 1..N + n : EntryOf(h, k, i)
      BY <1>1, <1>11 DEF Counted
    <3>3. h[k].at <= h[l].at
      <4>1. CASE k <= l
        BY <1>1, <1>2, <4>1 DEF Sorted
      <4>2. CASE k > l
        <5>1. k \in N + 1 .. N + n
          BY <1>1, <2>2, <4>2
        <5> QED BY <1>6, <1>7, <2>2, <5>1
      <4> QED BY <1>1, <4>1, <4>2
    <3> QED BY <3>1, <3>2, <3>3
  <2> QED BY <1>1, <2>1, <2>2
<1> QED BY <1>1, <1>2, <1>11, <1>12

LEMMA GateStep ==
    ASSUME TypeInv, TypeInv', GateInv, Unviolated', row # Missing, row' # Missing,
           NEW n \in Nat, Len(history') = Len(history) + n,
           \A i \in 1..Len(history) : history'[i] = history[i],
           NEW today, \A i \in Len(history) + 1 .. Len(history) + n : history'[i].at = today,
           NEW m \in {0, n}, Len(row'.gate_signoffs) = Len(row.gate_signoffs) + m,
           \A i \in 1..Len(row.gate_signoffs) : row'.gate_signoffs[i] = row.gate_signoffs[i],
           \A i \in 1..n : IF m = 0 THEN ~Mentions(history'[Len(history) + i], Gate)
                           ELSE /\ Mentions(history'[Len(history) + i], Gate)
                                /\ Entered(history'[Len(history) + i]) = Len(row.gate_signoffs) + i
    PROVE  GateInv'
<1>1. /\ history \in Seq(TrailEntries) /\ history' \in Seq(TrailEntries)
      /\ row.gate_signoffs \in Seq(Entries) /\ row'.gate_signoffs \in Seq(Entries)
  BY DEF TypeInv, Rows
<1>2. historyWellformed(history') /\ gateSignoffMonotonic(row')
  BY DEF Unviolated, AllViolations, Found
<1>3. /\ Sorted(history) /\ Counted(history, Len(row.gate_signoffs))
      /\ InOrder(history, row.gate_signoffs)
  BY DEF GateInv
<1> DEFINE g == history
           h == history'
           old == row.gate_signoffs
           new == row'.gate_signoffs
<1>4. NoneSkipped(new)
  BY <1>1, <1>2, CheckedOrder DEF NoneSkipped
<1> HIDE DEF g, h, old, new
<1>5. /\ g \in Seq(TrailEntries) /\ h \in Seq(TrailEntries) /\ WrittenOn(g, h, n, today)
      /\ old \in Seq(Entries) /\ new \in Seq(Entries) /\ SignedOnto(old, new, m)
  BY <1>1 DEF g, h, old, new, WrittenOn, SignedOnto
<1>6. ToldBehind(h, Len(g), n, Len(old), m)
  BY DEF g, h, old, ToldBehind
<1>7. Sorted(g) /\ Counted(g, Len(old)) /\ InOrder(g, old) /\ historyWellformed(h)
  BY <1>2, <1>3 DEF g, h, old
<1>8. Sorted(h) /\ Counted(h, Len(new)) /\ InOrder(h, new)
  BY <1>4, <1>5, <1>6, <1>7, GatesFurther
<1> QED BY <1>8 DEF GateInv, h, new

(* An update or a review adds at most one entry and leaves the signoffs be. *)
LEMMA NarratedGates ==
    ASSUME TypeInv, TypeInv', GateInv, Unviolated', row # Missing, row' \in Rows,
           NEW today \in Days, NEW by \in Stakeholders \cup {Nobody},
           row'.gate_signoffs = row.gate_signoffs, history' = narrated(row, row', today, by)
    PROVE  GateInv'
<1> DEFINE e == [at |-> today, by |-> by, summary |-> summarizeFieldDiff(row, row')]
           N == Len(history)
<1>0. row \in Rows /\ row' # Missing
  BY MissingAssumption DEF TypeInv
<1>1. e \in TrailEntries /\ e.at = today /\ ~Mentions(e, Gate)
  <2>1. e \in TrailEntries
    BY <1>0, SummaryType DEF TrailEntries
  <2>2. Gate \notin DOMAIN summarizeFieldDiff(row, row')
    BY DEF summarizeFieldDiff, Gate
  <2> QED BY <2>1, <2>2 DEF Mentions
<1>2. history' = history \/ history' = Append(history, e)
  BY DEF narrated
<1> HIDE DEF e, N
<1>3. history \in Seq(TrailEntries) /\ N \in Nat
  BY LenProperties DEF TypeInv, N
<1>4. PICK n \in {0, 1} :
        /\ Len(history') = N + n /\ \A i \in 1..N : history'[i] = history[i]
        /\ \A i \in N + 1 .. N + n : history'[i].at = today /\ ~Mentions(history'[i], Gate)
  <2>1. CASE history' = history
    <3>1. Len(history') = N + 0 /\ \A i \in N + 1 .. N + 0 : FALSE
      BY <1>3, <2>1 DEF N
    <3> QED BY <2>1, <3>1
  <2>2. CASE history' = Append(history, e)
    <3>1. /\ Len(history') = N + 1 /\ history'[N + 1] = e
          /\ \A i \in 1..N : history'[i] = history[i]
      BY <1>1, <1>3, <2>2, AppendProperties, LenProperties DEF N
    <3>2. \A i \in N + 1 .. N + 1 : i = N + 1
      BY <1>3
    <3> QED BY <1>1, <3>1, <3>2
  <2> QED BY <1>2, <2>1, <2>2
<1>5. \A i \in 1..n : ~Mentions(history'[N + i], Gate)
  BY <1>3, <1>4
<1>6. Len(row.gate_signoffs) \in Nat
  BY <1>0, LenProperties DEF Rows
<1>7. n \in Nat /\ Len(row'.gate_signoffs) = Len(row.gate_signoffs) + 0
  BY <1>6
<1> QED BY <1>0, <1>4, <1>5, <1>7, GateStep DEF N

LEMMA StepGates == TypeInv /\ TypeInv' /\ Unviolated' /\ GateInv /\ [Next]_vars => GateInv'
<1> SUFFICES ASSUME TypeInv, TypeInv', Unviolated', GateInv, [Next]_vars PROVE GateInv'
  OBVIOUS
<1>1. ASSUME NEW p \in Proposals, NEW signoff \in Deciders \cup {Nobody}, NEW today \in Days,
             CreateRequirement(p, signoff, today)
      PROVE  GateInv'
  <2>1. history' = <<>> /\ row'.gate_signoffs = <<>>
    BY <1>1 DEF CreateRequirement, Apply, created
  <2>2. Len(<<>>) = 0 /\ DOMAIN <<>> = {}
    OBVIOUS
  <2> QED BY <2>1, <2>2 DEF GateInv, Sorted, Counted, InOrder
<1>2. ASSUME NEW p \in Proposals, NEW signoff \in Deciders \cup {Nobody}, NEW today \in Days,
             UpdateRequirement(p, signoff, today)
      PROVE  GateInv'
  <2>1. row \in Rows /\ signoff \in Stakeholders \cup {Nobody} /\ row # Missing
    BY <1>2 DEF UpdateRequirement, resolveHistorySignoff, TypeInv
  <2>2. updated(row, p, today) \in Rows
    BY <2>1, UpdatedType
  <2>3. row' = updated(row, p, today) /\ history' = narrated(row, row', today, signoff)
    BY <1>2 DEF UpdateRequirement, Apply
  <2>4. row'.gate_signoffs = row.gate_signoffs
    BY <2>3 DEF updated
  <2> QED BY <2>1, <2>2, <2>3, <2>4, NarratedGates
<1>3. ASSUME ProposedRejection PROVE GateInv'
  <2>1. row \in Rows /\ row # Missing /\ history' = history
        /\ row' = [row EXCEPT !.status = "REJECTED"]
    BY <1>3 DEF ProposedRejection, Apply, TypeInv
  <2>2. row'.gate_signoffs = row.gate_signoffs
    BY <2>1 DEF Rows
  <2> QED BY <2>1, <2>2 DEF GateInv
<1>4. ASSUME NEW reviewedAt \in ReviewDates, NEW evidence \in EvidenceLists, NEW today \in Days,
             ProposedReviewMark(reviewedAt, evidence, today)
      PROVE  GateInv'
  <2>1. row \in Rows /\ row # Missing
    BY <1>4 DEF ProposedReviewMark, TypeInv
  <2>2. reviewed(reviewedAt, evidence, today) \in Rows
    BY <2>1, ReviewedType
  <2>3. /\ row' = reviewed(reviewedAt, evidence, today)
        /\ history' = narrated(row, row', today, Nobody)
    BY <1>4 DEF ProposedReviewMark, Apply
  <2>4. row'.gate_signoffs = row.gate_signoffs
    BY <2>1, <2>3 DEF reviewed, Rows
  <2> QED BY <2>1, <2>2, <2>3, <2>4, NarratedGates
<1>5. ASSUME NEW n \in Batches, NEW entries \in [1..n -> Entries], NEW today \in Days,
             ProposedGateSignoffBatch(entries, today)
      PROVE  GateInv'
  <2> DEFINE gates == row.gate_signoffs
             batch == narratedBatch(entries, today)
             N == Len(history)
             G == Len(gates)
  <2>1. row \in Rows /\ row # Missing /\ row' = [row EXCEPT !.gate_signoffs = @ \o entries]
        /\ history' = history \o batch
    BY <1>5 DEF ProposedGateSignoffBatch, Apply, TypeInv
  <2>2. /\ entries \in Seq(Entries) /\ Len(entries) = n /\ batch \in Seq(TrailEntries)
        /\ Len(batch) = n /\ row' \in Rows /\ n \in Nat
    BY <2>1, BatchType, InputsAssumption
  <2>3. gates \in Seq(Entries) /\ G \in Nat /\ history \in Seq(TrailEntries) /\ N \in Nat
    BY <2>1, LenProperties DEF Rows, TypeInv
  <2>4. row'.gate_signoffs = gates \o entries
    BY <2>1 DEF Rows
  <2>5. Len(row'.gate_signoffs) = G + n /\ \A i \in 1..G : row'.gate_signoffs[i] = gates[i]
    <3>1. /\ Len(gates \o entries) = G + n
          /\ \A i \in 1..G : (gates \o entries)[i] = gates[i]
      <4> HIDE DEF gates
      <4> QED BY <2>2, <2>3, Concatenated
    <3> QED BY <2>4, <3>1
  <2>6. \A i \in 1..n : /\ batch[i].at = today /\ Mentions(batch[i], Gate)
                        /\ batch[i].summary[Gate][2] = gates \o SubSeq(entries, 1, i)
    BY <2>2 DEF narratedBatch, Mentions, Gate
  <2>7. ASSUME NEW i \in 1..n PROVE Entered(batch[i]) = G + i
    <3>1. SubSeq(entries, 1, i) \in Seq(Entries) /\ Len(SubSeq(entries, 1, i)) = i
      BY <2>2, SubSeqProperties
    <3>2. Len(gates \o SubSeq(entries, 1, i)) = G + i
      BY <2>2, <2>3, <3>1, Concatenated
    <3> QED BY <2>6, <3>2 DEF Entered
  <2> HIDE DEF batch
  <2>8. /\ Len(history') = N + n
        /\ \A i \in 1..N + n : history'[i] = IF i <= N THEN history[i] ELSE batch[i - N]
    BY <2>1, <2>2, <2>3, ConcatProperties
  <2> HIDE DEF N, G, gates
  <2>9. \A i \in 1..N : history'[i] = history[i]
    BY <2>2, <2>3, <2>8
  <2>10. \A i \in 1..n : history'[N + i] = batch[i]
    <3> SUFFICES ASSUME NEW i \in 1..n PROVE history'[N + i] = batch[i]
      OBVIOUS
    <3>1. N + i \in 1..N + n /\ ~(N + i <= N) /\ (N + i) - N = i
      BY <2>2, <2>3
    <3> QED BY <2>8, <3>1
  <2>11. \A i \in N + 1 .. N + n : history'[i].at = today
    <3> SUFFICES ASSUME NEW i \in N + 1 .. N + n PROVE history'[i].at = today
      OBVIOUS
    <3>1. i - N \in 1..n /\ N + (i - N) = i
      BY <2>2, <2>3
    <3> QED BY <2>6, <2>10, <3>1
  <2>12. \A i \in 1..n : Mentions(history'[N + i], Gate) /\ Entered(history'[N + i]) = G + i
    BY <2>6, <2>7, <2>10
  <2>13. n # 0 /\ row' # Missing
    BY <2>2, InputsAssumption, MissingAssumption
  <2> QED BY <2>1, <2>2, <2>5, <2>8, <2>9, <2>11, <2>12, <2>13, GateStep DEF N, G, gates
<1>6. CASE UNCHANGED vars
  BY <1>6 DEF GateInv, vars
<1> QED
  BY <1>1, <1>2, <1>3, <1>4, <1>5, <1>6
     DEF Next, Rejection, Requirement, ReviewMark, GateSignoffBatch

(* With each signoff of a stage every earlier stage was signed, on no later *)
(* day: the checks see only what is signed in the end and that the days of  *)
(* the trail do not go back, and each proposal is judged by both            *)
(* (checkGateSignoffMonotonic, checkRequirementHistoryWellformed).          *)
THEOREM GatesInOrder == Spec => []GatesPassedInOrder
<1>1. Init => TypeInv /\ Unviolated /\ GateInv
  BY EmptySeq DEF Init, TypeInv, Unviolated, AllViolations, GateInv
<1>2. TypeInv /\ Unviolated /\ GateInv /\ [Next]_vars => (TypeInv /\ Unviolated /\ GateInv)'
  BY StepType, StepUnviolated, StepGates
<1>3. TypeInv /\ GateInv => GatesPassedInOrder
  <2> SUFFICES ASSUME TypeInv, GateInv, row # Missing, NEW run \in Runs,
                      NEW j \in DOMAIN row.gate_signoffs, NEW n \in DOMAIN Stages,
                      Signed(j, Stages[n], run), NEW m \in 1..n
               PROVE  \E i \in DOMAIN row.gate_signoffs :
                          Signed(i, Stages[m], run) /\ SignedOn(i) <= SignedOn(j)
    BY DEF GatesPassedInOrder
  <2> DEFINE gates == row.gate_signoffs
  <2>1. /\ DOMAIN gates = 1..Len(gates) /\ DOMAIN history = 1..Len(history)
        /\ Len(history) \in Nat
    BY LenProperties DEF TypeInv, Rows
  <2>2. /\ Counted(history, Len(gates)) /\ InOrder(history, gates)
    BY DEF GateInv
  <2>3. \A i, k : EntryOf(history, k, i) => SignedOn(i) = history[k].at
    <3> SUFFICES ASSUME NEW i, NEW k, EntryOf(history, k, i) PROVE SignedOn(i) = history[k].at
      OBVIOUS
    <3>1. \A l : EntryOf(history, l, i) <=> /\ l \in DOMAIN history
                                            /\ "gate_signoffs" \in DOMAIN history[l].summary
                                            /\ Len(history[l].summary["gate_signoffs"][2]) = i
      BY DEF EntryOf, Mentions, Entered, Gate
    <3>2. \A l : EntryOf(history, l, i) => l = k
      <4> SUFFICES ASSUME NEW l, EntryOf(history, l, i), l # k PROVE FALSE
        OBVIOUS
      <4>1. l \in 1..Len(history) /\ k \in 1..Len(history) /\ (l < k \/ k < l)
        BY <2>1 DEF EntryOf
      <4>2. i \in Nat
        BY <2>1, <2>2 DEF EntryOf, Counted
      <4> QED BY <2>1, <2>2, <4>1, <4>2 DEF EntryOf, Counted
    <3> QED BY <3>1, <3>2 DEF SignedOn
  <2>4. PICK l \in DOMAIN history : EntryOf(history, l, j)
    BY <2>1, <2>2 DEF Counted
  <2>5. \A i : Signed(i, Stages[m], run) <=> SignedIn(gates, i, Stages[m], run)
    BY DEF Signed, SignedIn
  <2>6. SignedIn(gates, j, Stages[n], run)
    BY DEF Signed, SignedIn
  <2>7. PICK i \in 1..Len(gates), k \in DOMAIN history :
            /\ SignedIn(gates, i, Stages[m], run) /\ EntryOf(history, k, i)
            /\ history[k].at <= history[l].at
    BY <2>1, <2>2, <2>4, <2>6 DEF InOrder
  <2> QED BY <2>1, <2>3, <2>4, <2>5, <2>7
<1> QED BY <1>1, <1>2, <1>3, PTL DEF Spec
=============================================================================

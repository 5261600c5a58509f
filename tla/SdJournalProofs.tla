--------------------------- MODULE SdJournalProofs ---------------------------
(***************************************************************************)
(* Theorems about SdJournal, for a ring and a counter of any size, any     *)
(* content of the slots never written, and all faults.                     *)
(***************************************************************************)
EXTENDS SdJournal, TLAPS, FiniteSetTheorems

USE RecordsAssumption, CountAssumption, JournalFaultsAssumption, StampAssumption
    DEF RecordsAssumption, CountAssumption, JournalFaultsAssumption, StampAssumption

-----------------------------------------------------------------------------
(* The order of the slots when slot h is the next to be written: those     *)
(* after h are the oldest, and h comes last.                               *)
Older(h, s, t) ==
  IF (s > h /\ t > h) \/ (s <= h /\ t <= h) THEN s < t ELSE s > h

(* Counter y is this far ahead of x.                                       *)
Gap(x, y) == IF x <= y THEN y - x ELSE y + CountMod - x

(* Record b was taken after a.  Records are also given up on and lost in   *)
(* between, so the counters differ by no more than the stamps do; how much *)
(* they differ cannot be told once the counter has gone round.             *)
Follows(a, b) ==
  /\ a.stamp < b.stamp
  /\ b.stamp - a.stamp < CountMod =>
       /\ a.count # b.count
       /\ Gap(a.count, b.count) <= b.stamp - a.stamp

(* The first lap: some slot was never written, and all after h were not.   *)
Young(h, slots) == \E s \in Slots \ {h} : slots[s].stamp = 0
FromStart(r) == r.stamp <= CountMod => r.count < r.stamp

InOrder(h, slots) ==
  /\ \A s, t \in Slots \ {h} :
       Older(h, s, t) /\ slots[s].stamp # 0 => Follows(slots[s], slots[t])
  /\ Young(h, slots) =>
       \A s \in Slots \ {h} : /\ s > h <=> slots[s].stamp = 0
                              /\ s < h => FromStart(slots[s])

(* Record r goes into slot h next.                                         *)
Fits(h, slots, r) ==
  /\ r.stamp > 0
  /\ \A s \in Slots \ {h} : slots[s].stamp # 0 => Follows(slots[s], r)
  /\ Young(h, slots) => FromStart(r)

Upcoming == [count |-> g_write_count, stamp |-> stamp + 1]

LogInv ==
  /\ InOrder(home, card)
  /\ \A s \in Slots : card[s].stamp <= stamp
  /\ cached = IF pc = "sync" THEN [card EXCEPT ![home] = sd_logs] ELSE card

IndexInv ==
  /\ index \in Slots => index = home
  /\ index = BadIndex =>
       pc = "off" /\ Fits(home, card, card[home])
  /\ index = NoIndex =>
       pc = "off" /\ home = 0 /\ \A s \in Slots : card[s].stamp = 0

RecordInv ==
  /\ pc \in {"idle", "write", "sync"} => sd_index = home
  /\ pc = "idle" => Fits(home, card, Upcoming)
  /\ pc \in {"write", "sync", "save"} =>
       /\ Fits(home, card, sd_logs)
       /\ sd_logs.stamp = stamp /\ g_write_count = Succ(sd_logs.count)
  /\ pc = "save" => sd_index = Next1(home) /\ card[home] = sd_logs

Undisturbed == cause = "nothing" /\ LogInv /\ IndexInv /\ RecordInv

IInv == TypeOK /\ (cause = "nothing" => Undisturbed)

-----------------------------------------------------------------------------
(* Arithmetic of the write counter.                                        *)
Counts == 0..(CountMod - 1)
AnyRecord == [count : Counts, stamp : Nat]

LEMMA SuccValue ==
  ASSUME NEW c \in Counts
  PROVE  Succ(c) \in Counts /\ Succ(c) = IF c + 1 = CountMod THEN 0 ELSE c + 1
  BY DEF Counts, Succ

LEMMA GapValue ==
  ASSUME NEW x \in Counts, NEW y \in Counts
  PROVE  /\ Gap(x, y) \in Counts
         /\ (y + CountMod - x) % CountMod = Gap(x, y)
         /\ Gap(x, y) = 0 <=> x = y
  <1>1. CASE x <= y
    <2>1. Gap(x, y) = y - x /\ y - x \in 0..(CountMod - 1)
      BY <1>1 DEF Gap, Counts
    <2>2. y + CountMod - x = (y - x) + CountMod
      BY DEF Counts
    <2>3. \A r \in 0..(CountMod - 1) : (r + CountMod) % CountMod = r
      OBVIOUS
    <2> QED BY <2>1, <2>2, <2>3 DEF Counts
  <1>2. CASE ~(x <= y)
    <2>1. Gap(x, y) = y + CountMod - x /\ Gap(x, y) \in 1..(CountMod - 1)
      BY <1>2 DEF Gap, Counts
    <2>2. \A r \in 0..(CountMod - 1) : r % CountMod = r
      OBVIOUS
    <2> QED BY <1>2, <2>1, <2>2 DEF Counts
  <1> QED BY <1>1, <1>2

LEMMA FollowsTransitive ==
  ASSUME NEW a \in AnyRecord, NEW b \in AnyRecord, NEW c \in AnyRecord,
         Follows(a, b), Follows(b, c)
  PROVE  Follows(a, c)
  BY DEF Follows, Gap, AnyRecord, Counts

LEMMA FollowedByNext ==
  ASSUME NEW a \in AnyRecord, NEW n \in Nat, a.stamp < n
  PROVE  LET b == [count |-> Succ(a.count), stamp |-> n]
         IN  b \in AnyRecord /\ Follows(a, b) /\ (FromStart(a) => FromStart(b))
  <1>1. a.count \in Counts /\ a.stamp \in Nat
    BY DEF AnyRecord
  <1>2. Succ(a.count) \in Counts
        /\ Succ(a.count) = IF a.count + 1 = CountMod THEN 0 ELSE a.count + 1
    BY <1>1, SuccValue
  <1>3. PICK c \in Counts : c = Succ(a.count)
    BY <1>2
  <1> QED BY <1>1, <1>2, <1>3 DEF Follows, FromStart, Gap, AnyRecord, Counts

-----------------------------------------------------------------------------
(* A set of numbers has a least element: otherwise the numbers below all   *)
(* of them would map into those other than 0, one to one.                  *)
LEMMA LeastExists ==
  ASSUME NEW S \in SUBSET Nat, S # {}
  PROVE  \E i \in S : \A j \in S : i <= j
  <1>1. SUFFICES ASSUME \A i \in S : \E j \in S : j < i
                 PROVE  FALSE
    OBVIOUS
  <1>2. PICK top : top \in S
    OBVIOUS
  <1> DEFINE Below == {n \in 0..top : \A j \in S : n < j}
             f == [n \in Below |-> n + 1]
  <1>3. 0 \in Below
    BY <1>1, <1>2
  <1>4. ASSUME NEW n \in Below PROVE n + 1 \in Below \ {0}
    <2>1. \A j \in S : n < j
      OBVIOUS
    <2>2. n + 1 \notin S
      <3>1. ASSUME n + 1 \in S PROVE FALSE
        <4>1. PICK j \in S : j < n + 1
          BY <1>1, <3>1
        <4> QED BY <2>1, <4>1
      <3> QED BY <3>1
    <2> QED BY <1>2, <2>1, <2>2
  <1>5. f \in Injection(Below, Below \ {0})
    <2>1. f \in [Below -> Below \ {0}]
      BY <1>4
    <2>2. \A x, y \in Below : f[x] = f[y] => x = y
      OBVIOUS
    <2> HIDE DEF f
    <2> QED BY <2>1, <2>2 DEF Injection, IsInjective
  <1>6. IsFiniteSet(Below) /\ IsFiniteSet(Below \ {0})
        /\ Cardinality(Below \ {0}) = Cardinality(Below) - 1
    <2>1. IsFiniteSet(0..top)
      BY <1>2, FS_Interval
    <2>2. Below \in SUBSET (0..top)
      OBVIOUS
    <2> HIDE DEF Below
    <2>3. IsFiniteSet(Below)
      BY <2>1, <2>2, FS_Subset
    <2> QED BY <1>3, <2>3, FS_RemoveElement
  <1> HIDE DEF f, Below
  <1>7. Cardinality(Below) <= Cardinality(Below \ {0})
    BY <1>5, <1>6, FS_Injection
  <1>8. Cardinality(Below) \in Nat
    BY <1>6, FS_CardinalityType
  <1> QED BY <1>6, <1>7, <1>8

LEMMA FirstFallIsFall ==
  ASSUME NEW slots, Falls(slots) # {}
  PROVE  FirstFall(slots) \in Falls(slots)
  <1>1. Falls(slots) \in SUBSET Nat
    BY DEF Falls
  <1>2. \E i \in Falls(slots) : \A j \in Falls(slots) : i <= j
    BY <1>1, LeastExists
  <1> QED BY <1>2 DEF FirstFall

-----------------------------------------------------------------------------
(* The slot that is written next does not matter.                          *)
Logs == [Slots -> AnyRecord]

LEMMA FreeSlot ==
  ASSUME NEW h \in Slots, NEW slots, NEW other,
         \A s \in Slots \ {h} : other[s] = slots[s]
  PROVE  /\ InOrder(h, slots) => InOrder(h, other)
         /\ \A r : Fits(h, slots, r) => Fits(h, other, r)
  <1>1. Young(h, other) <=> Young(h, slots)
    BY DEF Young
  <1>2. ASSUME InOrder(h, slots) PROVE InOrder(h, other)
    BY <1>1, <1>2 DEF InOrder
  <1>3. ASSUME NEW r, Fits(h, slots, r) PROVE Fits(h, other, r)
    BY <1>1, <1>3 DEF Fits
  <1> QED BY <1>2, <1>3

LEMMA NextSlot ==
  ASSUME NEW h \in Slots
  PROVE  /\ Next1(h) \in Slots /\ Next1(h) # h
         /\ h = MAX_RECORDS - 1 => Next1(h) = 0
         /\ h # MAX_RECORDS - 1 => Next1(h) = h + 1
  BY DEF Slots, Next1

(* Once the record in slot h counts, the others are still in order, h is   *)
(* the newest, and a record taken later fits behind it.                    *)
LEMMA Appended ==
  ASSUME NEW h \in Slots, NEW slots \in Logs,
         InOrder(h, slots), Fits(h, slots, slots[h])
  PROVE  /\ InOrder(Next1(h), slots)
         /\ \A n \in Nat : n > slots[h].stamp =>
              Fits(Next1(h), slots, [count |-> Succ(slots[h].count), stamp |-> n])
  <1> DEFINE g == Next1(h)
  <1>0. /\ g \in Slots /\ g # h
        /\ h = MAX_RECORDS - 1 => g = 0
        /\ h # MAX_RECORDS - 1 => g = h + 1
    BY NextSlot
  <1> HIDE DEF g
  <1>1. \A s \in Slots : slots[s] \in AnyRecord /\ slots[s].stamp \in Nat
    BY DEF Logs, AnyRecord
  <1>2. slots[h].stamp > 0 /\ slots[h].stamp # 0
    BY <1>1 DEF Fits
  <1>3. ASSUME NEW s \in Slots \ {g}, NEW t \in Slots \ {g},
               Older(g, s, t), slots[s].stamp # 0
        PROVE  Follows(slots[s], slots[t])
    <2>1. s # h
      BY <1>0, <1>3 DEF Older, Slots
    <2>2. CASE t = h
      BY <1>3, <2>1, <2>2 DEF Fits
    <2>3. CASE t # h
      <3>1. Older(h, s, t)
        BY <1>0, <1>3, <2>1, <2>3 DEF Older, Slots
      <3> QED BY <1>3, <2>1, <2>3, <3>1 DEF InOrder
    <2> QED BY <2>2, <2>3
  <1>4. ASSUME Young(g, slots)
        PROVE  /\ Young(h, slots) /\ g = h + 1
               /\ \A s \in Slots \ {h} : /\ s > h <=> slots[s].stamp = 0
                                         /\ s < h => FromStart(slots[s])
    <2>1. PICK b \in Slots \ {g} : slots[b].stamp = 0
      BY <1>4 DEF Young
    <2>2. b # h
      BY <1>2, <2>1
    <2>3. Young(h, slots)
      BY <2>1, <2>2 DEF Young
    <2>4. b > h
      BY <2>1, <2>2, <2>3 DEF InOrder
    <2> QED BY <1>0, <2>3, <2>4 DEF InOrder, Slots
  <1>5. InOrder(g, slots)
    <2>1. ASSUME Young(g, slots), NEW s \in Slots \ {g}
          PROVE  /\ s > g <=> slots[s].stamp = 0
                 /\ s < g => FromStart(slots[s])
      <3>1. CASE s = h
        BY <1>2, <1>4, <2>1, <3>1 DEF Fits, Slots
      <3>2. CASE s # h
        BY <1>4, <2>1, <3>2 DEF Slots
      <3> QED BY <3>1, <3>2
    <2> QED BY <1>3, <2>1 DEF InOrder
  <1>6. ASSUME NEW n \in Nat, n > slots[h].stamp
        PROVE  Fits(g, slots, [count |-> Succ(slots[h].count), stamp |-> n])
    <2> DEFINE r == [count |-> Succ(slots[h].count), stamp |-> n]
    <2>1. /\ r \in AnyRecord /\ Follows(slots[h], r)
          /\ FromStart(slots[h]) => FromStart(r)
      BY <1>1, <1>6, FollowedByNext
    <2>2. r.stamp > 0
      BY <1>1, <1>6
    <2> HIDE DEF r
    <2>3. ASSUME NEW s \in Slots \ {g}, slots[s].stamp # 0
          PROVE  Follows(slots[s], r)
      <3>1. CASE s = h
        BY <2>1, <3>1
      <3>2. CASE s # h
        <4>1. Follows(slots[s], slots[h])
          BY <2>3, <3>2 DEF Fits
        <4> QED BY <1>1, <2>1, <4>1, FollowsTransitive
      <3> QED BY <3>1, <3>2
    <2>4. Young(g, slots) => FromStart(r)
      BY <1>4, <2>1 DEF Fits
    <2>5. Fits(g, slots, r)
      BY <2>2, <2>3, <2>4 DEF Fits
    <2> QED BY <2>5 DEF r
  <1> QED BY <1>5, <1>6 DEF g

-----------------------------------------------------------------------------
(* The scan by counters: the only fall is behind the newest record, which  *)
(* is in slot h; it cannot be told when the log holds one record only.     *)
LEMMA ScanFindsNewest ==
  ASSUME NEW h \in Slots, NEW slots \in Logs,
         InOrder(h, slots), Fits(h, slots, slots[h]), Scannable(slots)
  PROVE  \/ /\ Recovered(slots).at = Next1(h)
            /\ Recovered(slots).count = Succ(slots[h].count)
         \/ /\ Recovered(slots).at = h /\ h = 0
            /\ Recovered(slots).count = Succ(0)
            /\ \A s \in Slots \ {h} : slots[s].stamp = 0
  <1> DEFINE half == CountMod \div 2
  <1>0. half \in Nat /\ 2 * half <= CountMod /\ half < CountMod /\ half > 0
    OBVIOUS
  <1> HIDE DEF half
  <1>1. \A s \in Slots : /\ slots[s] \in AnyRecord /\ slots[s].stamp \in Nat
                         /\ slots[s].count \in Counts
    BY DEF Logs, AnyRecord
  <1>2. slots[h].stamp > 0 /\ slots[h].stamp # 0
    BY <1>1 DEF Fits
  <1>3. \A s, t \in Slots : slots[t].stamp < slots[s].stamp + half
    BY DEF Scannable, Close, half
  <1>4. \A s \in Slots : slots[s].stamp = 0 => slots[s].count = 0
    BY DEF Scannable, ReadsBlank
  <1>5. \A i \in 0..(MAX_RECORDS - 2) :
          /\ i \in Slots /\ i + 1 \in Slots
          /\ i \in Falls(slots) <=> Gap(slots[i].count, slots[i + 1].count) > half
          /\ Gap(slots[i].count, slots[i + 1].count) \in Nat
    <2>1. ASSUME NEW i \in 0..(MAX_RECORDS - 2)
          PROVE  i \in Slots /\ i + 1 \in Slots
      BY DEF Slots
    <2>2. ASSUME NEW i \in 0..(MAX_RECORDS - 2)
          PROVE  Gap(slots[i].count, slots[i + 1].count)
                   = (slots[i + 1].count + CountMod - slots[i].count) % CountMod
                 /\ Gap(slots[i].count, slots[i + 1].count) \in Counts
      BY <1>1, <2>1, GapValue
    <2> QED BY <2>1, <2>2 DEF Falls, half, Counts
  <1>6. ASSUME NEW a \in Slots, NEW b \in Slots, Follows(slots[a], slots[b])
        PROVE  /\ slots[a].count # slots[b].count
               /\ Gap(slots[a].count, slots[b].count) < half
    BY <1>0, <1>1, <1>3, <1>6 DEF Follows, Gap, Counts
  <1>7. ASSUME NEW i \in 0..(MAX_RECORDS - 2), i # h
        PROVE  i \notin Falls(slots)
    <2>1. i \in Slots /\ i + 1 \in Slots
      BY <1>5
    <2>2. CASE slots[i].stamp = 0
      <3>1. Young(h, slots)
        BY <1>7, <2>1, <2>2 DEF Young
      <3>2. i > h
        BY <1>7, <2>1, <2>2, <3>1 DEF InOrder
      <3>3. i + 1 > h /\ i + 1 # h
        BY <2>1, <3>2 DEF Slots
      <3>4. slots[i + 1].stamp = 0
        BY <2>1, <3>1, <3>3 DEF InOrder
      <3>5. slots[i].count = 0 /\ slots[i + 1].count = 0
        BY <1>4, <2>1, <2>2, <3>4
      <3> QED BY <1>0, <1>5, <3>5 DEF Gap
    <2>3. CASE slots[i].stamp # 0 /\ i + 1 = h
      <3>1. Follows(slots[i], slots[i + 1])
        BY <1>7, <2>1, <2>3 DEF Fits
      <3>2. Gap(slots[i].count, slots[i + 1].count) < half
        BY <1>6, <2>1, <3>1
      <3> QED BY <1>0, <1>5, <3>2
    <2>4. CASE slots[i].stamp # 0 /\ i + 1 # h
      <3>1. Older(h, i, i + 1)
        BY <1>7, <2>1, <2>4 DEF Older, Slots
      <3>2. Follows(slots[i], slots[i + 1])
        BY <1>7, <2>1, <2>4, <3>1 DEF InOrder
      <3>3. Gap(slots[i].count, slots[i + 1].count) < half
        BY <1>6, <2>1, <3>2
      <3> QED BY <1>0, <1>5, <3>3
    <2> QED BY <2>2, <2>3, <2>4
  <1>8. Falls(slots) \subseteq 0..(MAX_RECORDS - 2)
    BY DEF Falls
  <1>9. CASE h \in Falls(slots)
    <2>1. Falls(slots) = {h} /\ h # MAX_RECORDS - 1
      BY <1>7, <1>8, <1>9 DEF Slots
    <2>2. FirstFall(slots) = h
      BY <2>1, FirstFallIsFall
    <2>3. Next1(h) = h + 1
      BY <2>1, NextSlot
    <2> QED BY <2>1, <2>2, <2>3 DEF Recovered
  <1>10. CASE h \notin Falls(slots)
    <2>1. Falls(slots) = {}
      BY <1>7, <1>8, <1>10
    <2>2. /\ Recovered(slots).at = 0
          /\ Recovered(slots).count = Succ(slots[MAX_RECORDS - 1].count)
      BY <2>1 DEF Recovered
    <2>3. CASE h = MAX_RECORDS - 1
      BY <2>2, <2>3, NextSlot
    <2>4. CASE h # MAX_RECORDS - 1
      <3>1. h \in 0..(MAX_RECORDS - 2) /\ h + 1 \in Slots /\ h + 1 # h
            /\ h + 1 > h /\ MAX_RECORDS - 1 \in Slots /\ MAX_RECORDS - 1 > h
        BY <2>4 DEF Slots
      <3>2. Gap(slots[h].count, slots[h + 1].count) <= half
        BY <1>0, <1>5, <1>10, <3>1
      <3>3. slots[h + 1].stamp = 0
        <4>1. SUFFICES ASSUME slots[h + 1].stamp # 0 PROVE FALSE
          OBVIOUS
        <4>2. Follows(slots[h + 1], slots[h])
          BY <3>1, <4>1 DEF Fits
        <4>3. /\ slots[h + 1].count # slots[h].count
              /\ Gap(slots[h + 1].count, slots[h].count) < half
          BY <1>6, <3>1, <4>2
        <4>4. slots[h].count \in Counts /\ slots[h + 1].count \in Counts
          BY <1>1, <3>1
        <4> QED BY <1>0, <3>2, <4>3, <4>4 DEF Gap, Counts
      <3>4. Young(h, slots)
        BY <3>1, <3>3 DEF Young
      <3>5. slots[h].stamp < half /\ slots[h].stamp \in Nat /\ slots[h].count \in Nat
        BY <1>0, <1>1, <1>3, <3>1, <3>3 DEF Counts
      <3>6. slots[h].count < slots[h].stamp
        BY <1>0, <3>4, <3>5 DEF Fits, FromStart
      <3>7. slots[h + 1].count = 0
        BY <1>4, <3>1, <3>3
      <3>8. slots[h].count = 0
        BY <1>0, <3>2, <3>5, <3>6, <3>7 DEF Gap
      <3>9. h = 0
        <4>1. SUFFICES ASSUME h # 0 PROVE FALSE
          OBVIOUS
        <4>2. 0 \in Slots /\ 0 # h /\ 0 < h /\ ~(0 > h)
          BY <4>1 DEF Slots
        <4>3. slots[0].stamp # 0 /\ FromStart(slots[0])
          BY <3>4, <4>2 DEF InOrder
        <4>4. Follows(slots[0], slots[h])
          BY <4>2, <4>3 DEF Fits
        <4>5. slots[0].count # 0 /\ Gap(slots[0].count, 0) <= slots[h].stamp - slots[0].stamp
              /\ slots[0].stamp < slots[h].stamp
          BY <1>0, <1>1, <3>5, <3>8, <4>2, <4>4 DEF Follows
        <4>6. slots[0].stamp \in Nat /\ slots[0].count \in Counts
          BY <1>1, <4>2
        <4> QED BY <1>0, <3>5, <4>3, <4>5, <4>6 DEF FromStart, Gap, Counts
      <3>10. \A s \in Slots \ {h} : slots[s].stamp = 0
        BY <3>4, <3>9 DEF InOrder, Slots
      <3>11. slots[MAX_RECORDS - 1].count = 0
        BY <1>4, <3>1, <3>10
      <3> QED BY <2>2, <3>9, <3>10, <3>11
    <2> QED BY <2>3, <2>4
  <1> QED BY <1>9, <1>10

-----------------------------------------------------------------------------
(* Two records that are kept were taken at different times, and the later  *)
(* one follows the earlier.                                                *)
LEMMA KeptInOrder ==
  ASSUME NEW h \in Slots, NEW slots \in Logs, InOrder(h, slots),
         NEW s \in Slots \ {h}, NEW t \in Slots \ {h}, s # t,
         slots[s].stamp # 0, slots[t].stamp # 0
  PROVE  /\ slots[s].stamp # slots[t].stamp
         /\ slots[s].stamp < slots[t].stamp => Follows(slots[s], slots[t])
  <1>1. slots[s].stamp \in Nat /\ slots[t].stamp \in Nat
    BY DEF Logs, AnyRecord
  <1>2. CASE Older(h, s, t)
    <2>1. Follows(slots[s], slots[t])
      BY <1>2 DEF InOrder
    <2> QED BY <1>1, <2>1 DEF Follows
  <1>3. CASE Older(h, t, s)
    <2>1. Follows(slots[t], slots[s])
      BY <1>3 DEF InOrder
    <2> QED BY <1>1, <2>1 DEF Follows
  <1>4. Older(h, s, t) \/ Older(h, t, s)
    BY DEF Older, Slots
  <1> QED BY <1>2, <1>3, <1>4

Kept(h, slots) == {slots[s].stamp : s \in Slots \ {h}} \ {0}

LEMMA SlotsFinite ==
  ASSUME NEW h \in Slots
  PROVE  /\ IsFiniteSet(Slots \ {h})
         /\ Cardinality(Slots \ {h}) = MAX_RECORDS - 1
  <1>1. IsFiniteSet(Slots) /\ Cardinality(Slots) = MAX_RECORDS
    <2>1. 0 \in Int /\ MAX_RECORDS - 1 \in Int /\ ~(0 > MAX_RECORDS - 1)
          /\ (MAX_RECORDS - 1) - 0 + 1 = MAX_RECORDS
      OBVIOUS
    <2> QED BY <2>1, FS_Interval DEF Slots
  <1> QED BY <1>1, FS_RemoveElement

(* The record in slot h enters the ring of the records kept as LogRing     *)
(* asks for.                                                               *)
LEMMA RingCommit ==
  ASSUME NEW h \in Slots, NEW slots \in Logs,
         InOrder(h, slots), Fits(h, slots, slots[h])
  PROVE  /\ \A m \in Kept(h, slots) : m < slots[h].stamp
         /\ Kept(Next1(h), slots) =
              IF Cardinality(Kept(h, slots)) < MAX_RECORDS - 1
                THEN Kept(h, slots) \cup {slots[h].stamp}
                ELSE (Kept(h, slots) \cup {slots[h].stamp})
                       \ {Ring!Oldest(Kept(h, slots))}
  <1> DEFINE g == Next1(h)
             k == Kept(h, slots)
             n == slots[h].stamp
  <1>0. /\ g \in Slots /\ g # h
        /\ h = MAX_RECORDS - 1 => g = 0
        /\ h # MAX_RECORDS - 1 => g = h + 1
    BY NextSlot
  <1> HIDE DEF g
  <1>1. \A s \in Slots : slots[s].stamp \in Nat
    BY DEF Logs, AnyRecord
  <1>2. n # 0
    BY <1>1 DEF Fits
  <1>3. \A m \in k : m < n
    BY DEF Kept, Fits, Follows
  <1>4. Kept(g, slots) \cup (IF slots[g].stamp = 0 THEN {} ELSE {slots[g].stamp}) = k \cup {n}
    BY <1>0, <1>2 DEF Kept
  <1>5. CASE slots[g].stamp = 0
    <2>1. Kept(g, slots) = k \cup {n}
      BY <1>4, <1>5
    <2> DEFINE Rest == (Slots \ {h}) \ {g}
               Stamps == {slots[s].stamp : s \in Rest}
    <2>2. IsFiniteSet(Rest) /\ Cardinality(Rest) = MAX_RECORDS - 2
      <3>1. g \in Slots \ {h}
        BY <1>0
      <3>2. /\ IsFiniteSet(Rest)
            /\ Cardinality(Rest) = Cardinality(Slots \ {h}) - 1
        BY <3>1, SlotsFinite, FS_RemoveElement
      <3>3. Cardinality(Slots \ {h}) = MAX_RECORDS - 1
        BY SlotsFinite
      <3> HIDE DEF Rest
      <3> QED BY <3>2, <3>3
    <2> HIDE DEF Rest
    <2>3. IsFiniteSet(Stamps) /\ Cardinality(Stamps) <= MAX_RECORDS - 2
      <3> DEFINE F == [s \in Rest |-> slots[s].stamp]
      <3>1. F \in Surjection(Rest, Stamps)
        BY DEF Surjection
      <3> HIDE DEF F, Stamps
      <3> QED BY <2>2, <3>1, FS_Surjection
    <2>4. k \in SUBSET Stamps
      BY <1>5 DEF Kept, Rest
    <2> HIDE DEF k, Stamps
    <2>5. Cardinality(k) <= Cardinality(Stamps) /\ Cardinality(k) \in Nat
          /\ Cardinality(Stamps) \in Nat
      BY <2>3, <2>4, FS_Subset, FS_CardinalityType
    <2>6. Cardinality(k) < MAX_RECORDS - 1
      BY <2>3, <2>5
    <2> QED BY <1>3, <2>1, <2>6 DEF g, k
  <1>6. CASE slots[g].stamp # 0
    <2>1. ~Young(h, slots)
      <3>1. SUFFICES ASSUME Young(h, slots) PROVE FALSE
        OBVIOUS
      <3>2. \A s \in Slots \ {h} : s > h <=> slots[s].stamp = 0
        BY <3>1 DEF InOrder
      <3>3. ~(g > h)
        BY <1>0, <1>6, <3>2
      <3>4. h = MAX_RECORDS - 1
        BY <1>0, <3>3 DEF Slots
      <3>5. PICK b \in Slots \ {h} : slots[b].stamp = 0
        BY <3>1 DEF Young
      <3> QED BY <3>2, <3>4, <3>5 DEF Slots
    <2>2. \A s \in Slots \ {h} : slots[s].stamp # 0
      BY <2>1 DEF Young
    <2>3. Cardinality(k) = MAX_RECORDS - 1
      <3> DEFINE F == [s \in Slots \ {h} |-> slots[s].stamp]
      <3>1. k = {slots[s].stamp : s \in Slots \ {h}}
        BY <2>2 DEF Kept
      <3>2. F \in Surjection(Slots \ {h}, k)
        BY <3>1 DEF Surjection
      <3>3. F \in Injection(Slots \ {h}, k)
        <4>1. F \in [Slots \ {h} -> k]
          BY <3>1
        <4>2. \A s, t \in Slots \ {h} : F[s] = F[t] => s = t
          BY <2>2, KeptInOrder
        <4> HIDE DEF F, k
        <4> QED BY <4>1, <4>2 DEF Injection, IsInjective
      <3> HIDE DEF F, k
      <3> QED BY <3>2, <3>3, SlotsFinite, FS_Surjection
    <2>4. slots[g].stamp \in k /\ \A m \in k : slots[g].stamp <= m
      <3>1. slots[g].stamp \in k
        BY <1>0, <1>6 DEF Kept
      <3>2. ASSUME NEW t \in Slots \ {h}, t # g PROVE slots[g].stamp <= slots[t].stamp
        <4>1. Older(h, g, t)
          BY <1>0, <3>2 DEF Older, Slots
        <4>2. Follows(slots[g], slots[t])
          BY <1>0, <1>6, <4>1 DEF InOrder
        <4> QED BY <1>0, <1>1, <4>2 DEF Follows
      <3> QED BY <1>0, <1>1, <3>1, <3>2 DEF Kept
    <2>5. Ring!Oldest(k) = slots[g].stamp
      <3>1. \A x \in k : x \in Nat
        BY <1>1 DEF Kept
      <3> HIDE DEF k
      <3>2. \A x \in k : (\A y \in k : x <= y) => x = slots[g].stamp
        BY <2>4, <3>1
      <3> QED BY <2>4, <3>2 DEF Ring!Oldest
    <2>6. slots[g].stamp \notin Kept(g, slots)
      <3>1. ASSUME NEW s \in Slots \ {g}, slots[s].stamp = slots[g].stamp PROVE FALSE
        <4>1. CASE s = h
          <5>1. slots[g].stamp < n
            BY <1>3, <2>4
          <5> QED BY <1>0, <1>1, <3>1, <4>1, <5>1
        <4>2. CASE s # h
          BY <1>0, <1>6, <3>1, <4>2, KeptInOrder
        <4> QED BY <4>1, <4>2
      <3> QED BY <3>1 DEF Kept
    <2>7. Kept(g, slots) = (k \cup {n}) \ {slots[g].stamp}
      BY <1>4, <1>6, <2>6
    <2> QED BY <1>3, <2>3, <2>5, <2>7 DEF g, k
  <1> QED BY <1>5, <1>6

-----------------------------------------------------------------------------
(* Types.                                                                  *)
Place == [at : Slots, count : Counts]

LEMMA CardIsLog == TypeOK => card \in Logs /\ \A s \in Slots : card[s].count \in Counts
  BY DEF TypeOK, Records, Logs, AnyRecord, Counts

LEMMA Places ==
  ASSUME TypeOK
  PROVE  /\ [at |-> 0, count |-> 0] \in Place
         /\ Recovered(card) \in Place
         /\ \A i \in Slots : RecoveredUntil(i, card) \in Place
         /\ index \in Slots => Loaded(card) \in Place
  <1> DEFINE Last == MAX_RECORDS - 1
  <1>1. 0 \in Slots /\ 0 \in Counts /\ Last \in Slots
    BY DEF Slots, Counts
  <1>2. \A s \in Slots : card[s].count \in Counts /\ Succ(card[s].count) \in Counts
    BY CardIsLog, SuccValue
  <1>3. \A i \in Slots : i > 0 => i - 1 \in Slots
    BY DEF Slots
  <1>4. Recovered(card) \in Place
    <2>1. CASE Falls(card) # {}
      <3>1. FirstFall(card) \in 0..(MAX_RECORDS - 2)
        BY <2>1, FirstFallIsFall DEF Falls
      <3>2. FirstFall(card) \in Slots /\ FirstFall(card) + 1 \in Slots
        BY <3>1 DEF Slots
      <3> QED BY <1>2, <2>1, <3>2 DEF Recovered, Place
    <2>2. CASE Falls(card) = {}
      BY <1>1, <1>2, <2>2 DEF Recovered, Place
    <2> QED BY <2>1, <2>2
  <1>5. ASSUME NEW i \in Slots PROVE RecoveredUntil(i, card) \in Place
    <2>1. i = 0 \/ i > 0
      BY DEF Slots
    <2> QED BY <1>1, <1>2, <1>3, <2>1 DEF RecoveredUntil, Place
  <1>6. ASSUME index \in Slots PROVE Loaded(card) \in Place
    <2>1. index > 0 => index - 1 \in Slots
      BY <1>3, <1>6
    <2> QED BY <1>1, <1>2, <1>6, <2>1 DEF Loaded, Place
  <1> QED BY <1>1, <1>4, <1>5, <1>6 DEF Place

LEMMA TypeInit == Init => TypeOK
  <1>1. /\ {[count |-> c, stamp |-> 0] : c \in Blanks} \subseteq Records
        /\ NoRecord \in Records
    BY DEF Records, NoRecord
  <1>2. 0 \in Slots /\ 0 \in 0..(CountMod - 1) /\ 0 \in 0..MaxStamp
    BY DEF Slots
  <1>3. Init => card \in [Slots -> Records] /\ cached \in [Slots -> Records]
    BY <1>1 DEF Init
  <1> QED BY <1>1, <1>2, <1>3 DEF Init, TypeOK, Causes

LEMMA TypeStep == TypeOK /\ [Next]_vars => TypeOK'
  <1> SUFFICES ASSUME TypeOK, [Next]_vars PROVE TypeOK'
    OBVIOUS
  <1> USE DEF TypeOK, Unbooted, cardVars, ramVars, fileVars
  <1>0. /\ "unsynced" \in Causes /\ "unsaved" \in Causes /\ "restarted" \in Causes
        /\ "unscannable" \in Causes /\ "unread" \in Causes
        /\ \A s \in Slots : Next1(s) \in Slots
        /\ Succ(g_write_count) \in 0..(CountMod - 1)
    BY NextSlot, SuccValue DEF Causes, Counts
  <1>c. \A what \in Causes : /\ Spoilt(what) => cause' \in Causes
                             /\ \A p : SpoiltIf(p, what) => cause' \in Causes
    BY DEF Causes, Spoilt, SpoiltIf
  <1>1. CASE RtcSecond
    BY <1>1 DEF RtcSecond
  <1>2. CASE FillRecord
    <2>1. stamp' \in 0..MaxStamp
      BY <1>2 DEF FillRecord
    <2>2. sd_logs' \in Records
      BY <1>2, <2>1 DEF FillRecord, Records
    <2> QED BY <1>0, <1>2, <2>1, <2>2 DEF FillRecord
  <1>3. ASSUME NEW ok \in BOOLEAN, WriteRecord(ok) PROVE TypeOK'
    BY <1>3 DEF WriteRecord
  <1>4. ASSUME NEW ok \in BOOLEAN, SyncRecord(ok) PROVE TypeOK'
    <2>1. cause' \in Causes
      BY <1>0, <1>c, <1>4 DEF SyncRecord
    <2>2. card' \in [Slots -> Records]
      BY <1>4 DEF SyncRecord
    <2> QED BY <1>0, <1>4, <2>1, <2>2 DEF SyncRecord
  <1>5. ASSUME NEW ok \in BOOLEAN, SaveIndex(ok) PROVE TypeOK'
    <2>1. cause' \in Causes
      BY <1>0, <1>c, <1>5 DEF SaveIndex
    <2> QED BY <1>5, <2>1 DEF SaveIndex
  <1>6. CASE Export
    BY <1>6 DEF Export, OpenFiles
  <1>7. CASE Crash
    <2>1. card' \in [Slots -> Records] /\ cause' = cause
      <3>1. \A c \in Blanks : [count |-> c, stamp |-> 0] \in Records
        BY DEF Records
      <3> QED BY <1>7, <3>1 DEF Crash, CrashCard
    <2>2. index' \in Slots \cup {BadIndex, NoIndex} /\ home' \in Slots
      BY <1>7 DEF Crash, CrashIndex
    <2>3. NoRecord \in Records /\ 0 \in Slots /\ 0 \in 0..(CountMod - 1)
      BY DEF NoRecord, Records, Slots
    <2> QED BY <1>7, <2>1, <2>2, <2>3 DEF Crash
  <1> DEFINE Started == sd_index' \in Slots /\ g_write_count' \in 0..(CountMod - 1)
  <1>8. ASSUME NEW p \in Place, StartAt(p) PROVE Started
    BY <1>8 DEF StartAt, Place, Counts
  <1>9. CASE BootFresh
    <2>1. Started
      BY <1>8, <1>9, Places DEF BootFresh
    <2>2. 0 \in Slots
      BY DEF Slots
    <2> QED BY <1>9, <2>1, <2>2 DEF BootFresh, OpenFiles
  <1>10. CASE BootLoaded
    <2>1. Started /\ cause' \in Causes
      BY <1>0, <1>c, <1>8, <1>10, Places DEF BootLoaded
    <2> QED BY <1>10, <2>1 DEF BootLoaded, OpenFiles
  <1>11. CASE BootRecovered
    <2>1. Started /\ cause' \in Causes
      BY <1>0, <1>c, <1>8, <1>11, Places DEF BootRecovered
    <2> QED BY <1>11, <2>1 DEF BootRecovered, OpenFiles
  <1>12. CASE BootUnreadable
    <2>1. cause' \in Causes
      BY <1>0, <1>c, <1>12 DEF BootUnreadable
    <2>2. Started
      <3>1. index \in Slots => [at |-> index, count |-> 0] \in Place
        BY Places DEF Place
      <3> QED BY <1>8, <1>12, <3>1, Places DEF BootUnreadable
    <2>3. index' \in Slots \cup {BadIndex, NoIndex} /\ home' \in Slots
      BY <1>12, <2>2 DEF BootUnreadable
    <2> QED BY <1>12, <2>1, <2>2, <2>3 DEF BootUnreadable, OpenFiles
  <1>13. CASE UNCHANGED vars
    BY <1>13 DEF vars
  <1> QED BY <1>1, <1>2, <1>3, <1>4, <1>5, <1>6, <1>7, <1>9, <1>10, <1>11, <1>12, <1>13
          DEF Next, Logging, Boot

-----------------------------------------------------------------------------
(* The record that is counted next fits behind all that are kept.          *)
LEMMA FitsLater ==
  ASSUME NEW h \in Slots, NEW slots \in Logs, NEW r \in AnyRecord,
         Fits(h, slots, r), NEW n \in Nat, n > r.stamp
  PROVE  Fits(h, slots, [count |-> Succ(r.count), stamp |-> n])
  <1> DEFINE later == [count |-> Succ(r.count), stamp |-> n]
  <1>1. /\ later \in AnyRecord /\ Follows(r, later)
        /\ FromStart(r) => FromStart(later)
    BY FollowedByNext
  <1>2. later.stamp > 0
    BY DEF AnyRecord
  <1> HIDE DEF later
  <1>3. ASSUME NEW s \in Slots \ {h}, slots[s].stamp # 0
        PROVE  Follows(slots[s], later)
    <2>1. slots[s] \in AnyRecord /\ Follows(slots[s], r)
      BY <1>3 DEF Fits, Logs
    <2> QED BY <1>1, <2>1, FollowsTransitive
  <1>4. Fits(h, slots, later)
    BY <1>1, <1>2, <1>3 DEF Fits
  <1> QED BY <1>4 DEF later

LEMMA FitsEmpty ==
  ASSUME NEW h \in Slots, NEW slots \in Logs, NEW c \in Counts, NEW n \in Nat,
         c < n, \A s \in Slots \ {h} : slots[s].stamp = 0
  PROVE  Fits(h, slots, [count |-> c, stamp |-> n])
  BY DEF Fits, FromStart, Counts

LEMMA FitsBehindLast ==
  ASSUME NEW h \in Slots, h > 0, NEW slots \in Logs, InOrder(h, slots),
         NEW n \in Nat, \A s \in Slots : slots[s].stamp < n
  PROVE  Fits(h, slots, [count |-> Succ(slots[h - 1].count), stamp |-> n])
  <1> DEFINE later == [count |-> Succ(slots[h - 1].count), stamp |-> n]
             last == slots[h - 1]
  <1>0. h - 1 \in Slots \ {h} /\ h - 1 < h /\ ~(h - 1 > h)
    BY DEF Slots
  <1>1. /\ last \in AnyRecord /\ last.stamp \in Nat /\ last.stamp < n
    BY <1>0 DEF Logs, AnyRecord
  <1>2. last.stamp # 0 /\ (Young(h, slots) => FromStart(last))
    BY <1>0 DEF InOrder, Young
  <1>3. /\ later \in AnyRecord /\ Follows(last, later)
        /\ FromStart(last) => FromStart(later)
    BY <1>1, FollowedByNext
  <1>4. later.stamp > 0
    BY <1>1
  <1> HIDE DEF later
  <1>5. ASSUME NEW s \in Slots \ {h}, slots[s].stamp # 0
        PROVE  Follows(slots[s], later)
    <2>1. CASE s = h - 1
      BY <1>3, <2>1
    <2>2. CASE s # h - 1
      <3>1. Older(h, s, h - 1)
        BY <1>0, <2>2 DEF Older, Slots
      <3>2. Follows(slots[s], last)
        BY <1>0, <1>5, <3>1 DEF InOrder
      <3>3. slots[s] \in AnyRecord
        BY DEF Logs
      <3> QED BY <1>1, <1>3, <3>2, <3>3, FollowsTransitive
    <2> QED BY <2>1, <2>2
  <1>6. Fits(h, slots, later)
    BY <1>2, <1>3, <1>4, <1>5 DEF Fits
  <1> QED BY <1>6 DEF later

-----------------------------------------------------------------------------
(* While nothing spoils the log, a step keeps the records that are kept or *)
(* makes the record behind them one of them.                               *)
Steady  == home' = home /\ \A s \in Slots \ {home} : card'[s] = card[s]
Commits == home' = Next1(home) /\ card' = card /\ Fits(home, card, card[home])

LEMMA SpoiltStays == cause # "nothing" /\ [Next]_vars => cause' = cause
  BY DEF Next, Logging, Boot, RtcSecond, FillRecord, WriteRecord, SyncRecord, SaveIndex,
         Export, Crash, CrashCard, BootFresh, BootLoaded, BootRecovered,
         BootUnreadable, Spoilt, SpoiltIf, Unbooted, vars

LEMMA Booted ==
  ASSUME TypeOK, Undisturbed, Boot, cause' = "nothing"
  PROVE  /\ Steady \/ Commits
         /\ index' = home'
         /\ sd_index' = home' /\ Fits(home', card', Upcoming')
  <1> USE DEF Undisturbed
  <1>0. card \in Logs /\ home \in Slots /\ stamp \in Nat
        /\ \A s \in Slots : card[s].stamp < stamp + 1
    BY CardIsLog DEF LogInv, TypeOK, Logs, AnyRecord
  <1>1. CASE BootFresh
    <2>1. /\ home' = 0 /\ index' = 0 /\ card' = card /\ home = 0
          /\ sd_index' = 0 /\ Upcoming' = [count |-> 0, stamp |-> stamp + 1]
          /\ \A s \in Slots : card[s].stamp = 0
      BY <1>1 DEF BootFresh, StartAt, IndexInv, Unbooted, Upcoming
    <2>2. 0 \in Counts
      BY DEF Counts
    <2> QED BY <1>0, <2>1, <2>2, FitsEmpty DEF Steady
  <1>2. CASE BootLoaded
    <2>1. /\ home' = home /\ index' = home /\ index = home /\ card' = card
          /\ sd_index' = home
          /\ Upcoming' = [count |-> Loaded(card).count, stamp |-> stamp + 1]
      BY <1>2 DEF BootLoaded, StartAt, Loaded, IndexInv, Unbooted, Upcoming
    <2>2. CASE home > 0
      <3>1. Loaded(card).count = Succ(card[home - 1].count)
        BY <2>1, <2>2 DEF Loaded
      <3>2. Fits(home, card, [count |-> Succ(card[home - 1].count), stamp |-> stamp + 1])
        BY <1>0, <2>2, FitsBehindLast DEF LogInv
      <3> QED BY <2>1, <3>1, <3>2 DEF Steady
    <2>3. CASE home = 0
      <3>1. Loaded(card).count = 0 /\ 0 \in Counts
        BY <2>1, <2>3 DEF Loaded, Counts
      <3>2. card[MAX_RECORDS - 1].stamp = 0
        BY <1>2, <2>1, <2>3 DEF BootLoaded, SpoiltIf, Spoilt, Prev
      <3>3. MAX_RECORDS - 1 \in Slots \ {home}
        BY <2>3 DEF Slots
      <3>4. Young(home, card)
        BY <3>2, <3>3 DEF Young
      <3>5. \A s \in Slots \ {home} : card[s].stamp = 0
        BY <2>3, <3>4 DEF LogInv, InOrder, Slots
      <3> QED BY <1>0, <2>1, <3>1, <3>5, FitsEmpty DEF Steady
    <2> QED BY <1>0, <2>2, <2>3 DEF Slots
  <1>3. CASE BootRecovered
    <2>1. /\ home' = Recovered(card).at /\ index' = home' /\ card' = card
          /\ sd_index' = home' /\ stamp' = stamp
          /\ Upcoming' = [count |-> Recovered(card).count, stamp |-> stamp + 1]
          /\ Scannable(card)
      BY <1>3 DEF BootRecovered, StartAt, SpoiltIf, Spoilt, Unbooted, Upcoming
    <2>2. Fits(home, card, card[home]) /\ InOrder(home, card)
      BY <1>3 DEF BootRecovered, IndexInv, LogInv
    <2>3. CASE /\ Recovered(card).at = Next1(home)
               /\ Recovered(card).count = Succ(card[home].count)
      <3>1. \A n \in Nat : n > card[home].stamp =>
              Fits(Next1(home), card, [count |-> Succ(card[home].count), stamp |-> n])
        BY <1>0, <2>2, Appended
      <3>2. stamp + 1 \in Nat /\ stamp + 1 > card[home].stamp
        <4>1. card[home].stamp \in Nat
          BY <1>0 DEF Logs, AnyRecord
        <4> QED BY <1>0, <4>1
      <3>3. Fits(Next1(home), card, [count |-> Succ(card[home].count), stamp |-> stamp + 1])
        BY <3>1, <3>2
      <3> QED BY <2>1, <2>2, <2>3, <3>3 DEF Commits
    <2>4. CASE /\ Recovered(card).at = home /\ home = 0
               /\ Recovered(card).count = Succ(0)
               /\ \A s \in Slots \ {home} : card[s].stamp = 0
      <3>1. Succ(0) = 1 /\ 0 \in Counts /\ 1 \in Counts
        BY SuccValue DEF Counts
      <3>2. card[home].stamp \in Nat /\ card[home].stamp > 0
        BY <1>0, <2>2 DEF Logs, AnyRecord, Fits
      <3>3. 1 < stamp + 1 /\ stamp + 1 \in Nat
        BY <1>0, <3>2
      <3>4. Fits(home, card, [count |-> 1, stamp |-> stamp + 1])
        BY <1>0, <2>4, <3>1, <3>3, FitsEmpty
      <3> QED BY <2>1, <2>4, <3>1, <3>4 DEF Steady
    <2> QED BY <1>0, <2>1, <2>2, <2>3, <2>4, ScanFindsNewest
  <1>4. CASE BootUnreadable
    BY <1>4 DEF BootUnreadable, Spoilt
  <1> QED BY <1>1, <1>2, <1>3, <1>4 DEF Boot

LEMMA UndisturbedStep ==
  ASSUME TypeOK, TypeOK', Undisturbed, [Next]_vars, cause' = "nothing"
  PROVE  Undisturbed' /\ (Steady \/ Commits)
  <1> USE DEF Undisturbed
  <1>0. /\ card \in Logs /\ card' \in Logs /\ home \in Slots /\ home' \in Slots
        /\ stamp \in Nat /\ stamp' \in Nat /\ card \in [Slots -> Records]
        /\ \A s \in Slots : card[s].stamp \in Nat /\ card'[s].stamp \in Nat
        /\ BadIndex \notin Slots /\ NoIndex \notin Slots /\ NoIndex # BadIndex
    <2>1. Records \subseteq AnyRecord
      BY DEF Records, AnyRecord, Counts
    <2>2. card \in Logs /\ card' \in Logs
      BY <2>1 DEF TypeOK, Logs
    <2>3. \A s \in Slots : card[s].stamp \in Nat /\ card'[s].stamp \in Nat
      BY <2>2 DEF Logs, AnyRecord
    <2>4. BadIndex \notin Slots /\ NoIndex \notin Slots /\ NoIndex # BadIndex
      BY DEF Slots, BadIndex, NoIndex
    <2> QED BY <2>2, <2>3, <2>4 DEF TypeOK
  <1>1. /\ InOrder(home, card) /\ \A s \in Slots : card[s].stamp <= stamp
        /\ pc # "sync" => cached = card
        /\ pc = "sync" => cached = [card EXCEPT ![home] = sd_logs]
        /\ pc # "off" => index = home
        /\ pc \in {"idle", "write", "sync"} => sd_index = home
    <2>1. index \in Slots \cup {BadIndex, NoIndex}
      BY DEF TypeOK
    <2> QED BY <2>1 DEF LogInv, IndexInv, RecordInv
  (* The order survives whichever of the two happens.                      *)
  <1>2. ASSUME Steady \/ Commits PROVE InOrder(home', card')
    <2>1. CASE Steady
      BY <1>0, <1>1, <2>1, FreeSlot DEF Steady
    <2>2. CASE Commits
      BY <1>0, <1>1, <2>2, Appended DEF Commits
    <2> QED BY <1>2, <2>1, <2>2
  <1>3. CASE RtcSecond \/ UNCHANGED vars
    <2>1. UNCHANGED <<card, cached, index, pc, sd_index, g_write_count, sd_logs,
                      stamp, home, cause>>
      BY <1>3 DEF RtcSecond, cardVars, ramVars, fileVars, vars
    <2>2. Upcoming' = Upcoming
      BY <2>1 DEF Upcoming
    <2> QED BY <2>1, <2>2 DEF LogInv, IndexInv, RecordInv, Steady
  <1>4. CASE FillRecord
    <2>1. /\ UNCHANGED <<card, cached, index, home, sd_index>>
          /\ pc = "idle" /\ pc' = "write" /\ stamp' = stamp + 1
          /\ sd_logs' = Upcoming /\ g_write_count' = Succ(sd_logs'.count)
      BY <1>4 DEF FillRecord, cardVars, fileVars, Upcoming
    <2>2. Fits(home, card, Upcoming)
      BY <2>1 DEF RecordInv
    <2>3. LogInv'
      BY <1>0, <1>1, <2>1 DEF LogInv
    <2>4. IndexInv'
      BY <1>0, <1>1, <2>1 DEF IndexInv
    <2>5. sd_logs'.stamp = stamp'
      BY <2>1 DEF Upcoming
    <2> QED BY <1>1, <2>1, <2>2, <2>3, <2>4, <2>5 DEF RecordInv, Steady
  <1>5. ASSUME NEW ok \in BOOLEAN, WriteRecord(ok)
        PROVE  Undisturbed' /\ (Steady \/ Commits)
    <2>1. /\ UNCHANGED <<card, index, home, stamp, sd_index, g_write_count, sd_logs>>
          /\ pc = "write" /\ cached = card /\ sd_index = home
          /\ \/ pc' = "sync" /\ cached' = [cached EXCEPT ![sd_index] = sd_logs]
             \/ pc' = "idle" /\ cached' = cached
      BY <1>1, <1>5 DEF WriteRecord, cardVars, ramVars
    <2>2. /\ Fits(home, card, sd_logs) /\ sd_logs.stamp = stamp
          /\ g_write_count = Succ(sd_logs.count) /\ sd_logs \in AnyRecord
      BY <2>1 DEF RecordInv, TypeOK, Records, AnyRecord, Counts
    <2>3. Fits(home, card, Upcoming)
      <3>1. stamp + 1 \in Nat /\ stamp + 1 > sd_logs.stamp
        BY <1>0, <2>2
      <3> QED BY <1>0, <2>2, <3>1, FitsLater DEF Upcoming
    <2>4. Upcoming' = Upcoming
      BY <2>1 DEF Upcoming
    <2>5. LogInv' /\ IndexInv'
      BY <1>0, <1>1, <2>1 DEF LogInv, IndexInv
    <2>6. RecordInv'
      BY <2>1, <2>2, <2>3, <2>4 DEF RecordInv
    <2> QED BY <1>5, <2>1, <2>5, <2>6 DEF Steady
  <1>6. ASSUME NEW ok \in BOOLEAN, SyncRecord(ok)
        PROVE  Undisturbed' /\ (Steady \/ Commits)
    <2>1. /\ UNCHANGED <<cached, index, home, stamp, g_write_count, sd_logs>>
          /\ pc = "sync" /\ pc' = "save" /\ sd_index' = Next1(home)
          /\ card' = [card EXCEPT ![home] = sd_logs] /\ cached' = card'
      BY <1>1, <1>6 DEF SyncRecord, SpoiltIf, Spoilt, fileVars
    <2>2. /\ Fits(home, card, sd_logs) /\ sd_logs.stamp = stamp
          /\ g_write_count = Succ(sd_logs.count)
      BY <2>1 DEF RecordInv
    <2>3. Steady /\ card'[home] = sd_logs
      BY <1>0, <2>1 DEF Steady
    <2>4. Fits(home, card', sd_logs)
      BY <1>0, <2>2, <2>3, FreeSlot DEF Steady
    <2>5. LogInv' /\ IndexInv'
      <3>1. \A s \in Slots : card'[s].stamp <= stamp
        BY <1>0, <1>1, <2>2, <2>3 DEF Steady
      <3> QED BY <1>0, <1>1, <1>2, <2>1, <2>3, <3>1 DEF LogInv, IndexInv
    <2>6. RecordInv'
      BY <2>1, <2>2, <2>3, <2>4 DEF RecordInv
    <2> QED BY <1>6, <2>3, <2>5, <2>6
  <1>7. ASSUME NEW ok \in BOOLEAN, SaveIndex(ok)
        PROVE  Undisturbed' /\ (Steady \/ Commits)
    <2>1. /\ UNCHANGED <<card, cached, stamp, g_write_count, sd_index, sd_logs>>
          /\ pc = "save" /\ pc' = "idle" /\ index' = sd_index /\ home' = sd_index
          /\ sd_index = Next1(home) /\ cached = card
      BY <1>1, <1>7 DEF SaveIndex, Spoilt, ramVars, RecordInv
    <2>2. /\ Fits(home, card, card[home]) /\ card[home].stamp = stamp
          /\ g_write_count = Succ(card[home].count)
      BY <2>1 DEF RecordInv
    <2>3. Commits
      BY <2>1, <2>2 DEF Commits
    <2>4. Fits(home', card, Upcoming)
      <3>1. stamp + 1 \in Nat /\ stamp + 1 > card[home].stamp
        BY <1>0, <2>2
      <3> QED BY <1>0, <1>1, <2>1, <2>2, <3>1, Appended DEF Upcoming
    <2>5. Upcoming' = Upcoming
      BY <2>1 DEF Upcoming
    <2>6. LogInv' /\ IndexInv'
      BY <1>0, <1>1, <1>2, <2>1, <2>3 DEF LogInv, IndexInv
    <2>7. RecordInv'
      BY <2>1, <2>4, <2>5 DEF RecordInv
    <2> QED BY <1>7, <2>3, <2>6, <2>7
  <1>8. CASE Export
    <2>1. /\ UNCHANGED <<stamp, g_write_count, sd_index, sd_logs, pc>>
          /\ pc = "idle" /\ card' = card /\ cached' = card /\ sd_index = home
          /\ index' = home /\ home' = home
      BY <1>1, <1>8 DEF Export, ramVars
    <2>2. Upcoming' = Upcoming /\ Fits(home, card, Upcoming)
      BY <2>1 DEF Upcoming, RecordInv
    <2>3. LogInv' /\ IndexInv' /\ Steady
      BY <1>0, <1>1, <2>1 DEF LogInv, IndexInv, Steady
    <2>4. RecordInv'
      BY <2>1, <2>2 DEF RecordInv
    <2> QED BY <1>8, <2>3, <2>4
  <1>9. CASE Crash
    <2>1. /\ pc # "off" /\ pc' = "off" /\ cached' = card' /\ stamp' = stamp
          /\ CrashCard /\ CrashIndex
      BY <1>9 DEF Crash
    <2>2. /\ \A s \in Slots \ {home} : card'[s] = card[s]
          /\ card'[home].stamp <= stamp
          /\ pc # "sync" => card' = card
      <3>1. CASE card' = card
        BY <1>0, <1>1, <3>1
      <3>2. CASE pc = "sync" /\ card' = cached
        <4>1. sd_logs.stamp = stamp
          BY <3>2 DEF RecordInv
        <4> QED BY <1>0, <1>1, <3>2, <4>1
      <3>3. CASE /\ pc = "sync"
                 /\ \E c \in Blanks : card' = [card EXCEPT ![sd_index] = [count |-> c, stamp |-> 0]]
        BY <1>0, <1>1, <3>3
      <3> QED BY <2>1, <3>1, <3>2, <3>3 DEF CrashCard
    <2>3. /\ pc = "save" => /\ sd_index = Next1(home) /\ card[home] = sd_logs
                            /\ Fits(home, card, card[home])
      BY DEF RecordInv
    <2>4. CASE index' = index /\ home' = home
      <3>1. Steady
        BY <2>2, <2>4 DEF Steady
      <3> QED BY <1>0, <1>1, <1>2, <1>9, <2>1, <2>2, <2>4, <3>1
              DEF LogInv, IndexInv, RecordInv
    <2>5. CASE pc = "save" /\ index' = sd_index /\ home' = sd_index
      <3>1. Commits
        BY <2>2, <2>3, <2>5 DEF Commits
      <3> QED BY <1>0, <1>1, <1>2, <1>9, <2>1, <2>2, <2>5, <3>1
              DEF LogInv, IndexInv, RecordInv
    <2>6. CASE pc = "save" /\ index' = BadIndex /\ home' = home
      <3>1. Steady /\ card' = card /\ Fits(home', card', card'[home'])
        BY <2>2, <2>3, <2>6 DEF Steady
      <3> QED BY <1>0, <1>1, <1>2, <1>9, <2>1, <2>2, <2>6, <3>1
              DEF LogInv, IndexInv, RecordInv
    <2> QED BY <2>1, <2>4, <2>5, <2>6 DEF CrashIndex
  <1>10. CASE Boot
    <2>1. /\ Steady \/ Commits
          /\ index' = home' /\ sd_index' = home' /\ Fits(home', card', Upcoming')
      BY <1>10, Booted
    <2>2. UNCHANGED <<card, cached, stamp>> /\ pc = "off" /\ pc' = "idle"
      BY <1>10 DEF Boot, BootFresh, BootLoaded, BootRecovered, BootUnreadable, Unbooted
    <2>3. LogInv'
      BY <1>1, <1>2, <2>1, <2>2 DEF LogInv
    <2>4. IndexInv' /\ RecordInv'
      BY <1>0, <2>1, <2>2 DEF IndexInv, RecordInv
    <2> QED BY <1>10, <2>1, <2>3, <2>4
  <1> QED BY <1>3, <1>4, <1>5, <1>6, <1>7, <1>8, <1>9, <1>10 DEF Next, Logging

LEMMA InvariantHolds == Spec => []IInv
  <1>1. Init => IInv
    <2> SUFFICES ASSUME Init PROVE IInv
      OBVIOUS
    <2>1. TypeOK
      BY TypeInit
    <2>2. /\ \A s \in Slots : card[s].stamp = 0
          /\ cached = card /\ index = NoIndex /\ pc = "off" /\ home = 0 /\ stamp = 0
      BY DEF Init
    <2>3. LogInv
      BY <2>2 DEF LogInv, InOrder, Slots
    <2>4. IndexInv /\ RecordInv
      BY <2>2 DEF IndexInv, RecordInv, Slots, BadIndex, NoIndex
    <2> QED BY <2>1, <2>3, <2>4 DEF IInv, Undisturbed
  <1>2. IInv /\ [Next]_vars => IInv'
    <2> SUFFICES ASSUME IInv, [Next]_vars PROVE IInv'
      OBVIOUS
    <2>1. TypeOK'
      BY TypeStep DEF IInv
    <2>2. ASSUME cause' = "nothing" PROVE Undisturbed'
      <3>1. cause = "nothing"
        BY <2>2, SpoiltStays
      <3> QED BY <2>1, <2>2, <3>1, UndisturbedStep DEF IInv
    <2> QED BY <2>1, <2>2 DEF IInv
  <1> QED BY <1>1, <1>2, PTL DEF Spec

-----------------------------------------------------------------------------
(* Every variable keeps its type, and the index never leaves the ring,     *)
(* whatever power failures and disk errors occur.                          *)
THEOREM TypesCorrect == Spec => []TypeOK
  <1>1. IInv => TypeOK
    BY DEF IInv
  <1> QED BY <1>1, InvariantHolds, PTL

(* Between two records, the index in memory is the one a restart would     *)
(* find, unless something listed in cause happened.                        *)
THEOREM IndexCorrect == Spec => []IndexOnCardIsCurrent
  <1>1. IInv => IndexOnCardIsCurrent
    BY DEF IInv, Undisturbed, RecordInv, IndexOnCardIsCurrent
  <1> QED BY <1>1, InvariantHolds, PTL

(* The scan by counters finds the place where the log stopped, or the one  *)
(* after the record just written, whenever the index can be torn.          *)
THEOREM ScanCorrect == Spec => []ScanFindsTheEnd
  <1>1. IInv => ScanFindsTheEnd
    <2> SUFFICES ASSUME IInv, cause = "nothing", Scannable(card),
                        pc = "save" \/ index = BadIndex
                 PROVE  Recovered(card).at \in {home, Next1(home)}
      BY DEF ScanFindsTheEnd
    <2>1. TypeOK /\ Undisturbed
      BY DEF IInv
    <2>2. InOrder(home, card) /\ Fits(home, card, card[home])
      BY <2>1 DEF Undisturbed, LogInv, IndexInv, RecordInv
    <2> QED BY <2>1, <2>2, CardIsLog, ScanFindsNewest DEF TypeOK
  <1> QED BY <1>1, InvariantHolds, PTL

(* The counters tell which of two records that are kept is the later, as   *)
(* long as no more than half of the counter's range lies between them.     *)
THEOREM CountersCorrect == Spec => []CountersTellOrder
  <1>1. IInv => CountersTellOrder
    <2> SUFFICES ASSUME IInv, cause = "nothing",
                        NEW s \in Slots \ {home}, NEW t \in Slots \ {home},
                        0 < card[s].stamp, card[s].stamp < card[t].stamp,
                        card[t].stamp <= card[s].stamp + CountMod \div 2
                 PROVE  (card[t].count + CountMod - card[s].count) % CountMod
                          \in 1..(CountMod \div 2)
      BY DEF CountersTellOrder
    <2>1. /\ card \in Logs /\ home \in Slots /\ InOrder(home, card)
          /\ card[s] \in AnyRecord /\ card[t] \in AnyRecord
      BY CardIsLog DEF IInv, TypeOK, Undisturbed, LogInv, Logs
    <2>2. /\ card[s].count \in Counts /\ card[t].count \in Counts
          /\ card[s].stamp \in Nat /\ card[t].stamp \in Nat
      BY <2>1 DEF AnyRecord
    <2>3. Follows(card[s], card[t])
      BY <2>1, <2>2, KeptInOrder
    <2>4. CountMod \div 2 \in Nat /\ CountMod \div 2 < CountMod
      OBVIOUS
    <2>5. /\ card[s].count # card[t].count
          /\ Gap(card[s].count, card[t].count) <= CountMod \div 2
      BY <2>2, <2>3, <2>4 DEF Follows, Gap, Counts
    <2>6. /\ (card[t].count + CountMod - card[s].count) % CountMod
               = Gap(card[s].count, card[t].count)
          /\ Gap(card[s].count, card[t].count) # 0
          /\ Gap(card[s].count, card[t].count) \in Counts
      BY <2>2, <2>5, GapValue
    <2> QED BY <2>4, <2>5, <2>6 DEF Counts
  <1> QED BY <1>1, InvariantHolds, PTL

LEMMA SameCardinality == ASSUME NEW S PROVE Ring!Cardinality(S) = Cardinality(S)
  BY DEF Ring!Cardinality, Cardinality

(* The log implements LogRing: records enter in order and only the oldest  *)
(* leaves, until something listed in cause happens.                        *)
THEOREM RingImplemented == Spec => LogIsRing
  <1>1. Init => Ring!RingInit
    BY DEF Init, Ring!RingInit, Stored
  <1>2. IInv /\ IInv' /\ [Next]_vars => [Ring!RingNext]_(Ring!ringVars)
    <2> SUFFICES ASSUME IInv, IInv', [Next]_vars
                 PROVE  [Ring!RingNext]_(Ring!ringVars)
      OBVIOUS
    <2>1. CASE cause' # "nothing"
      BY <2>1 DEF Ring!RingNext, Ring!Disturb
    <2>2. CASE cause' = "nothing"
      <3>1. cause = "nothing"
        BY <2>2, SpoiltStays
      <3>2. TypeOK /\ TypeOK' /\ Undisturbed
        BY <3>1 DEF IInv
      <3>3. Steady \/ Commits
        BY <2>2, <3>2, UndisturbedStep
      <3>4. Stored = Kept(home, card) /\ Stored' = Kept(home', card')
        BY DEF Stored, Kept
      <3>5. CASE Steady
        <4>1. Kept(home', card') = Kept(home, card)
          BY <3>5 DEF Steady, Kept
        <4> QED BY <2>2, <3>1, <3>4, <4>1 DEF Ring!ringVars
      <3>6. CASE Commits
        <4>1. /\ card \in Logs /\ home \in Slots /\ InOrder(home, card)
              /\ card \in [Slots -> Records]
          BY <3>2, CardIsLog DEF TypeOK, Undisturbed, LogInv
        <4> DEFINE n == card[home].stamp
        <4>2. n \in 1..MaxStamp
          BY <3>6, <4>1 DEF Commits, Fits, Records
        <4>3. /\ \A m \in Stored : m < n
              /\ Stored' = IF Cardinality(Stored) < MAX_RECORDS - 1
                             THEN Stored \cup {n}
                             ELSE (Stored \cup {n}) \ {Ring!Oldest(Stored)}
          BY <3>4, <3>6, <4>1, RingCommit DEF Commits
        <4> HIDE DEF n
        <4>4. ~(cause # "nothing") /\ (cause' # "nothing") = (cause # "nothing")
          BY <2>2, <3>1
        <4>5. Ring!Commit(n)
          BY <4>3, <4>4, SameCardinality DEF Ring!Commit
        <4> QED BY <4>2, <4>5 DEF Ring!RingNext
      <3> QED BY <3>3, <3>5, <3>6
    <2> QED BY <2>1, <2>2
  <1> QED BY <1>1, <1>2, InvariantHolds, PTL DEF Spec, LogIsRing, Ring!RingSpec
=============================================================================

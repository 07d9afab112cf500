------------------------- MODULE RollbackReplay_proofs -------------------------
(***************************************************************************)
(* Proofs about RollbackReplay for any blocks, number of slots and changes. *)
(***************************************************************************)
EXTENDS RollbackReplay, FiniteSetTheorems, TLAPS

Replaying == {"claim", "copy"}

\* No slot is marked for a segment that a load has not restored, and none holds
\* anything but what was restored.
MarkedSlots ==
    /\ \A i \in DOMAIN rb : rb[i].dirty => rb[i].seg \in Data
    /\ pc \in Replaying => \A i \in DOMAIN rb : rb[i].dirty => rb[i].seg \in Logged
    /\ \A r \in restored : \A i \in DOMAIN rb :
           rb[i].dirty /\ rb[i].seg = r.blk => rb[i].img = r.img

\* A block has one entry in the journal.
OneEntry == \A i, k \in DOMAIN log : log[i].blk = log[k].blk => i = k

\* The entry the load works on, and the slot it has claimed for it.
PlaceInLog ==
    /\ next > 0
    /\ pc = "copy" =>
        /\ next <= Len(log)
        /\ rb # <<>>
        /\ rb[Len(rb)].seg = log[next].blk

\* What is counted as restored has its entry, and was not changed since.
RestoredEntries ==
    /\ pc \in Replaying => \A r \in restored : \E i \in DOMAIN log : r = log[i]
    /\ pc \in Replaying => dirty = {}
    /\ \A r \in restored : r.blk \notin dirty

IInv ==
    /\ TypeOK
    /\ MarkedSlots
    /\ OneEntry
    /\ PlaceInLog
    /\ RestoredEntries
    /\ RestoredIsKept

-----------------------------------------------------------------------------
(* Lemmas on the slots. *)

\* The slots of a sequence with one moved to its end.
LEMMA NewestSlots ==
    ASSUME NEW S, NEW s \in Seq(S), NEW i \in DOMAIN s
    PROVE  /\ Newest(s, i) \in Seq(S)
           /\ Len(Newest(s, i)) = Len(s)
           /\ Newest(s, i)[Len(s)] = s[i]
           /\ \A k \in 1 .. Len(s) - 1 : Newest(s, i)[k] = IF k < i THEN s[k] ELSE s[k + 1]
<1> DEFINE front == SubSeq(s, 1, i - 1)
           back == SubSeq(s, i + 1, Len(s))
<1>1. /\ front \in Seq(S) /\ Len(front) = i - 1
      /\ \A k \in 1 .. i - 1 : front[k] = s[k]
    OBVIOUS
<1>2. /\ back \in Seq(S) /\ Len(back) = Len(s) - i
      /\ \A k \in 1 .. Len(s) - i : back[k] = s[k + i]
    OBVIOUS
<1>3. /\ front \o back \in Seq(S)
      /\ Len(front \o back) = Len(s) - 1
      /\ \A k \in 1 .. Len(s) - 1 : (front \o back)[k] = IF k < i THEN s[k] ELSE s[k + 1]
    <2> HIDE DEF front, back
    <2>1. /\ front \o back \in Seq(S)
          /\ Len(front \o back) = Len(s) - 1
        BY <1>1, <1>2
    <2>2. ASSUME NEW k \in 1 .. Len(s) - 1
          PROVE  (front \o back)[k] = IF k < i THEN s[k] ELSE s[k + 1]
        BY <1>1, <1>2
    <2> QED BY <2>1, <2>2
<1>4. Newest(s, i) = Append(front \o back, s[i])
    BY DEF Newest, RemoveAt
<1> HIDE DEF front, back
<1> QED BY <1>3, <1>4

\* What a claim of a slot does to the slots and the disk: the segment is in the newest
\* slot, no image is invented, and none that is marked is lost.
LEMMA UseFacts ==
    ASSUME TypeOK, \A i \in DOMAIN rb : rb[i].dirty => rb[i].seg \in Data,
           NEW seg \in Block \cup Nat, NEW m, m = Use(Memory, seg)
    PROVE  /\ m.disk \in [Block -> Content]
           /\ m.rb \in Seq(Slot) /\ Len(m.rb) \in 1 .. Slots
           /\ \A i, k \in DOMAIN m.rb : m.rb[i].seg = m.rb[k].seg => i = k
           /\ m.rb[Len(m.rb)].seg = seg
           /\ \A i \in DOMAIN m.rb : m.rb[i].dirty => \E k \in DOMAIN rb : m.rb[i] = rb[k]
           /\ \A k \in DOMAIN rb : rb[k].dirty =>
                  \/ m.disk[rb[k].seg] = rb[k].img
                  \/ \E i \in DOMAIN m.rb : m.rb[i] = rb[k]
           /\ \A b \in Block :
                  \/ m.disk[b] = disk[b]
                  \/ \E k \in DOMAIN rb : rb[k].dirty /\ rb[k].seg = b /\ m.disk[b] = rb[k].img
           /\ rb # <<>> => \E i \in DOMAIN m.rb : m.rb[i] = rb[Len(rb)]
<1> DEFINE held == Holding(rb, seg)
<1>0. Slots \in Nat /\ Slots > 1
    BY SlotsAssumption
<1>1. rb \in Seq(Slot) /\ Len(rb) \in Nat /\ DOMAIN rb = 1 .. Len(rb) /\ Len(rb) <= Slots
    BY DEF TypeOK
<1>2. disk \in [Block -> Content] /\ \A i, k \in DOMAIN rb : rb[i].seg = rb[k].seg => i = k
    BY DEF TypeOK
<1>3. \A i \in DOMAIN rb : rb[i] \in Slot
    BY <1>1
<1>4. CASE held # {}
    <2> DEFINE i == CHOOSE i \in held : TRUE
               new == Newest(rb, i)
    <2>1. i \in DOMAIN rb /\ rb[i].seg = seg
        BY <1>4 DEF Holding
    <2>2. m.disk = disk /\ m.rb = new
        BY <1>4 DEF Use, Memory
    <2> HIDE DEF i
    <2>3. /\ new \in Seq(Slot) /\ Len(new) = Len(rb) /\ DOMAIN new = DOMAIN rb
          /\ new[Len(rb)] = rb[i]
          /\ \A k \in 1 .. Len(rb) - 1 : new[k] = IF k < i THEN rb[k] ELSE rb[k + 1]
        <3>1. /\ new \in Seq(Slot) /\ Len(new) = Len(rb)
              /\ new[Len(rb)] = rb[i]
              /\ \A k \in 1 .. Len(rb) - 1 : new[k] = IF k < i THEN rb[k] ELSE rb[k + 1]
            BY <1>1, <2>1, NewestSlots, Zenon
        <3> HIDE DEF new
        <3> QED BY <3>1, <1>1
    <2> HIDE DEF new
    <2>4. ASSUME NEW k \in DOMAIN new PROVE \E j \in DOMAIN rb : new[k] = rb[j]
        <3>1. CASE k = Len(rb) BY <3>1, <2>1, <2>3
        <3>2. CASE k # Len(rb)
            <4>1. k \in 1 .. Len(rb) - 1 /\ k + 1 \in DOMAIN rb BY <3>2, <1>1, <2>3
            <4> QED BY <4>1, <1>1, <2>3
        <3> QED BY <3>1, <3>2
    <2>5. ASSUME NEW k \in DOMAIN rb PROVE \E j \in DOMAIN new : new[j] = rb[k]
        <3>1. CASE k = i BY <3>1, <1>1, <2>1, <2>3
        <3>2. CASE k < i BY <3>2, <1>1, <2>1, <2>3
        <3>3. CASE k > i
            <4>1. k - 1 \in 1 .. Len(rb) - 1 /\ ~(k - 1 < i) /\ (k - 1) + 1 = k
                BY <3>3, <1>1, <2>1
            <4> QED BY <4>1, <1>1, <2>3
        <3> QED BY <3>1, <3>2, <3>3, <1>1, <2>1
    <2>6. ASSUME NEW k \in DOMAIN new, NEW j \in DOMAIN new, new[k].seg = new[j].seg PROVE k = j
        <3> DEFINE from(n) == IF n = Len(rb) THEN i ELSE IF n < i THEN n ELSE n + 1
        <3>1. \A n \in DOMAIN new : from(n) \in DOMAIN rb /\ new[n] = rb[from(n)]
            BY <1>1, <2>1, <2>3
        <3>2. from(k) = from(j) BY <3>1, <1>2, <2>6
        <3> QED BY <3>2, <1>1, <2>1, <2>3
    <2>7. Len(rb) \in DOMAIN rb /\ Len(new) \in 1 .. Slots
        BY <1>1, <2>1, <2>3
    <2>8. new[Len(new)].seg = seg BY <2>1, <2>3
    <2>9. \E j \in DOMAIN new : new[j] = rb[Len(rb)] BY <2>5, <2>7
    <2>10. new \in Seq(Slot) BY <2>3
    <2>11. \A k \in DOMAIN rb : \E j \in DOMAIN new : new[j] = rb[k] BY <2>5
    <2>12. \A k \in DOMAIN new : \E j \in DOMAIN rb : new[k] = rb[j] BY <2>4
    <2>13. \A k, j \in DOMAIN new : new[k].seg = new[j].seg => k = j BY <2>6
    <2>14. /\ m.disk \in [Block -> Content]
           /\ \A b \in Block : m.disk[b] = disk[b]
        BY <1>2, <2>2
    <2>15. m.rb \in Seq(Slot) /\ Len(m.rb) \in 1 .. Slots /\ m.rb[Len(m.rb)].seg = seg
        BY <2>2, <2>7, <2>8, <2>10
    <2>16. \A k, j \in DOMAIN m.rb : m.rb[k].seg = m.rb[j].seg => k = j
        BY <2>2, <2>13
    <2>17. /\ \A k \in DOMAIN m.rb : \E j \in DOMAIN rb : m.rb[k] = rb[j]
           /\ \A k \in DOMAIN rb : \E j \in DOMAIN m.rb : m.rb[j] = rb[k]
           /\ \E j \in DOMAIN m.rb : m.rb[j] = rb[Len(rb)]
        BY <2>2, <2>9, <2>11, <2>12
    <2> QED BY <2>14, <2>15, <2>16, <2>17
<1>5. CASE held = {}
    <2> DEFINE full == Len(rb) = Slots
               old == Head(rb)
               after == IF full /\ old.dirty THEN [disk EXCEPT ![old.seg] = old.img] ELSE disk
               read == [seg |-> seg, img |-> IF seg \in Block THEN after[seg] ELSE Zero, dirty |-> FALSE]
               rest == IF full THEN Tail(rb) ELSE rb
               new == Append(rest, read)
               skip == IF full THEN 1 ELSE 0
    <2>1. m.disk = after /\ m.rb = new
        BY <1>5 DEF Use, Memory
    <2>2. \A k \in DOMAIN rb : rb[k].seg # seg
        BY <1>5 DEF Holding
    <2>3. ASSUME full PROVE 1 \in DOMAIN rb /\ old = rb[1] /\ old \in Slot
        <3>1. Len(rb) > 0 BY <1>0, <1>1, <2>3
        <3> QED BY <3>1, <1>1, <1>3
    <2>4. /\ after \in [Block -> Content]
          /\ full /\ old.dirty => after[old.seg] = old.img
          /\ \A b \in Block : after[b] = disk[b] \/ (full /\ old.dirty /\ old.seg = b /\ after[b] = old.img)
        BY <1>2, <2>3, BlocksAssumption DEF Slot, Block
    <2> HIDE DEF after
    <2>5. read \in Slot /\ read.seg = seg /\ ~read.dirty
        BY <2>4, ChangesAssumption DEF Slot, Content, Zero
    <2> HIDE DEF read
    <2>6. skip \in {0, 1} /\ Len(rb) - skip \in 0 .. Slots - 1 /\ (full <=> skip = 1)
        <3>1. Len(rb) \in Nat /\ Len(rb) <= Slots BY <1>1
        <3> QED BY <3>1, <1>0
    <2>7. /\ rest \in Seq(Slot)
          /\ Len(rest) = Len(rb) - skip
          /\ \A k \in 1 .. Len(rb) - skip : rest[k] = rb[k + skip]
        <3>1. CASE full
            <4>1. Tail(rb) \in Seq(Slot) /\ Len(Tail(rb)) = Len(rb) - 1
                BY <1>1, <2>3, <3>1
            <4>2. \A k \in 1 .. Len(rb) - 1 : Tail(rb)[k] = rb[k + 1]
                BY <1>1, <2>3, <3>1
            <4> QED BY <3>1, <4>1, <4>2
        <3>2. CASE ~full
            <4>1. \A k \in 1 .. Len(rb) : k + 0 = k BY <1>1
            <4> QED BY <3>2, <4>1, <1>1
        <3> QED BY <3>1, <3>2
    <2> HIDE DEF rest
    <2>8. new \in Seq(Slot)
        BY <2>5, <2>7
    <2>9. /\ Len(new) = Len(rb) - skip + 1
          /\ DOMAIN new = 1 .. Len(rb) - skip + 1
          /\ new[Len(rb) - skip + 1] = read
          /\ \A k \in 1 .. Len(rb) - skip : new[k] = rb[k + skip]
        <3>1. Len(new) = Len(rest) + 1 /\ DOMAIN new = 1 .. Len(rest) + 1 /\ new[Len(rest) + 1] = read
            BY <2>5, <2>7
        <3>2. \A k \in 1 .. Len(rest) : new[k] = rest[k]
            BY <2>5, <2>7
        <3> HIDE DEF new, skip
        <3> QED BY <3>1, <3>2, <2>7
    <2> HIDE DEF new, skip, full
    <2>10. DOMAIN rb = 1 .. Len(rb) /\ Len(rb) \in Nat
        BY <1>1
    <2>11. Len(new) \in 1 .. Slots
        BY <1>0, <2>6, <2>9, <2>10
    <2>12. ASSUME NEW k \in DOMAIN new, new[k] # read
           PROVE  k + skip \in DOMAIN rb /\ new[k] = rb[k + skip]
        <3>1. k # Len(rb) - skip + 1 BY <2>9, <2>12
        <3>2. k \in 1 .. Len(rb) - skip BY <3>1, <2>6, <2>9, <2>10
        <3>3. k + skip \in 1 .. Len(rb) BY <3>2, <2>6, <2>10
        <3> QED BY <3>2, <3>3, <2>9, <2>10
    <2>13. ASSUME NEW k \in DOMAIN new, NEW j \in DOMAIN new, new[k].seg = new[j].seg PROVE k = j
        <3>1. CASE new[k] = read \/ new[j] = read
            <4>1. new[k] = read /\ new[j] = read
                BY <3>1, <2>2, <2>5, <2>12, <2>13
            <4>2. ASSUME NEW n \in DOMAIN new, new[n] = read PROVE n = Len(rb) - skip + 1
                <5>1. n \in 1 .. Len(rb) - skip => n + skip \in DOMAIN rb /\ new[n] = rb[n + skip]
                    BY <2>6, <2>9, <2>10
                <5> QED BY <5>1, <4>2, <2>2, <2>5, <2>6, <2>9, <2>10
            <4> QED BY <4>1, <4>2
        <3>2. CASE new[k] # read /\ new[j] # read
            <4>1. k + skip = j + skip BY <3>2, <1>2, <2>12, <2>13
            <4> QED BY <4>1, <2>6, <2>9, <2>10
        <3> QED BY <3>1, <3>2
    <2>14. ASSUME NEW k \in DOMAIN new, new[k].dirty PROVE \E j \in DOMAIN rb : new[k] = rb[j]
        BY <2>5, <2>12, <2>14
    <2>15. ASSUME NEW k \in DOMAIN rb, ~full \/ k # 1 PROVE \E j \in DOMAIN new : new[j] = rb[k]
        <3>1. k - skip \in 1 .. Len(rb) - skip /\ k - skip + skip = k
            BY <2>6, <2>10, <2>15
        <3>2. k - skip \in DOMAIN new BY <3>1, <2>6, <2>9, <2>10
        <3> QED BY <3>1, <3>2, <2>9
    <2>16. ASSUME NEW k \in DOMAIN rb, rb[k].dirty
           PROVE  after[rb[k].seg] = rb[k].img \/ \E j \in DOMAIN new : new[j] = rb[k]
        BY <2>3, <2>4, <2>15, <2>16
    <2>17. ASSUME NEW b \in Block
           PROVE  \/ after[b] = disk[b]
                  \/ \E k \in DOMAIN rb : rb[k].dirty /\ rb[k].seg = b /\ after[b] = rb[k].img
        BY <2>3, <2>4
    <2>18. new[Len(new)].seg = seg BY <2>5, <2>9
    <2>19. ASSUME rb # <<>> PROVE \E j \in DOMAIN new : new[j] = rb[Len(rb)]
        <3>1. Len(rb) > 0 BY <1>1, <2>19
        <3>2. full => Len(rb) > 1 BY <1>0 DEF full
        <3> QED BY <3>1, <3>2, <2>10, <2>15
    <2> QED BY <2>1, <2>4, <2>8, <2>11, <2>13, <2>14, <2>16, <2>17, <2>18, <2>19
<1> QED BY <1>4, <1>5
-----------------------------------------------------------------------------
(* The invariant. *)

\* What the journal says of blocks is what its entries say.
LEMMA LoggedBlocks == \A i \in DOMAIN log : log[i].blk \in Logged
    BY DEF Logged

LEMMA InitInv == Init => IInv
<1> SUFFICES ASSUME Init PROVE IInv
    OBVIOUS
<1>1. log \in Seq(Entry) /\ OneEntry
    <2>1. PICK image \in [Block -> {Zero, 1}], blocks \in SUBSET Block :
              \E order \in SetToSeqs(blocks) :
                  log = [i \in DOMAIN order |-> [blk |-> order[i], img |-> image[order[i]]]]
        BY DEF Init
    <2>2. PICK order \in SetToSeqs(blocks) :
              log = [i \in DOMAIN order |-> [blk |-> order[i], img |-> image[order[i]]]]
        BY <2>1
    <2>3. Cardinality(blocks) \in Nat
        BY BlocksAssumption, FS_Subset, FS_CardinalityType DEF Block
    <2>4. /\ order \in [1 .. Cardinality(blocks) -> blocks]
          /\ \A i, k \in 1 .. Cardinality(blocks) : i # k => order[i] # order[k]
        BY DEF SetToSeqs
    <2>5. \A i \in DOMAIN order : [blk |-> order[i], img |-> image[order[i]]] \in Entry
        <3>1. {Zero, 1} \subseteq Content BY ChangesAssumption DEF Content, Zero
        <3> QED BY <2>4, <3>1 DEF Entry
    <2>6. log \in [1 .. Cardinality(blocks) -> Entry]
        BY <2>2, <2>4, <2>5
    <2>7. log \in Seq(Entry)
        BY <2>3, <2>6
    <2>8. DOMAIN log = 1 .. Cardinality(blocks) /\ \A i \in DOMAIN log : log[i].blk = order[i]
        BY <2>2, <2>4
    <2> QED BY <2>4, <2>7, <2>8 DEF OneEntry
<1>2. rb = <<>> /\ rb \in Seq(Slot) /\ Len(rb) <= Slots /\ DOMAIN rb = {}
    BY SlotsAssumption DEF Init
<1>3. changes \in 0 .. MaxChanges /\ next \in Nat /\ next > 0
    BY ChangesAssumption DEF Init
<1>4. TypeOK
    BY <1>1, <1>2, <1>3 DEF Init, TypeOK
<1> QED BY <1>1, <1>2, <1>3, <1>4
        DEF Init, IInv, MarkedSlots, PlaceInLog, RestoredEntries, RestoredIsKept, Replaying

\* A claim of a slot keeps the marks right and what is restored.
LEMMA UseKeeps ==
    ASSUME IInv, NEW seg \in Block \cup Nat, NEW m, m = Use(Memory, seg)
    PROVE  /\ \A i \in DOMAIN m.rb : m.rb[i].dirty => m.rb[i].seg \in Data
           /\ pc \in Replaying => \A i \in DOMAIN m.rb : m.rb[i].dirty => m.rb[i].seg \in Logged
           /\ \A r \in restored : \A i \in DOMAIN m.rb :
                  m.rb[i].dirty /\ m.rb[i].seg = r.blk => m.rb[i].img = r.img
           /\ \A r \in restored : r.blk \in Data =>
                  \/ m.disk[r.blk] = r.img
                  \/ \E i \in DOMAIN m.rb : m.rb[i].seg = r.blk /\ m.rb[i].img = r.img /\ m.rb[i].dirty
<1>1. /\ TypeOK
      /\ \A i \in DOMAIN rb : rb[i].dirty => rb[i].seg \in Data
    BY DEF IInv, MarkedSlots
<1>2. /\ \A i \in DOMAIN m.rb : m.rb[i].dirty => \E k \in DOMAIN rb : m.rb[i] = rb[k]
      /\ \A k \in DOMAIN rb : rb[k].dirty =>
             \/ m.disk[rb[k].seg] = rb[k].img
             \/ \E i \in DOMAIN m.rb : m.rb[i] = rb[k]
      /\ \A b \in Block :
             \/ m.disk[b] = disk[b]
             \/ \E k \in DOMAIN rb : rb[k].dirty /\ rb[k].seg = b /\ m.disk[b] = rb[k].img
    BY <1>1, UseFacts
<1>3. ASSUME NEW r \in restored, r.blk \in Data
      PROVE  \/ m.disk[r.blk] = r.img
             \/ \E i \in DOMAIN m.rb : m.rb[i].seg = r.blk /\ m.rb[i].img = r.img /\ m.rb[i].dirty
    <2>1. CASE disk[r.blk] = r.img
        BY <1>2, <1>3, <2>1 DEF IInv, MarkedSlots, Block
    <2>2. CASE \E i \in DOMAIN rb : rb[i].seg = r.blk /\ rb[i].img = r.img /\ rb[i].dirty
        BY <1>2, <2>2
    <2> QED BY <1>3, <2>1, <2>2 DEF IInv, RestoredIsKept
<1> QED BY <1>2, <1>3 DEF IInv, MarkedSlots

LEMMA LoadStep == ASSUME IInv, Load PROVE IInv'
<1>1. rb' = <<>> /\ rb' \in Seq(Slot) /\ Len(rb') <= Slots /\ DOMAIN rb' = {}
    BY SlotsAssumption DEF Load
<1> QED BY <1>1 DEF Load, IInv, TypeOK, MarkedSlots, OneEntry, PlaceInLog, RestoredEntries,
                    RestoredIsKept, Replaying, Block

LEMMA CrashStep == ASSUME IInv, Crash PROVE IInv'
<1>1. rb' = <<>> /\ rb' \in Seq(Slot) /\ Len(rb') <= Slots /\ DOMAIN rb' = {}
    BY SlotsAssumption DEF Crash
<1> QED BY <1>1 DEF Crash, IInv, TypeOK, MarkedSlots, OneEntry, PlaceInLog, RestoredEntries,
                    RestoredIsKept, Replaying

LEMMA ClaimStep == ASSUME IInv, ClaimTarget PROVE IInv'
<1> DEFINE b == log[next].blk
           m == Use(Memory, b)
<1>1. next \in DOMAIN log /\ next \in Nat /\ b \in Block
    <2>1. next \in DOMAIN log BY DEF IInv, TypeOK, PlaceInLog, ClaimTarget
    <2>2. log[next] \in Entry BY <2>1 DEF IInv, TypeOK
    <2> QED BY <2>1, <2>2 DEF IInv, TypeOK, Entry
<1>2. CASE InPass(b)
    <2>1. /\ disk' = m.disk /\ rb' = m.rb /\ pc' = "copy" /\ pc = "claim"
          /\ UNCHANGED <<next, log, cacheVars, pass, changes, restored>>
        BY <1>2 DEF ClaimTarget, Becomes
    <2>2. /\ m.disk \in [Block -> Content]
          /\ m.rb \in Seq(Slot) /\ Len(m.rb) \in 1 .. Slots
          /\ \A i, k \in DOMAIN m.rb : m.rb[i].seg = m.rb[k].seg => i = k
          /\ m.rb[Len(m.rb)].seg = b
        BY <1>1, UseFacts DEF IInv, MarkedSlots
    <2>3. /\ \A i \in DOMAIN m.rb : m.rb[i].dirty => m.rb[i].seg \in Data
          /\ pc \in Replaying => \A i \in DOMAIN m.rb : m.rb[i].dirty => m.rb[i].seg \in Logged
          /\ \A r \in restored : \A i \in DOMAIN m.rb :
                 m.rb[i].dirty /\ m.rb[i].seg = r.blk => m.rb[i].img = r.img
          /\ \A r \in restored : r.blk \in Data =>
                 \/ m.disk[r.blk] = r.img
                 \/ \E i \in DOMAIN m.rb : m.rb[i].seg = r.blk /\ m.rb[i].img = r.img /\ m.rb[i].dirty
        BY <1>1, UseKeeps
    <2> HIDE DEF m
    <2>4. TypeOK'
        BY <2>1, <2>2, SlotsAssumption DEF IInv, TypeOK, cacheVars
    <2>5. MarkedSlots'
        BY <2>1, <2>3 DEF MarkedSlots, Replaying, Logged
    <2>6. PlaceInLog'
        BY <1>1, <2>1, <2>2 DEF IInv, PlaceInLog, ClaimTarget
    <2>7. OneEntry' /\ RestoredEntries'
        BY <2>1 DEF IInv, OneEntry, RestoredEntries, Replaying, cacheVars
    <2>8. RestoredIsKept'
        BY <2>1, <2>3 DEF RestoredIsKept
    <2> QED BY <2>4, <2>5, <2>6, <2>7, <2>8 DEF IInv
<1>3. CASE ~InPass(b)
    BY <1>1, <1>3 DEF ClaimTarget, IInv, TypeOK, MarkedSlots, OneEntry, PlaceInLog, RestoredEntries,
                      RestoredIsKept, Replaying, cacheVars, Logged
<1> QED BY <1>2, <1>3

LEMMA JournalBlockType == \A i \in Nat : JournalBlock(i) \in Nat
<1> SUFFICES ASSUME NEW i \in Nat PROVE JournalBlock(i) \in Nat
    OBVIOUS
<1>1. IsFiniteSet(1 .. i - 1)
    BY FS_Interval
<1> QED BY <1>1, FS_Subset, FS_CardinalityType DEF JournalBlock

\* What copying an image into the slot of a segment does.
LEMMA PutFacts ==
    ASSUME NEW d, NEW slots \in Seq(Slot), NEW b \in Block, NEW img \in Content,
           NEW changed \in BOOLEAN,
           NEW p, p = Put([disk |-> d, rb |-> slots], b, img, changed)
    PROVE  /\ p.disk = d
           /\ p.rb \in Seq(Slot) /\ Len(p.rb) = Len(slots) /\ DOMAIN p.rb = DOMAIN slots
           /\ \A i \in DOMAIN slots :
                  /\ p.rb[i].seg = slots[i].seg
                  /\ slots[i].seg # b => p.rb[i] = slots[i]
                  /\ slots[i].seg = b => /\ p.rb[i].img = img
                                        /\ p.rb[i].dirty = (changed \/ slots[i].dirty)
<1> DEFINE new(s) == IF s.seg = b THEN [seg |-> b, img |-> img, dirty |-> changed \/ s.dirty] ELSE s
<1>1. p.disk = d /\ p.rb = [i \in DOMAIN slots |-> new(slots[i])]
    BY DEF Put
<1>2. ASSUME NEW i \in DOMAIN slots PROVE slots[i] \in Slot /\ new(slots[i]) \in Slot
    <2>1. slots[i] \in Slot OBVIOUS
    <2>2. slots[i].dirty \in BOOLEAN BY <2>1 DEF Slot
    <2>3. [seg |-> b, img |-> img, dirty |-> changed \/ slots[i].dirty] \in Slot
        BY <2>2 DEF Slot
    <2> QED BY <2>1, <2>3
<1> HIDE DEF new
<1>3. DOMAIN slots = 1 .. Len(slots) /\ Len(slots) \in Nat
    OBVIOUS
<1>4. p.rb \in [1 .. Len(slots) -> Slot]
    BY <1>1, <1>2, <1>3
<1>5. p.rb \in Seq(Slot) /\ Len(p.rb) = Len(slots) /\ DOMAIN p.rb = DOMAIN slots
    BY <1>3, <1>4
<1> QED BY <1>1, <1>2, <1>5 DEF new

LEMMA CopyStep == ASSUME IInv, CopyImage PROVE IInv'
<1> DEFINE entry == log[next]
           b == entry.blk
           m == IF entry.img = Zero THEN Memory ELSE Use(Memory, JournalBlock(next))
           p == Put(m, b, entry.img, Smudged(b))
<1>1. next \in DOMAIN log /\ next \in Nat /\ entry \in Entry /\ b \in Block /\ entry.img \in Content
    <2>1. next \in DOMAIN log BY DEF IInv, TypeOK, PlaceInLog, CopyImage
    <2>2. log[next] \in Entry BY <2>1 DEF IInv, TypeOK
    <2> QED BY <2>1, <2>2 DEF IInv, TypeOK, Entry
<1>2. /\ disk' = p.disk /\ rb' = p.rb
      /\ IF b \in cached THEN /\ buf' = [buf EXCEPT ![b] = entry.img]
                              /\ clean' = [clean EXCEPT ![b] = entry.img]
         ELSE UNCHANGED <<buf, clean>>
      /\ restored' = restored \cup {entry}
      /\ pc = "copy" /\ pc' = "claim" /\ next' = next + 1
      /\ UNCHANGED <<log, cached, dirty, pass, changes>>
    BY DEF CopyImage, Becomes
<1>3. /\ m = [disk |-> m.disk, rb |-> m.rb]
      /\ m.disk \in [Block -> Content]
      /\ m.rb \in Seq(Slot) /\ Len(m.rb) <= Slots
      /\ \A i, k \in DOMAIN m.rb : m.rb[i].seg = m.rb[k].seg => i = k
      /\ \E i \in DOMAIN m.rb : m.rb[i].seg = b
      /\ \A i \in DOMAIN m.rb : m.rb[i].dirty => m.rb[i].seg \in Data
      /\ \A i \in DOMAIN m.rb : m.rb[i].dirty => m.rb[i].seg \in Logged
      /\ \A r \in restored : \A i \in DOMAIN m.rb :
             m.rb[i].dirty /\ m.rb[i].seg = r.blk => m.rb[i].img = r.img
      /\ \A r \in restored : r.blk \in Data =>
             \/ m.disk[r.blk] = r.img
             \/ \E i \in DOMAIN m.rb : m.rb[i].seg = r.blk /\ m.rb[i].img = r.img /\ m.rb[i].dirty
    <2>0. rb # <<>> /\ Len(rb) \in DOMAIN rb /\ rb[Len(rb)].seg = b
        BY <1>2 DEF IInv, TypeOK, PlaceInLog
    <2>1. CASE entry.img = Zero
        BY <1>2, <2>0, <2>1 DEF IInv, TypeOK, MarkedSlots, RestoredIsKept, Memory, Replaying
    <2>2. CASE entry.img # Zero
        <3>1. JournalBlock(next) \in Block \cup Nat BY <1>1, JournalBlockType
        <3>2. m = Use(Memory, JournalBlock(next)) BY <2>2
        <3>3. m = [disk |-> m.disk, rb |-> m.rb]
            BY <3>2, Zenon DEF Use, Memory
        <3> HIDE DEF m
        <3>4. TypeOK /\ \A i \in DOMAIN rb : rb[i].dirty => rb[i].seg \in Data
            BY DEF IInv, MarkedSlots
        <3>5. /\ m.disk \in [Block -> Content]
              /\ m.rb \in Seq(Slot) /\ Len(m.rb) \in 1 .. Slots
              /\ \A i, k \in DOMAIN m.rb : m.rb[i].seg = m.rb[k].seg => i = k
              /\ \E i \in DOMAIN m.rb : m.rb[i].seg = b
            BY <2>0, <3>1, <3>2, <3>4, UseFacts
        <3>6. pc \in Replaying BY <1>2 DEF Replaying
        <3> QED BY <3>1, <3>2, <3>3, <3>5, <3>6, UseKeeps, SlotsAssumption
    <2> QED BY <2>1, <2>2
<1>4. /\ p.disk = m.disk
      /\ p.rb \in Seq(Slot) /\ Len(p.rb) = Len(m.rb) /\ DOMAIN p.rb = DOMAIN m.rb
      /\ \A i \in DOMAIN m.rb :
             /\ p.rb[i].seg = m.rb[i].seg
             /\ m.rb[i].seg # b => p.rb[i] = m.rb[i]
             /\ m.rb[i].seg = b => /\ p.rb[i].img = entry.img
                                  /\ p.rb[i].dirty = (Smudged(b) \/ m.rb[i].dirty)
    <2> HIDE DEF m
    <2>1. Smudged(b) \in BOOLEAN BY DEF Smudged
    <2> QED BY <1>1, <1>3, <2>1, PutFacts
<1> HIDE DEF m, p
<1>5. ASSUME NEW r \in restored', r.blk = b PROVE r = entry
    BY <1>1, <1>2, <1>5 DEF IInv, RestoredEntries, OneEntry, Replaying
<1>6. TypeOK'
    <2>1. /\ disk' \in [Block -> Content]
          /\ rb' \in Seq(Slot) /\ Len(rb') <= Slots
          /\ \A i, k \in DOMAIN rb' : rb'[i].seg = rb'[k].seg => i = k
        BY <1>2, <1>3, <1>4
    <2>2. buf' \in [Block -> Content] /\ clean' \in [Block -> Content]
        BY <1>1, <1>2 DEF IInv, TypeOK
    <2>3. restored' \subseteq Entry /\ next' \in Nat
        BY <1>1, <1>2 DEF IInv, TypeOK
    <2> QED BY <1>2, <2>1, <2>2, <2>3 DEF IInv, TypeOK
<1>7. MarkedSlots'
    <2>1. ASSUME NEW i \in DOMAIN rb', rb'[i].dirty PROVE rb'[i].seg \in Data /\ rb'[i].seg \in Logged
        <3>1. i \in DOMAIN m.rb /\ rb'[i].seg = m.rb[i].seg
            BY <1>2, <1>4, <2>1
        <3>2. CASE m.rb[i].seg # b
            <4>1. m.rb[i].dirty BY <1>2, <1>4, <2>1, <3>1, <3>2
            <4> QED BY <1>3, <3>1, <4>1
        <3>3. CASE m.rb[i].seg = b
            <4>1. b \in Data \/ m.rb[i].dirty BY <1>2, <1>4, <2>1, <3>1, <3>3 DEF Smudged
            <4> QED BY <1>1, <1>3, <3>1, <3>3, <4>1, LoggedBlocks
        <3> QED BY <3>2, <3>3
    <2>2. ASSUME NEW r \in restored', NEW i \in DOMAIN rb', rb'[i].dirty, rb'[i].seg = r.blk
          PROVE  rb'[i].img = r.img
        BY <1>2, <1>3, <1>4, <1>5, <2>2
    <2>3. Logged' = Logged BY <1>2 DEF Logged
    <2> QED BY <2>1, <2>2, <2>3 DEF MarkedSlots
<1>8. PlaceInLog'
    BY <1>1, <1>2 DEF IInv, PlaceInLog
<1>9. OneEntry' /\ RestoredEntries'
    BY <1>1, <1>2 DEF IInv, OneEntry, RestoredEntries, Replaying
<1>10. RestoredIsKept'
    <2> SUFFICES ASSUME NEW r \in restored', r.blk \in Data
                 PROVE  \/ disk'[r.blk] = r.img
                        \/ \E i \in DOMAIN rb' : rb'[i].seg = r.blk /\ rb'[i].img = r.img /\ rb'[i].dirty
        BY DEF RestoredIsKept
    <2>1. CASE r.blk = b
        <3>1. PICK i \in DOMAIN m.rb : m.rb[i].seg = b BY <1>3
        <3>2. i \in DOMAIN rb' /\ rb'[i].seg = b /\ rb'[i].img = entry.img /\ rb'[i].dirty
            BY <1>2, <1>4, <2>1, <3>1 DEF Smudged
        <3> QED BY <1>5, <2>1, <3>2
    <2>2. CASE r.blk # b
        <3>1. r \in restored BY <1>2, <2>2
        <3>2. CASE m.disk[r.blk] = r.img BY <1>2, <1>4, <3>2
        <3>3. CASE \E i \in DOMAIN m.rb : m.rb[i].seg = r.blk /\ m.rb[i].img = r.img /\ m.rb[i].dirty
            BY <1>2, <1>4, <2>2, <3>3
        <3> QED BY <1>3, <3>1, <3>2, <3>3
    <2> QED BY <2>1, <2>2
<1> QED BY <1>6, <1>7, <1>8, <1>9, <1>10 DEF IInv

LEMMA PassStep == ASSUME IInv, BatsPass \/ FinishReplay PROVE IInv'
<1>1. CASE BatsPass
    BY <1>1 DEF BatsPass, IInv, TypeOK, MarkedSlots, OneEntry, PlaceInLog, RestoredEntries,
                RestoredIsKept, Replaying, cacheVars, Logged
<1>2. CASE FinishReplay
    <2>1. log' = <<>> /\ log' \in Seq(Entry) /\ DOMAIN log' = {}
        BY <1>2 DEF FinishReplay
    <2> QED BY <1>2, <2>1 DEF FinishReplay, IInv, TypeOK, MarkedSlots, OneEntry, PlaceInLog,
                RestoredEntries, RestoredIsKept, Replaying, cacheVars
<1> QED BY <1>1, <1>2

\* A change makes content that no block has had.
LEMMA ModifyStep == ASSUME IInv, NEW b \in Block, Modify(b) PROVE IInv'
<1>1. /\ pc = "run" /\ pc' = "run" /\ next' = next /\ pass' = pass /\ cached' = cached /\ clean' = clean
      /\ b \in cached /\ changes < MaxChanges /\ changes' = changes + 1
      /\ buf' = [buf EXCEPT ![b] = 3 + changes]
      /\ dirty' = dirty \cup {b}
      /\ restored' = {r \in restored : r.blk # b}
    BY DEF Modify, loadVars
<1>2. 3 + changes \in Content /\ changes' \in 0 .. MaxChanges
    BY <1>1, ChangesAssumption DEF IInv, TypeOK, Content
<1>3. log' \in Seq(Entry) /\ OneEntry'
    <2>1. CASE b \in Logged
        BY <2>1 DEF Modify, IInv, TypeOK, OneEntry
    <2>2. CASE b \notin Logged
        <3> DEFINE e == [blk |-> b, img |-> clean[b]]
        <3>1. log' = Append(log, e) BY <2>2 DEF Modify
        <3>2. e \in Entry /\ e.blk = b BY DEF IInv, TypeOK, Entry
        <3> HIDE DEF e
        <3>3. log \in Seq(Entry) /\ \A i \in DOMAIN log : log[i].blk # b
            BY <2>2 DEF IInv, TypeOK, Logged
        <3>4. log' \in Seq(Entry) BY <3>1, <3>2, <3>3
        <3>5. /\ DOMAIN log' = 1 .. Len(log) + 1 /\ log'[Len(log) + 1] = e
              /\ \A i \in DOMAIN log : log'[i] = log[i]
              /\ DOMAIN log = 1 .. Len(log) /\ Len(log) \in Nat
            BY <3>1, <3>2, <3>3
        <3>6. ASSUME NEW i \in DOMAIN log', NEW k \in DOMAIN log', log'[i].blk = log'[k].blk PROVE i = k
            <4>1. i \in DOMAIN log \/ i = Len(log) + 1 BY <3>5
            <4>2. k \in DOMAIN log \/ k = Len(log) + 1 BY <3>5
            <4> QED BY <3>2, <3>3, <3>5, <3>6, <4>1, <4>2 DEF IInv, OneEntry
        <3> QED BY <3>4, <3>6 DEF OneEntry
    <2> QED BY <2>1, <2>2
<1>4. /\ disk' \in [Block -> Content]
      /\ rb' \in Seq(Slot) /\ Len(rb') <= Slots
      /\ \A i, k \in DOMAIN rb' : rb'[i].seg = rb'[k].seg => i = k
      /\ \A i \in DOMAIN rb' : rb'[i].dirty => rb'[i].seg \in Data
      /\ \A r \in restored : \A i \in DOMAIN rb' :
             rb'[i].dirty /\ rb'[i].seg = r.blk => rb'[i].img = r.img
      /\ \A r \in restored : r.blk \in Data =>
             \/ disk'[r.blk] = r.img
             \/ \E i \in DOMAIN rb' : rb'[i].seg = r.blk /\ rb'[i].img = r.img /\ rb'[i].dirty
    <2>1. CASE UNCHANGED <<disk, rb>>
        BY <2>1 DEF IInv, TypeOK, MarkedSlots, RestoredIsKept
    <2>2. CASE Becomes(Use(Memory, JournalBlock(Len(log) + 1)))
        <3> DEFINE m == Use(Memory, JournalBlock(Len(log) + 1))
        <3>1. disk' = m.disk /\ rb' = m.rb BY <2>2 DEF Becomes
        <3>2. Len(log) + 1 \in Nat BY DEF IInv, TypeOK
        <3>3. JournalBlock(Len(log) + 1) \in Block \cup Nat
            BY <3>2, JournalBlockType
        <3>4. TypeOK /\ \A i \in DOMAIN rb : rb[i].dirty => rb[i].seg \in Data
            BY DEF IInv, MarkedSlots
        <3>5. m = Use(Memory, JournalBlock(Len(log) + 1)) OBVIOUS
        <3> HIDE DEF m
        <3>6. /\ m.disk \in [Block -> Content]
              /\ m.rb \in Seq(Slot) /\ Len(m.rb) \in 1 .. Slots
              /\ \A i, k \in DOMAIN m.rb : m.rb[i].seg = m.rb[k].seg => i = k
            BY <3>3, <3>4, <3>5, UseFacts
        <3> QED BY <3>1, <3>3, <3>5, <3>6, UseKeeps, SlotsAssumption
    <2>3. UNCHANGED <<disk, rb>> \/ Becomes(Use(Memory, JournalBlock(Len(log) + 1)))
        BY DEF Modify, Becomes, Memory
    <2> QED BY <2>1, <2>2, <2>3
<1>5. TypeOK'
    BY <1>1, <1>2, <1>3, <1>4 DEF IInv, TypeOK
<1>6. MarkedSlots'
    BY <1>1, <1>4 DEF MarkedSlots, Replaying
<1>7. PlaceInLog' /\ RestoredEntries'
    BY <1>1 DEF IInv, PlaceInLog, RestoredEntries, Replaying
<1>8. RestoredIsKept'
    BY <1>1, <1>4 DEF RestoredIsKept
<1> QED BY <1>3, <1>5, <1>6, <1>7, <1>8 DEF IInv

LEMMA ReadStep == ASSUME IInv, NEW b \in Block, Read(b) PROVE IInv'
    BY DEF Read, IInv, TypeOK, MarkedSlots, OneEntry, PlaceInLog, RestoredEntries, RestoredIsKept,
           Replaying, loadVars, Logged

LEMMA EvictStep == ASSUME IInv, NEW b \in Block, Evict(b) PROVE IInv'
<1>1. /\ disk' = [c \in Block |-> IF c \in {b} \cap dirty THEN buf[c] ELSE disk[c]]
      /\ cached' = cached \ {b} /\ dirty' = dirty \ {b} /\ pc = "run"
      /\ UNCHANGED <<log, rb, buf, clean, loadVars, changes, restored>>
    BY DEF Evict, Written
<1>2. TypeOK'
    BY <1>1 DEF IInv, TypeOK, loadVars
<1>3. \A r \in restored : r.blk \in Block /\ disk'[r.blk] = disk[r.blk]
    BY <1>1 DEF IInv, TypeOK, RestoredEntries, Entry
<1>4. RestoredIsKept'
    BY <1>1, <1>3 DEF IInv, RestoredIsKept
<1> QED BY <1>1, <1>2, <1>4 DEF IInv, MarkedSlots, OneEntry, PlaceInLog, RestoredEntries, Replaying,
                                loadVars, Logged

LEMMA FlushStep == ASSUME IInv, Flush PROVE IInv'
<1>1. /\ disk' = [c \in Block |-> IF c \in dirty THEN buf[c] ELSE disk[c]]
      /\ clean' = [c \in Block |-> IF c \in dirty THEN buf[c] ELSE clean[c]]
      /\ dirty' = {} /\ log' = <<>> /\ pc = "run"
      /\ UNCHANGED <<rb, buf, cached, loadVars, changes, restored>>
    BY DEF Flush, Written
<1>2. log' \in Seq(Entry) /\ DOMAIN log' = {}
    BY <1>1
<1>3. TypeOK'
    BY <1>1, <1>2 DEF IInv, TypeOK, loadVars
<1>4. \A r \in restored : r.blk \in Block /\ disk'[r.blk] = disk[r.blk]
    BY <1>1 DEF IInv, TypeOK, RestoredEntries, Entry
<1>5. RestoredIsKept'
    BY <1>1, <1>4 DEF IInv, RestoredIsKept
<1> QED BY <1>1, <1>2, <1>3, <1>5 DEF IInv, MarkedSlots, OneEntry, PlaceInLog, RestoredEntries,
                                      Replaying, loadVars

LEMMA NextInv == IInv /\ [Next]_vars => IInv'
<1> SUFFICES ASSUME IInv, [Next]_vars PROVE IInv'
    OBVIOUS
<1>1. CASE Load BY <1>1, LoadStep
<1>2. CASE ClaimTarget BY <1>2, ClaimStep
<1>3. CASE CopyImage BY <1>3, CopyStep
<1>4. CASE BatsPass \/ FinishReplay BY <1>4, PassStep
<1>5. ASSUME NEW b \in Block, Read(b) \/ Modify(b) \/ Evict(b) PROVE IInv'
    BY <1>5, ReadStep, ModifyStep, EvictStep
<1>6. CASE Flush BY <1>6, FlushStep
<1>7. CASE Crash BY <1>7, CrashStep
<1>8. CASE UNCHANGED vars
    BY <1>8 DEF vars, cacheVars, loadVars, IInv, TypeOK, MarkedSlots, OneEntry, PlaceInLog,
                RestoredEntries, RestoredIsKept, Logged
<1> QED BY <1>1, <1>2, <1>3, <1>4, <1>5, <1>6, <1>7, <1>8 DEF Next

LEMMA SpecInv == Spec => []IInv
<1> QED BY InitInv, NextInv, PTL DEF Spec

\* Type correctness; no two ROLLBACK slots hold the same block (_os_updateCacheAge_).
THEOREM ReplayTyping == Spec => []TypeOK
<1>1. IInv => TypeOK BY DEF IInv
<1> QED BY <1>1, SpecInv, PTL

\* No restored data block is dropped from its slot unwritten, for any number of entries
\* and slots, whatever is changed, read, evicted or flushed afterwards
\* (vfs_os_process_rollback against _os_updateCacheAge_).
THEOREM RestoredStaysKept == Spec => []RestoredIsKept
<1>1. IInv => RestoredIsKept BY DEF IInv
<1> QED BY <1>1, SpecInv, PTL

-----------------------------------------------------------------------------
(* Replaying is idempotent. *)

\* What is written while the journal is replayed is in the journal.
LEMMA ClaimKeepsTarget ==
    ASSUME IInv, pc \in Replaying, NEW seg \in Block \cup Nat, disk' = Use(Memory, seg).disk, log' = log
    PROVE  \A b \in Block : Target(b)' = Target(b)
<1> DEFINE m == Use(Memory, seg)
<1>1. disk' = m.disk OBVIOUS
<1>2. TypeOK /\ \A i \in DOMAIN rb : rb[i].dirty => rb[i].seg \in Data
    BY DEF IInv, MarkedSlots
<1>3. m = Use(Memory, seg) OBVIOUS
<1> HIDE DEF m
<1>4. \A b \in Block :
          \/ m.disk[b] = disk[b]
          \/ \E k \in DOMAIN rb : rb[k].dirty /\ rb[k].seg = b
    BY <1>2, <1>3, UseFacts
<1>5. \A b \in Block : b \in Logged \/ disk'[b] = disk[b]
    BY <1>1, <1>4 DEF IInv, MarkedSlots
<1>6. Logged' = Logged BY DEF Logged
<1> QED BY <1>5, <1>6 DEF Target

\* What the next load would restore is not changed by a load, a replay or a crash.
LEMMA StepKeepsTarget ==
    ASSUME IInv, [Next]_vars, pc # "run", pc' # "run"
    PROVE  \A b \in Block : Target(b)' = Target(b)
<1>1. CASE disk' = disk /\ log' = log
    BY <1>1 DEF Target, Logged
<1>2. CASE ClaimTarget
    <2>1. next \in DOMAIN log /\ pc \in Replaying
        BY <1>2 DEF ClaimTarget, Replaying, IInv, TypeOK, PlaceInLog
    <2>2. log[next].blk \in Block
        <3>1. log[next] \in Entry BY <2>1 DEF IInv, TypeOK
        <3> QED BY <3>1 DEF Entry
    <2>3. log' = log BY <1>2 DEF ClaimTarget
    <2>4. CASE InPass(log[next].blk)
        BY <1>2, <2>1, <2>2, <2>3, <2>4, ClaimKeepsTarget DEF ClaimTarget, Becomes
    <2>5. CASE ~InPass(log[next].blk)
        BY <1>1, <1>2, <2>5 DEF ClaimTarget
    <2> QED BY <2>4, <2>5
<1>3. CASE CopyImage
    <2> DEFINE entry == log[next]
               m == IF entry.img = Zero THEN Memory ELSE Use(Memory, JournalBlock(next))
    <2>1. next \in Nat /\ pc \in Replaying /\ log' = log
        BY <1>3 DEF CopyImage, Replaying, IInv, TypeOK
    <2>2. disk' = Put(m, entry.blk, entry.img, Smudged(entry.blk)).disk
        BY <1>3 DEF CopyImage, Becomes
    <2>3. CASE entry.img = Zero
        <3>1. m = [disk |-> disk, rb |-> rb] BY <2>3 DEF Memory
        <3> HIDE DEF m
        <3>2. disk' = disk BY <2>2, <3>1 DEF Put
        <3> QED BY <1>1, <2>1, <3>2
    <2>4. CASE entry.img # Zero
        <3>1. m = Use(Memory, JournalBlock(next)) BY <2>4
        <3>2. m = [disk |-> m.disk, rb |-> m.rb] BY <3>1, Zenon DEF Use, Memory
        <3> HIDE DEF m
        <3>3. disk' = m.disk BY <2>2, <3>2 DEF Put
        <3>4. JournalBlock(next) \in Block \cup Nat BY <2>1, JournalBlockType
        <3> QED BY <2>1, <3>1, <3>3, <3>4, ClaimKeepsTarget
    <2> QED BY <2>3, <2>4
<1>4. ASSUME ~(disk' = disk /\ log' = log) PROVE ClaimTarget \/ CopyImage
    <2>1. ~UNCHANGED vars /\ ~Load /\ ~BatsPass /\ ~Crash
        BY <1>4 DEF vars, Load, BatsPass, Crash
    <2>2. ~FinishReplay /\ ~Flush /\ \A b \in Block : ~(Read(b) \/ Modify(b) \/ Evict(b))
        BY DEF FinishReplay, Flush, Read, Modify, Evict
    <2> QED BY <2>1, <2>2 DEF Next
<1> QED BY <1>1, <1>2, <1>3, <1>4

\* However far a replay comes, and however often it is cut off by a crash and begun again,
\* the next one restores the same contents (vfs_os_process_rollback).
THEOREM Idempotence == Spec => ReplayIsIdempotent
<1>1. IInv /\ [Next]_vars => [pc # "run" /\ pc' # "run" => \A b \in Block : Target(b)' = Target(b)]_vars
    BY StepKeepsTarget
<1> QED BY <1>1, SpecInv, PTL DEF Spec, ReplayIsIdempotent
=============================================================================

------------------------------ MODULE OtaProofs ------------------------------
(* Proofs about the firmware selection of module Ota, for every bound on the  *)
(* sequence numbers and every number of test boots.                           *)
EXTENDS Ota, SequenceTheorems, TLAPS

-----------------------------------------------------------------------------
(* The inductive invariant. *)

(* The sector that rules in RAM is the one marked active. *)
ActiveRules ==
  /\ ~IsVirgin(records)
  /\ sector = RulingSector(records) /\ active = records[sector]

(* A rewrite under way that ends with the record just written: in RAM it      *)
(* rules already.                                                             *)
Installing ==
  /\ Len(todo) = 1 /\ ~todo[1].reselect
  /\ todo[1].rec \in Record
  /\ records[todo[1].sector] = todo[1].rec
  /\ RulingSector(records) = todo[1].sector

(* One under way that ends with a new look at the records: the self-test's.   *)
Restoring ==
  /\ Len(todo) \in {1, 2}
  /\ \A i \in 1 .. Len(todo) : todo[i].reselect
  /\ ~IsVirgin(records)
  /\ ~clean

RamInv ==
  /\ powered /\ todo = <<>> => ActiveRules /\ confirmed = active
  /\ powered /\ todo # <<>> => Installing \/ Restoring
  /\ ~powered => todo = <<>> /\ snap = <<>>
  /\ todo = <<>> => ~erased
  /\ snap # <<>> => ~IsVirgin(snap[1])

(* With sound flash the sector that is not being rewritten is what RAM says,  *)
(* it rules for as long as the rewrite lasts, and it holds the selection last *)
(* confirmed; the first record of all replaces nothing.                       *)
Rewriting ==
  LET s == todo[1].sector
  IN /\ flash[Other(s)] = records[Other(s)]
     /\ erased => flash[s] = Blank
     /\ Ruling(flash) = confirmed
     /\ todo[1].rec.seq >= confirmed.seq
     /\ IF IsVirgin(flash) THEN todo[1].rec = Factory /\ s = 0
        ELSE RulingSector(flash) = Other(s) /\ flash[Other(s)] # Blank

FlashInv ==
  clean =>
    /\ powered /\ todo = <<>> => flash = records
    /\ powered /\ todo # <<>> => Rewriting
    /\ ~powered => Ruling(flash) \in {confirmed, Ruling(records)}

IInv == TypeOK /\ RamInv /\ FlashInv
-----------------------------------------------------------------------------
(* The ruling record. *)

Records == [Sector -> Record \cup {Blank}]

LEMMA SectorFacts ==
  ASSUME NEW s \in Sector
  PROVE  Other(s) \in Sector /\ Other(s) # s /\ Other(Other(s)) = s /\ Sector = {s, Other(s)}
  BY DEF Sector, Other

LEMMA RecordFacts ==
  /\ Blank \notin Record /\ Factory \in Record /\ Blank.seq = 0
  /\ \A r \in Record : r.seq \in Nat /\ r.seq >= 1 /\ r.slot \in OtaSlot /\ r.state \in State
  BY DEF Blank, Record, Factory, OtaSlot, State

(* ota_select_active_record finds a valid record unless the flash is virgin.  *)
LEMMA RulingFacts ==
  ASSUME NEW r \in Records
  PROVE  /\ RulingSector(r) \in Sector
         /\ Ruling(r) \in Record
         /\ IsVirgin(r) => Ruling(r) = Factory /\ RulingSector(r) = 0
         /\ ~IsVirgin(r) => Ruling(r) = r[RulingSector(r)]
<1>1. r[0] \in Record \cup {Blank} /\ r[1] \in Record \cup {Blank}
  BY DEF Records, Sector
<1>2. RulingSector(r) \in Sector
  BY DEF RulingSector, Sector
<1>3. ~IsVirgin(r) => r[RulingSector(r)] # Blank
  BY DEF RulingSector, IsVirgin
<1>4. CASE IsVirgin(r)
  BY <1>2, <1>4, RecordFacts DEF Ruling, RulingSector, IsVirgin
<1>5. CASE ~IsVirgin(r)
  <2>1. Ruling(r) = r[RulingSector(r)]
    BY <1>5 DEF Ruling, IsVirgin
  <2> QED
    BY <1>2, <1>3, <1>5, <2>1 DEF Records
<1> QED
  BY <1>4, <1>5

(* A record newer than the other sector's rules. *)
LEMMA NewerRules ==
  ASSUME NEW r \in Records, NEW s \in Sector, NEW rec \in Record,
         r[Other(s)] # Blank => rec.seq > r[Other(s)].seq
  PROVE  /\ [r EXCEPT ![s] = rec] \in Records
         /\ ~IsVirgin([r EXCEPT ![s] = rec])
         /\ RulingSector([r EXCEPT ![s] = rec]) = s
         /\ Ruling([r EXCEPT ![s] = rec]) = rec
<1> DEFINE n == [r EXCEPT ![s] = rec]
<1>1. n \in Records
  BY DEF Records
<1>2. n[s] = rec /\ rec # Blank /\ n[Other(s)] = r[Other(s)]
  BY SectorFacts, RecordFacts DEF Records
<1>3. r[Other(s)] \in Record \cup {Blank}
  BY SectorFacts DEF Records
<1> HIDE DEF n
<1>4. RulingSector(n) = s /\ ~IsVirgin(n)
  BY <1>2, <1>3, RecordFacts DEF RulingSector, IsVirgin, Sector, Other
<1> QED
  BY <1>1, <1>2, <1>4, RulingFacts DEF n

(* Erasing the sector that does not rule changes nothing. *)
LEMMA WipedStays ==
  ASSUME NEW r \in Records, NEW s \in Sector, IsVirgin(r) \/ RulingSector(r) = Other(s)
  PROVE  /\ [r EXCEPT ![s] = Blank] \in Records
         /\ Ruling([r EXCEPT ![s] = Blank]) = Ruling(r)
         /\ IsVirgin([r EXCEPT ![s] = Blank]) <=> IsVirgin(r)
         /\ RulingSector([r EXCEPT ![s] = Blank]) = RulingSector(r)
<1> DEFINE n == [r EXCEPT ![s] = Blank]
<1>1. n \in Records
  BY DEF Records
<1>2. n[s] = Blank /\ n[Other(s)] = r[Other(s)]
  BY SectorFacts DEF Records
<1> HIDE DEF n
<1>3. CASE IsVirgin(r)
  <2>1. IsVirgin(n)
    BY <1>2, <1>3 DEF IsVirgin, Sector, Other
  <2> QED
    BY <1>1, <1>3, <2>1, RulingFacts DEF n
<1>4. CASE ~IsVirgin(r)
  <2>1. RulingSector(r) = Other(s) /\ r[Other(s)] # Blank
    BY <1>4 DEF RulingSector, IsVirgin, Sector, Other
  <2>2. RulingSector(n) = Other(s) /\ ~IsVirgin(n)
    BY <1>2, <2>1 DEF RulingSector, IsVirgin, Sector, Other
  <2> QED
    BY <1>1, <1>2, <1>4, <2>1, <2>2, RulingFacts DEF n
<1> QED
  BY <1>3, <1>4
-----------------------------------------------------------------------------
(* The steps. *)

RewriteType == [sector : Sector, rec : Record \cup {Blank}, reselect : BOOLEAN]

LEMMA InitIInv == Init => IInv
<1> SUFFICES ASSUME Init PROVE IInv
  OBVIOUS
<1>1. TypeOK
  BY SMTT(30), BootsAssumption, RecordFacts DEF Init, TypeOK, Sector, OtaSlot
<1>2. IsVirgin(flash) /\ flash \in Records /\ flash = records
  BY <1>1 DEF Init, IsVirgin, Sector, TypeOK, Records
<1>3. RamInv
  BY DEF Init, RamInv
<1>4. FlashInv
  BY <1>2, RulingFacts DEF Init, FlashInv
<1> QED
  BY <1>1, <1>3, <1>4 DEF IInv

(* What a rewrite of one sector is. *)
LEMMA RewriteFacts ==
  ASSUME NEW s \in Sector, NEW r \in Record \cup {Blank}, NEW b \in BOOLEAN
  PROVE  /\ Rewrite(s, r, b) \in RewriteType
         /\ Rewrite(s, r, b).sector = s /\ Rewrite(s, r, b).rec = r
         /\ Rewrite(s, r, b).reselect = b
         /\ <<Rewrite(s, r, b)>> \in Seq(RewriteType) /\ Len(<<Rewrite(s, r, b)>>) = 1
         /\ <<Rewrite(s, r, b)>>[1] = Rewrite(s, r, b) /\ <<Rewrite(s, r, b)>> # <<>>
<1>1. Rewrite(s, r, b) \in RewriteType
  BY DEF Rewrite, RewriteType
<1> QED
  BY <1>1 DEF Rewrite

(* The first rewrite to do, and the others. *)
LEMMA TodoFacts ==
  ASSUME TypeOK, todo # <<>>
  PROVE  /\ todo[1] \in RewriteType /\ Head(todo) = todo[1]
         /\ todo[1].sector \in Sector /\ todo[1].rec \in Record \cup {Blank}
         /\ Len(todo) \in {1, 2}
         /\ Tail(todo) \in Seq(RewriteType) /\ Len(Tail(todo)) <= 1
         /\ Len(todo) = 1 => Tail(todo) = <<>>
         /\ Len(todo) = 2 => Len(Tail(todo)) = 1 /\ Tail(todo)[1] = todo[2] /\ Tail(todo) # <<>>
<1>1. todo \in Seq(RewriteType) /\ Len(todo) <= 2
  BY DEF TypeOK, RewriteType
<1>2. Len(todo) \in Nat /\ Len(todo) # 0
  BY <1>1, EmptySeq, LenProperties
<1>3. todo[1] \in RewriteType /\ Head(todo) = todo[1]
  BY <1>1, <1>2, ElementOfSeq
<1>4. /\ Tail(todo) \in Seq(RewriteType) /\ Len(Tail(todo)) = Len(todo) - 1
      /\ Len(todo) = 2 => Tail(todo)[1] = todo[2]
  BY <1>1, <1>2, HeadTailProperties
<1> QED
  BY <1>1, <1>2, <1>3, <1>4, EmptySeq DEF RewriteType

(* ota_init starts a rewrite of sector s, having found r in the flash.        *)
Starts(r, s, rec) ==
  /\ todo' = <<Rewrite(s, rec, FALSE)>>
  /\ records' = [r EXCEPT ![s] = rec]
  /\ rec.seq >= active'.seq
  /\ r[Other(s)] # Blank => rec.seq > r[Other(s)].seq
  /\ IF IsVirgin(r) THEN rec = Factory /\ s = 0
     ELSE RulingSector(r) = Other(s) /\ r[Other(s)] # Blank

(* ota_init leaves the invariant's RAM part, whatever the flash returned.     *)
LEMMA LoadStep ==
  ASSUME TypeOK, NEW r \in Records, Load(r)
  PROVE  /\ records' \in Records /\ active' \in Record /\ sector' \in Sector /\ attempts' \in {0, 1}
         /\ active' = Ruling(r)
         /\ \/ /\ todo' = <<>> /\ records' = r /\ ~IsVirgin(r)
               /\ sector' = RulingSector(r) /\ active' = r[sector']
            \/ \E s \in Sector, rec \in Record : Starts(r, s, rec)
<1>1. /\ RulingSector(r) \in Sector /\ Ruling(r) \in Record
      /\ IsVirgin(r) => Ruling(r) = Factory /\ RulingSector(r) = 0
      /\ ~IsVirgin(r) => Ruling(r) = r[RulingSector(r)]
  BY RulingFacts
<1>2. active' = Ruling(r) /\ sector' = RulingSector(r) /\ attempts' \in {0, 1}
  BY DEF Load
<1>3. CASE IsVirgin(r)
  <2>0. Ruling(r).state # "TESTING"
    BY <1>1, <1>3 DEF Factory
  <2>1. records' = [r EXCEPT ![0] = Factory] /\ todo' = <<Rewrite(0, Factory, FALSE)>>
    BY <1>3, <2>0 DEF Load
  <2>2. 0 \in Sector /\ Other(0) = 1 /\ r[1] = Blank /\ Factory \in Record /\ active' = Factory
    BY <1>1, <1>2, <1>3, RecordFacts DEF Sector, Other, IsVirgin
  <2>3. records' \in Records
    BY <2>1, <2>2 DEF Records
  <2>4. Starts(r, 0, Factory)
    BY <1>3, <2>1, <2>2, RecordFacts DEF Starts
  <2> QED
    BY <1>1, <1>2, <2>2, <2>3, <2>4
<1>4. CASE ~IsVirgin(r) /\ Ruling(r).state = "TESTING" /\ attempts' > MaxTestBoots
  <2> DEFINE s   == NextSector(RulingSector(r))
             rec == [seq |-> Ruling(r).seq + 1, slot |-> Other(Ruling(r).slot), state |-> "VALID"]
  <2>1. records' = [r EXCEPT ![s] = rec] /\ todo' = <<Rewrite(s, rec, FALSE)>>
    BY <1>4 DEF Load, IsVirgin
  <2>2. s \in Sector /\ Other(s) = RulingSector(r)
    BY <1>1, SectorFacts DEF NextSector
  <2>3. rec \in Record /\ rec.seq > Ruling(r).seq
    BY <1>1, RecordFacts DEF Record, OtaSlot, Other, State
  <2>4. records' \in Records
    BY <2>1, <2>2, <2>3 DEF Records
  <2>5. r[Other(s)] = Ruling(r) /\ r[Other(s)] # Blank
    BY <1>1, <1>4, <2>2, RecordFacts
  <2> HIDE DEF s, rec
  <2>6. Starts(r, s, rec)
    BY <1>1, <1>2, <1>4, <2>1, <2>2, <2>3, <2>5, RecordFacts DEF Starts
  <2> QED
    BY <1>1, <1>2, <2>2, <2>3, <2>4, <2>6
<1>5. CASE ~IsVirgin(r) /\ ~(Ruling(r).state = "TESTING" /\ attempts' > MaxTestBoots)
  BY <1>1, <1>2, <1>5 DEF Load
<1> QED
  BY <1>3, <1>4, <1>5

(* ota_init, after a reset or from the self-test. *)
LEMMA InitializeStep ==
  ASSUME IInv, todo = <<>>, NEW lost \in SUBSET Sector, Lose(lost), Load(ReadBack(lost)),
         powered' = TRUE, confirmed' = active', testBoots' \in 0 .. MaxTestBoots + 1,
         UNCHANGED <<flash, erased, snap, image>>
  PROVE  IInv'
<1> DEFINE r == ReadBack(lost)
<1>1. TypeOK /\ flash \in Records /\ ~erased /\ clean \in BOOLEAN
  BY DEF IInv, TypeOK, RamInv, Records
<1>2. r \in Records
  BY <1>1 DEF ReadBack, Records
<1>3. lost = {} => r = flash
  BY <1>1 DEF ReadBack, Records
<1>4. clean' => clean /\ lost = {}
  BY DEF Lose, Disturb
<1>5. Load(r)
  OBVIOUS
<1> HIDE DEF r
<1>6. /\ records' \in Records /\ active' \in Record /\ sector' \in Sector /\ attempts' \in {0, 1}
      /\ active' = Ruling(r)
  BY <1>1, <1>2, <1>5, LoadStep
<1>7. clean' \in BOOLEAN
  BY <1>1 DEF Lose, Disturb
<1>8. CASE /\ todo' = <<>> /\ records' = r /\ ~IsVirgin(r)
           /\ sector' = RulingSector(r) /\ active' = r[sector']
  <2>1. TypeOK'
    BY <1>1, <1>6, <1>7, <1>8, EmptySeq DEF TypeOK, Records
  <2>2. RamInv'
    BY <1>1, <1>8 DEF IInv, RamInv, ActiveRules
  <2>3. FlashInv'
    BY <1>3, <1>4, <1>8 DEF FlashInv
  <2> QED
    BY <2>1, <2>2, <2>3 DEF IInv
<1>9. CASE \E s \in Sector, rec \in Record : Starts(r, s, rec)
  <2>1. PICK s \in Sector, rec \in Record : Starts(r, s, rec)
    BY <1>9
  <2>2. /\ todo' \in Seq(RewriteType) /\ Len(todo') = 1 /\ todo' # <<>>
        /\ todo'[1].sector = s /\ todo'[1].rec = rec /\ todo'[1].reselect = FALSE
    <3>1. todo' = <<Rewrite(s, rec, FALSE)>>
      BY <2>1 DEF Starts
    <3> QED
      BY <3>1 DEF Rewrite, RewriteType
  <2>3. /\ records' = [r EXCEPT ![s] = rec] /\ rec.seq >= active'.seq
        /\ r[Other(s)] # Blank => rec.seq > r[Other(s)].seq
        /\ IF IsVirgin(r) THEN rec = Factory /\ s = 0
           ELSE RulingSector(r) = Other(s) /\ r[Other(s)] # Blank
    BY <2>1 DEF Starts
  <2>4. TypeOK'
    BY <1>1, <1>6, <1>7, <2>2 DEF TypeOK, Records, RewriteType
  <2>5. RulingSector(records') = s /\ records'[s] = rec /\ records'[Other(s)] = r[Other(s)]
    <3>1. RulingSector(records') = s
      BY <1>2, <2>3, NewerRules
    <3> QED
      BY <1>2, <2>3, <3>1, SectorFacts DEF Records
  <2>6. RamInv'
    BY <1>1, <2>2, <2>5 DEF IInv, RamInv, Installing
  <2>7. FlashInv'
    BY <1>1, <1>3, <1>4, <1>6, <2>2, <2>3, <2>5 DEF FlashInv, Rewriting
  <2> QED
    BY <2>4, <2>6, <2>7 DEF IInv
<1> QED
  BY <1>1, <1>2, <1>5, <1>8, <1>9, LoadStep

LEMMA BootStep ==
  ASSUME IInv, Boot \/ ReInit
  PROVE  IInv'
<1>1. todo = <<>>
  BY DEF Boot, ReInit, Idle, IInv, RamInv
<1>2. testBoots \in 0 .. MaxTestBoots + 1 /\ MaxTestBoots \in Nat
  BY BootsAssumption DEF IInv, TypeOK
<1>3. testBoots' \in 0 .. MaxTestBoots + 1
  BY <1>2 DEF Boot, ReInit, CountBoot
<1>4. PICK lost \in SUBSET Sector : Lose(lost) /\ Load(ReadBack(lost))
  BY DEF Boot, ReInit
<1>5. powered' = TRUE /\ confirmed' = active' /\ UNCHANGED <<flash, erased, snap, image>>
  BY DEF Boot, ReInit, Idle, IInv, TypeOK
<1> QED
  BY <1>1, <1>3, <1>4, <1>5, InitializeStep

(* A power loss in the middle of a rewrite leaves the record that ruled.      *)
LEMMA PowerLossStep ==
  ASSUME IInv, PowerLoss
  PROVE  IInv'
<1>1. /\ powered /\ powered' = FALSE /\ todo' = <<>> /\ erased' = FALSE /\ snap' = <<>>
      /\ UNCHANGED <<records, active, sector, attempts, image, confirmed, testBoots, clean>>
      /\ \/ flash' = flash
         \/ todo # <<>> /\ flash' = [flash EXCEPT ![todo[1].sector] = Blank]
  BY TodoFacts DEF PowerLoss, ram, hist, IInv
<1>2. flash' \in Records
  BY <1>1, TodoFacts DEF IInv, TypeOK, Records
<1>3. TypeOK'
  <2>1. todo' \in Seq([sector : Sector, rec : Record \cup {Blank}, reselect : BOOLEAN]) /\ Len(todo') <= 2
    BY <1>1, EmptySeq
  <2>2. {powered', erased', clean'} \subseteq BOOLEAN
    BY <1>1 DEF IInv, TypeOK
  <2> QED
    BY <1>1, <1>2, <2>1, <2>2 DEF IInv, TypeOK, Records
<1>4. RamInv'
  BY <1>1 DEF RamInv
<1>5. ASSUME clean PROVE Ruling(flash') \in {confirmed, Ruling(records)}
  <2>1. CASE todo = <<>>
    BY <1>1, <1>5, <2>1 DEF IInv, FlashInv
  <2>2. CASE todo # <<>>
    <3>1. Rewriting /\ flash \in Records /\ todo[1].sector \in Sector
      BY <1>1, <1>5, <2>2, TodoFacts DEF IInv, FlashInv, TypeOK, Records
    <3>2. Ruling(flash) = confirmed
      BY <3>1 DEF Rewriting
    <3>3. IsVirgin(flash) \/ RulingSector(flash) = Other(todo[1].sector)
      BY <3>1 DEF Rewriting
    <3> QED
      BY <1>1, <3>1, <3>2, <3>3, WipedStays
  <2> QED
    BY <2>1, <2>2
<1>6. FlashInv'
  BY <1>1, <1>5 DEF FlashInv
<1> QED
  BY <1>3, <1>4, <1>6 DEF IInv

(* A rewrite has come to its end, well or not. *)
LEMMA RewriteDone ==
  ASSUME IInv, powered, todo # <<>>, Complete, todo' = Tail(todo), erased' = FALSE,
         flash' \in Records, clean' \in BOOLEAN, clean' => clean,
         UNCHANGED <<powered, attempts, snap, image>>
  PROVE  /\ TypeOK' /\ RamInv'
         /\ clean => Installing /\ todo' = <<>> /\ records' = records /\ confirmed' = active'
<1>1. TypeOK /\ RamInv /\ (Installing \/ Restoring)
  BY DEF IInv, RamInv
<1>2. /\ todo[1] \in RewriteType /\ todo[1].sector \in Sector /\ Len(todo) \in {1, 2}
      /\ Tail(todo) \in Seq(RewriteType) /\ Len(Tail(todo)) <= 1
      /\ Len(todo) = 1 => Tail(todo) = <<>>
      /\ Len(todo) = 2 => Len(Tail(todo)) = 1 /\ Tail(todo)[1] = todo[2] /\ Tail(todo) # <<>>
  BY <1>1, TodoFacts
<1>3. records \in Records /\ testBoots \in 0 .. MaxTestBoots + 1 /\ MaxTestBoots \in Nat
  BY <1>1, BootsAssumption DEF TypeOK, Records
<1>4. /\ RulingSector(records) \in Sector /\ Ruling(records) \in Record
      /\ ~IsVirgin(records) => Ruling(records) = records[RulingSector(records)]
  BY <1>3, RulingFacts
<1>5. records' = records
  BY DEF Complete, ram
<1>0. {powered', erased', clean'} \subseteq BOOLEAN
  BY <1>1 DEF TypeOK
<1>6. CASE Len(todo) = 1
  <2>1. /\ IF todo[1].reselect
           THEN active' = Ruling(records) /\ sector' = RulingSector(records)
           ELSE active' = todo[1].rec /\ sector' = todo[1].sector
        /\ confirmed' = active'
        /\ testBoots' = IF active' = active THEN testBoots ELSE 0
    BY <1>6 DEF Complete
  <2>2. ~IsVirgin(records)
    <3>1. CASE Installing
      <4>1. records[todo[1].sector] # Blank
        BY <3>1, RecordFacts DEF Installing
      <4> QED
        BY <1>2, <4>1 DEF IsVirgin, Sector
    <3> QED
      BY <1>1, <3>1 DEF Restoring
  <2>3. active' \in Record /\ sector' = RulingSector(records) /\ active' = records[sector']
    <3>1. CASE Installing
      BY <2>1, <3>1 DEF Installing
    <3>2. CASE Restoring
      BY <1>4, <1>6, <2>1, <2>2, <3>2 DEF Restoring
    <3> QED
      BY <1>1, <3>1, <3>2
  <2>4. testBoots' \in 0 .. MaxTestBoots + 1
    BY <1>3, <2>1
  <2>5. todo' = <<>>
    BY <1>2, <1>6
  <2>6. TypeOK'
    <3>1. todo' \in Seq(RewriteType) /\ Len(todo') <= 2
      BY <1>2
    <3> QED
      BY <1>0, <1>1, <1>3, <1>4, <1>5, <2>1, <2>3, <2>4, <3>1 DEF TypeOK, Records, RewriteType
  <2>7. RamInv'
    BY <1>1, <1>5, <2>1, <2>2, <2>3, <2>5 DEF RamInv, ActiveRules
  <2>8. clean => Installing
    BY <1>1 DEF Restoring
  <2> QED
    BY <1>5, <2>1, <2>5, <2>6, <2>7, <2>8
<1>7. CASE Len(todo) = 2
  <2>1. UNCHANGED <<active, sector, confirmed, testBoots>>
    BY <1>7 DEF Complete, ram, hist
  <2>2. Restoring
    BY <1>1, <1>7 DEF Installing
  <2>3. TypeOK'
    BY <1>0, <1>1, <1>2, <1>5, <1>7, <2>1 DEF TypeOK, Records, RewriteType
  <2>4. Restoring'
    BY <1>2, <1>5, <1>7, <2>2 DEF Restoring
  <2>5. RamInv'
    BY <1>1, <1>2, <1>7, <2>4 DEF RamInv
  <2> QED
    BY <2>2, <2>3, <2>5 DEF Restoring
<1> QED
  BY <1>2, <1>6, <1>7

(* What a flash call of a rewrite does to the sector. *)
LEMMA EraseSectorStep ==
  ASSUME IInv, EraseSector
  PROVE  IInv'
<1> DEFINE s == todo[1].sector
<1>1. /\ powered /\ todo # <<>> /\ ~erased /\ clean' = clean /\ TypeOK /\ RamInv
      /\ UNCHANGED <<powered, attempts, snap, image>>
  BY DEF EraseSector, IInv
<1>2. s \in Sector /\ Head(todo) = todo[1]
  BY <1>1, TodoFacts
<1>3. flash' = [flash EXCEPT ![s] = Blank] /\ flash \in Records /\ flash' \in Records
  BY <1>1, <1>2 DEF EraseSector, TypeOK, Records
<1>4. clean \in BOOLEAN
  BY <1>1 DEF TypeOK
<1>5. CASE todo[1].rec = Blank
  <2>1. Complete /\ todo' = Tail(todo) /\ erased' = FALSE
    BY <1>2, <1>5 DEF EraseSector
  <2>2. TypeOK' /\ RamInv' /\ (clean => Installing)
    BY <1>1, <1>3, <1>4, <2>1, RewriteDone
  <2>3. ~clean
    BY <1>5, <2>2, RecordFacts DEF Installing
  <2> QED
    BY <1>1, <2>2, <2>3 DEF IInv, FlashInv
<1>6. CASE todo[1].rec # Blank
  <2>1. UNCHANGED <<records, active, sector, confirmed, testBoots, todo>> /\ erased' = TRUE
    BY <1>2, <1>6 DEF EraseSector, ram, hist
  <2>2. TypeOK'
    BY <1>1, <1>3, <2>1 DEF TypeOK, Records
  <2>3. RamInv'
    BY <1>1, <2>1 DEF RamInv, ActiveRules, Installing, Restoring
  <2>4. ASSUME clean PROVE Rewriting'
    <3>1. Rewriting
      BY <1>1, <2>4 DEF IInv, FlashInv
    <3>2. /\ flash'[Other(s)] = flash[Other(s)] /\ flash'[s] = Blank
          /\ Ruling(flash') = Ruling(flash) /\ RulingSector(flash') = RulingSector(flash)
          /\ IsVirgin(flash') <=> IsVirgin(flash)
      BY ZenonT(30), <1>2, <1>3, <3>1, WipedStays, SectorFacts DEF Rewriting, Records
    <3> QED
      BY <2>1, <3>1, <3>2 DEF Rewriting
  <2>5. FlashInv'
    BY <1>1, <2>1, <2>4 DEF FlashInv
  <2> QED
    BY <2>2, <2>3, <2>5 DEF IInv
<1> QED
  BY <1>5, <1>6

LEMMA WriteSectorStep ==
  ASSUME IInv, WriteSector
  PROVE  IInv'
<1> DEFINE s == todo[1].sector
<1>1. /\ powered /\ todo # <<>> /\ clean' = clean /\ TypeOK
      /\ UNCHANGED <<powered, attempts, snap, image>>
      /\ Complete /\ todo' = Tail(todo) /\ erased' = FALSE
  BY DEF WriteSector, IInv
<1>2. s \in Sector /\ Head(todo) = todo[1] /\ todo[1].rec \in Record \cup {Blank}
  BY <1>1, TodoFacts
<1>3. flash' = [flash EXCEPT ![s] = todo[1].rec] /\ flash \in Records /\ flash' \in Records
  BY <1>1, <1>2 DEF WriteSector, TypeOK, Records
<1>4. clean \in BOOLEAN /\ records \in Records
  BY <1>1 DEF TypeOK, Records
<1>5. /\ TypeOK' /\ RamInv'
      /\ clean => Installing /\ todo' = <<>> /\ records' = records
  BY <1>1, <1>3, <1>4, RewriteDone
<1>6. ASSUME clean PROVE flash' = records'
  <2>1. Rewriting
    BY <1>1, <1>6 DEF IInv, FlashInv
  <2>2. flash'[s] = records[s] /\ flash'[Other(s)] = records[Other(s)]
    BY <1>2, <1>3, <1>5, <1>6, <2>1, SectorFacts DEF Rewriting, Installing, Records
  <2>3. \A x \in Sector : flash'[x] = records[x]
    BY <1>2, <2>2, SectorFacts
  <2> QED
    BY <1>3, <1>4, <1>5, <1>6, <2>3 DEF Records
<1>7. FlashInv'
  BY <1>1, <1>5, <1>6 DEF FlashInv
<1> QED
  BY <1>5, <1>7 DEF IInv

LEMMA FailSectorStep ==
  ASSUME IInv, FailSector
  PROVE  IInv'
<1>1. /\ powered /\ todo # <<>> /\ clean' = FALSE /\ TypeOK
      /\ UNCHANGED <<powered, attempts, snap, image>>
      /\ Complete /\ todo' = Tail(todo) /\ erased' = FALSE
  BY DEF FailSector, IInv, Disturb
<1>2. todo[1].sector \in Sector /\ Head(todo) = todo[1]
  BY <1>1, TodoFacts
<1>3. flash' \in Records
  BY <1>1, <1>2 DEF FailSector, TypeOK, Records
<1>4. TypeOK' /\ RamInv'
  BY <1>1, <1>3, RewriteDone
<1> QED
  BY <1>1, <1>4 DEF IInv, FlashInv

(* write_select_record on behalf of ota_switch_slot, ota_mark_valid and       *)
(* ota_rollback: the new record goes to the sector that does not rule.        *)
LEMMA InstallStep ==
  ASSUME IInv, Idle, NEW rec \in Record, rec.seq > active.seq, Install(rec),
         UNCHANGED <<flash, powered, active, sector, attempts, snap, image, hist, clean>>
  PROVE  IInv'
<1> DEFINE s == NextSector(sector)
<1>1. /\ TypeOK /\ ActiveRules /\ confirmed = active /\ powered /\ (clean => flash = records)
      /\ records \in Records /\ sector \in Sector /\ active \in Record
  BY DEF IInv, RamInv, FlashInv, Idle, TypeOK, Records
<1>2. s \in Sector /\ Other(s) = sector /\ s # sector
  BY <1>1, SectorFacts DEF NextSector
<1>3. records' = [records EXCEPT ![s] = rec] /\ todo' = <<Rewrite(s, rec, FALSE)>> /\ erased' = FALSE
  BY DEF Install
<1> HIDE DEF s
<1>4. /\ todo' \in Seq(RewriteType) /\ Len(todo') = 1 /\ todo' # <<>>
      /\ todo'[1].sector = s /\ todo'[1].rec = rec /\ todo'[1].reselect = FALSE
  BY <1>2, <1>3 DEF Rewrite, RewriteType
<1>5. records[Other(s)] = active /\ Ruling(records) = active /\ RulingSector(records) = Other(s)
  BY <1>1, <1>2, RulingFacts DEF ActiveRules
<1>6. records' \in Records /\ RulingSector(records') = s
  BY <1>1, <1>2, <1>3, <1>5, NewerRules
<1>7. records'[s] = rec /\ records'[Other(s)] = active
  BY <1>1, <1>2, <1>3, <1>5 DEF Records
<1>8. TypeOK'
  <2>1. {powered', erased', clean'} \subseteq BOOLEAN
    BY <1>1, <1>3 DEF TypeOK
  <2> QED
    BY <1>1, <1>4, <1>6, <2>1 DEF TypeOK, Records, RewriteType, hist
<1>9. RamInv'
  BY <1>1, <1>3, <1>4, <1>6, <1>7 DEF IInv, RamInv, Installing
<1>10. ASSUME clean PROVE Rewriting'
  <2>1. /\ flash' = records /\ confirmed' = active /\ active.seq \in Nat /\ rec.seq \in Nat
        /\ ~IsVirgin(records) /\ active # Blank
    BY <1>1, <1>10, RecordFacts DEF ActiveRules, hist
  <2>2. /\ Ruling(flash') = active /\ RulingSector(flash') = Other(s) /\ ~IsVirgin(flash')
        /\ flash'[Other(s)] = active
    BY <1>5, <2>1
  <2>3. todo'[1].rec.seq >= confirmed'.seq
    BY <1>4, <2>1
  <2>4. flash'[Other(s)] = records'[Other(s)] /\ flash'[Other(s)] # Blank /\ Ruling(flash') = confirmed'
    BY <1>7, <2>1, <2>2
  <2> QED
    BY <1>3, <1>4, <2>2, <2>3, <2>4 DEF Rewriting
<1>11. FlashInv'
  BY <1>1, <1>4, <1>10 DEF FlashInv
<1> QED
  BY <1>8, <1>9, <1>11 DEF IInv

LEMMA OperationStep ==
  ASSUME IInv, SwitchSlot \/ MarkValid \/ Rollback
  PROVE  IInv'
<1>1. active \in Record /\ active.seq \in Nat /\ active.slot \in OtaSlot /\ Other(active.slot) \in OtaSlot
  <2>1. active \in Record
    BY DEF IInv, TypeOK
  <2> QED
    BY <2>1, RecordFacts DEF OtaSlot, Other
<1>2. \A o \in OtaSlot, st \in State :
        LET rec == [seq |-> active.seq + 1, slot |-> o, state |-> st]
        IN rec \in Record /\ rec.seq > active.seq
  BY <1>1 DEF Record
<1>3. Idle
  BY DEF SwitchSlot, MarkValid, Rollback, CanWrite
<1>4. UNCHANGED <<flash, powered, active, sector, attempts, snap, image, hist, clean>>
  BY DEF SwitchSlot, MarkValid, Rollback
<1>5. "TESTING" \in State /\ "VALID" \in State
  BY DEF State
<1>6. PICK o \in OtaSlot, st \in State :
        Install([seq |-> active.seq + 1, slot |-> o, state |-> st])
  BY <1>1, <1>5 DEF SwitchSlot, MarkValid, Rollback
<1> QED
  BY <1>2, <1>3, <1>4, <1>6, InstallStep

(* Writes to a slot's image leave the selection alone. *)
LEMMA ImageStep ==
  ASSUME IInv, NEW s \in OtaSlot, EraseSlot(s) \/ WriteSlot(s)
  PROVE  IInv'
<1>1. /\ image' \in [OtaSlot -> {"firmware", "upgrade", "empty"}]
      /\ UNCHANGED <<flash, powered, records, active, sector, attempts, todo, erased, snap,
                     confirmed, testBoots, clean>>
  BY DEF EraseSlot, WriteSlot, IInv, TypeOK, ram, hist
<1>2. TypeOK'
  <2>1. {powered', erased', clean'} \subseteq BOOLEAN
    BY <1>1 DEF IInv, TypeOK
  <2> QED
    BY <1>1, <2>1 DEF IInv, TypeOK
<1>3. RamInv' /\ FlashInv'
  BY <1>1 DEF IInv, RamInv, FlashInv, ActiveRules, Installing, Restoring, Rewriting
<1> QED
  BY <1>2, <1>3 DEF IInv

LEMMA SnapshotSaveStep ==
  ASSUME IInv, SnapshotSave
  PROVE  IInv'
<1>1. /\ snap' = <<records>> /\ ~IsVirgin(records) /\ records \in Records /\ powered
      /\ UNCHANGED <<flash, powered, records, active, sector, attempts, todo, erased, image,
                     confirmed, testBoots, clean>>
  BY DEF SnapshotSave, Idle, IInv, TypeOK, RamInv, ActiveRules, ram, hist, Records
<1>2. Len(snap') = 1 /\ snap'[1] = records
  BY <1>1
<1>3. TypeOK'
  <2>1. {powered', erased', clean'} \subseteq BOOLEAN
    BY <1>1 DEF IInv, TypeOK
  <2> QED
    BY <1>1, <1>2, <2>1 DEF IInv, TypeOK, Records
<1>4. RamInv' /\ FlashInv'
  BY <1>1, <1>2 DEF IInv, RamInv, FlashInv, ActiveRules, Installing, Restoring, Rewriting
<1> QED
  BY <1>3, <1>4 DEF IInv

(* The self-test puts up to two records back. *)
LEMMA SnapshotRestoreStep ==
  ASSUME IInv, SnapshotRestore
  PROVE  IInv'
<1> DEFINE Part(s) == IF snap[1][s] = records[s] THEN <<>> ELSE <<Rewrite(s, snap[1][s], TRUE)>>
<1>1. /\ powered /\ clean' = FALSE /\ snap # <<>> /\ erased' = FALSE /\ todo' # <<>>
      /\ todo' = Part(0) \o Part(1) /\ records' = snap[1]
      /\ UNCHANGED <<flash, powered, active, sector, attempts, snap, image, confirmed, testBoots>>
  BY DEF SnapshotRestore, Idle, Disturb, hist
<1>2. TypeOK /\ snap[1] \in Records /\ ~IsVirgin(snap[1])
  BY <1>1 DEF IInv, TypeOK, RamInv, Records
<1>3. \A s \in Sector : /\ Part(s) \in Seq(RewriteType) /\ Len(Part(s)) \in {0, 1}
                        /\ \A i \in 1 .. Len(Part(s)) : Part(s)[i].reselect = TRUE
  <2> SUFFICES ASSUME NEW s \in Sector, NEW p, p = Part(s)
               PROVE  /\ p \in Seq(RewriteType) /\ Len(p) \in {0, 1}
                      /\ \A i \in 1 .. Len(p) : p[i].reselect = TRUE
    OBVIOUS
  <2>1. CASE snap[1][s] = records[s]
    <3>1. p = <<>>
      BY <2>1
    <3>2. p \in Seq(RewriteType) /\ Len(p) = 0
      BY <3>1, EmptySeq
    <3> HIDE DEF Part
    <3>3. 1 .. Len(p) = {}
      BY <3>2
    <3> QED
      BY <3>2, <3>3
  <2>2. CASE snap[1][s] # records[s]
    <3> DEFINE w == Rewrite(s, snap[1][s], TRUE)
    <3>1. snap[1][s] \in Record \cup {Blank}
      BY <1>2 DEF Records
    <3>2. p = <<w>>
      BY <2>2
    <3>3. w \in RewriteType /\ w.reselect = TRUE
      BY <3>1 DEF Rewrite, RewriteType
    <3> HIDE DEF w, Part
    <3> QED
      BY <3>2, <3>3
  <2> QED
    BY <2>1, <2>2
<1> HIDE DEF Part
<1>4. /\ todo' \in Seq(RewriteType) /\ Len(todo') \in {1, 2}
      /\ \A i \in 1 .. Len(todo') : todo'[i].reselect = TRUE
  <2>1. 0 \in Sector /\ 1 \in Sector
    BY DEF Sector
  <2>2. /\ todo' \in Seq(RewriteType) /\ Len(todo') = Len(Part(0)) + Len(Part(1))
        /\ \A i \in 1 .. Len(todo') :
             todo'[i] = IF i <= Len(Part(0)) THEN Part(0)[i] ELSE Part(1)[i - Len(Part(0))]
    BY <1>1, <1>3, <2>1, ConcatProperties
  <2>3. Len(todo') # 0
    BY <1>1, <2>2, EmptySeq
  <2>4. Len(todo') \in {1, 2}
    BY <1>3, <2>1, <2>2, <2>3
  <2>5. ASSUME NEW i \in 1 .. Len(todo') PROVE todo'[i].reselect = TRUE
    <3>1. CASE i <= Len(Part(0))
      BY <1>3, <2>1, <2>2, <2>5, <3>1
    <3>2. CASE ~(i <= Len(Part(0)))
      <4>1. i - Len(Part(0)) \in 1 .. Len(Part(1))
        BY <1>3, <2>1, <2>2, <2>5, <3>2
      <4> QED
        BY <1>3, <2>1, <2>2, <2>5, <3>2, <4>1
    <3> QED
      BY <3>1, <3>2
  <2> QED
    BY <2>2, <2>4, <2>5
<1>5. TypeOK'
  <2>1. {powered', erased', clean'} \subseteq BOOLEAN
    BY <1>1, <1>2 DEF TypeOK
  <2> QED
    BY <1>1, <1>2, <1>4, <2>1 DEF TypeOK, Records, RewriteType
<1>6. RamInv'
  BY <1>1, <1>2, <1>4 DEF IInv, RamInv, Restoring
<1>7. FlashInv'
  BY <1>1 DEF FlashInv
<1> QED
  BY <1>5, <1>6, <1>7 DEF IInv

LEMMA NextIInv ==
  ASSUME IInv, [Next]_vars
  PROVE  IInv'
<1>1. CASE PowerLoss
  BY <1>1, PowerLossStep
<1>2. CASE Boot \/ ReInit
  BY <1>2, BootStep
<1>3. CASE EraseSector
  BY <1>3, EraseSectorStep
<1>4. CASE WriteSector
  BY <1>4, WriteSectorStep
<1>5. CASE FailSector
  BY <1>5, FailSectorStep
<1>6. CASE SwitchSlot \/ MarkValid \/ Rollback
  BY <1>6, OperationStep
<1>7. CASE \E s \in OtaSlot : EraseSlot(s) \/ WriteSlot(s)
  BY <1>7, ImageStep
<1>8. CASE SnapshotSave
  BY <1>8, SnapshotSaveStep
<1>9. CASE SnapshotRestore
  BY <1>9, SnapshotRestoreStep
<1>10. CASE UNCHANGED vars
  BY <1>10 DEF vars, ram, hist, IInv, TypeOK, RamInv, FlashInv, ActiveRules, Installing,
               Restoring, Rewriting
<1> QED
  BY <1>1, <1>2, <1>3, <1>4, <1>5, <1>6, <1>7, <1>8, <1>9, <1>10 DEF Next
-----------------------------------------------------------------------------
(* Every reachable state satisfies the inductive invariant. *)
THEOREM Invariance == Spec => []IInv
<1>1. Init => IInv
  BY InitIInv
<1>2. IInv /\ [Next]_vars => IInv'
  BY NextIInv
<1> QED
  BY <1>1, <1>2, PTL DEF Spec

(* The variables keep their types, for every bound on the sequence numbers    *)
(* and every limit on test boots, 0 included.                                 *)
THEOREM TypeCorrect == Spec => []TypeOK
<1>1. IInv => TypeOK
  BY DEF IInv
<1> QED
  BY <1>1, Invariance, PTL

(* With sound flash a power loss at any point of write_select_record leaves   *)
(* the flash selecting what ota.c last confirmed or what it was writing.      *)
THEOREM Survival == Spec => []SelectionSurvives
<1>1. IInv => SelectionSurvives
  <2> SUFFICES ASSUME IInv, clean PROVE Ruling(flash) \in {confirmed, Ruling(records)}
    BY DEF SelectionSurvives
  <2>1. powered \in BOOLEAN /\ records \in Records
    BY DEF IInv, TypeOK, Records
  <2>2. CASE ~powered
    BY <2>2 DEF IInv, FlashInv
  <2>3. CASE powered /\ todo # <<>>
    BY <2>3 DEF IInv, FlashInv, Rewriting
  <2>4. CASE powered /\ todo = <<>>
    BY <2>4 DEF IInv, FlashInv
  <2> QED
    BY <2>1, <2>2, <2>3, <2>4
<1> QED
  BY <1>1, Invariance, PTL

(* Once ota.c has returned, s_active_* is what ota_init would select from the *)
(* flash after a reset.                                                       *)
THEOREM Durability == Spec => []ReportedIsDurable
<1>1. IInv => ReportedIsDurable
  <2> SUFFICES ASSUME IInv, clean, Idle
               PROVE  active = Ruling(flash) /\ sector = RulingSector(flash)
    BY DEF ReportedIsDurable
  <2>1. ActiveRules /\ flash = records /\ records \in Records
    BY DEF IInv, RamInv, FlashInv, Idle, TypeOK, Records
  <2> QED
    BY <2>1, RulingFacts DEF ActiveRules
<1> QED
  BY <1>1, Invariance, PTL

(* The cached selection is the cached record of the cached sector, whatever   *)
(* flash calls failed and whatever the self-test restored.                    *)
THEOREM Coherence == Spec => []CacheCoherent
<1>1. IInv => CacheCoherent
  <2> SUFFICES ASSUME IInv, Idle
               PROVE  records[sector] = active /\ Ruling(records) = active
    BY DEF CacheCoherent
  <2>1. ActiveRules /\ records \in Records
    BY DEF IInv, RamInv, Idle, TypeOK, Records
  <2> QED
    BY <2>1, RulingFacts DEF ActiveRules
<1> QED
  BY <1>1, Invariance, PTL

(* The record that rules is never the one erased, so with sound flash its     *)
(* sequence number only grows.                                                *)
THEOREM RulingKept == Spec => RulingRecordKept
<1> DEFINE Kept == clean' => /\ ~IsVirgin(flash) => ~IsVirgin(flash')
                             /\ Ruling(flash').seq >= Ruling(flash).seq
<1>1. IInv /\ [Next]_vars => [Kept]_flash
  <2> SUFFICES ASSUME IInv, [Next]_vars, flash' # flash, clean' PROVE Kept
    OBVIOUS
  <2>0. flash \in Records /\ Ruling(flash).seq \in Nat /\ TypeOK
    BY RulingFacts, RecordFacts DEF IInv, TypeOK, Records
  <2>1. PowerLoss \/ EraseSector \/ WriteSector
    BY DEF Next, vars, Boot, ReInit, FailSector, Disturb, SwitchSlot, MarkValid, Rollback,
           EraseSlot, WriteSlot, SnapshotSave, SnapshotRestore
  <2>2. clean /\ powered /\ todo # <<>> /\ Head(todo) = todo[1] /\ todo[1].sector \in Sector
    BY <2>0, <2>1, TodoFacts DEF PowerLoss, EraseSector, WriteSector, hist
  <2>3. Rewriting
    BY <2>2 DEF IInv, FlashInv
  <2>4. CASE flash' = [flash EXCEPT ![todo[1].sector] = Blank]
    <3>1. Ruling(flash') = Ruling(flash) /\ (IsVirgin(flash') <=> IsVirgin(flash))
      BY <2>0, <2>2, <2>3, <2>4, WipedStays DEF Rewriting
    <3> QED
      BY <2>0, <3>1
  <2>5. CASE WriteSector
    <3> DEFINE s == todo[1].sector
    <3>1. flash' = [flash EXCEPT ![s] = todo[1].rec]
      BY <2>2, <2>5 DEF WriteSector
    <3>2. Installing
      BY <2>2 DEF IInv, RamInv, Restoring
    <3>3. flash'[0] \in Record \cup {Blank} /\ flash' = records /\ todo[1].rec \in Record
      <4>1. IInv'
        BY NextIInv
      <4>2. todo' = <<>> /\ powered' /\ clean'
        BY <2>0, <2>2, <2>5, <3>2, TodoFacts DEF WriteSector, Installing
      <4>3. flash' = records'
        BY <4>1, <4>2 DEF IInv, FlashInv
      <4>4. records' = records
        BY <2>5 DEF WriteSector, Complete, ram
      <4> QED
        BY <2>0, <3>2, <4>3, <4>4 DEF TypeOK, Sector, Installing
    <3>4. RulingSector(flash') = s /\ flash'[s] = todo[1].rec /\ ~IsVirgin(flash')
      <4>1. flash'[s] = todo[1].rec /\ flash'[s] # Blank
        BY <2>0, <2>2, <3>1, <3>3, RecordFacts DEF Records
      <4> QED
        BY <2>2, <3>2, <3>3, <4>1 DEF Installing, IsVirgin, Sector
    <3>5. Ruling(flash') = todo[1].rec
      BY <2>0, <3>3, <3>4, RulingFacts DEF TypeOK, Records
    <3>6. Ruling(flash) = confirmed /\ todo[1].rec.seq >= confirmed.seq
      BY <2>3 DEF Rewriting
    <3> QED
      BY <3>4, <3>5, <3>6
  <2> QED
    BY <2>1, <2>2, <2>4, <2>5 DEF PowerLoss, EraseSector
<1> QED
  BY <1>1, Invariance, PTL DEF Spec, RulingRecordKept
=============================================================================

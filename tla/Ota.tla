--------------------------------- MODULE Ota ---------------------------------
(* Dual-slot firmware selection of src/src/ota.c: two flash sectors each hold *)
(* a selection record (sequence number, slot, state) guarded by a CRC; the    *)
(* valid record with the higher number names the active slot.  Every change   *)
(* is written to the sector of the older record, as an erase followed by a    *)
(* write, and the power can fail between and during the two.                  *)
EXTENDS Naturals, Sequences

CONSTANTS MaxSeq,        \* bound: no operation starts once the sequence number is MaxSeq
          MaxTestBoots   \* OTA_MAX_TEST_BOOTS

ASSUME SeqAssumption == MaxSeq \in Nat \ {0}
ASSUME BootsAssumption == MaxTestBoots \in Nat

OtaSlot == {0, 1}
Sector  == {0, 1}
State   == {"TESTING", "VALID"}
Record  == [seq : Nat \ {0}, slot : OtaSlot, state : State]
Blank   == [seq |-> 0, slot |-> 0, state |-> "BLANK"]   \* fails is_record_valid

(* The slot the CPU executes: mmu_init maps flash page 1, which is Slot 0, on *)
(* every boot and consults no selection record.                               *)
RunningSlot == 0

Other(x) == 1 - x

VARIABLES
  flash,      \* sector -> the record found there, or Blank
  powered,    \* FALSE between a power loss or reset and the next ota_init
  records,    \* s_ota_records and s_record_valid
  active,     \* s_active_slot, s_active_state, s_active_seq
  sector,     \* s_active_sector_idx
  attempts,   \* s_telemetry.boot_attempts
  todo,       \* sector rewrites the running operation still has to do
  erased,     \* the first of them has been erased
  snap,       \* the self-test's ota_snapshot_t: <<>> or <<records>>
  image,      \* slot -> what its flash region holds
  confirmed,  \* history: the selection whose operation last reported OTA_OK
  testBoots,  \* history: boots since the record in state TESTING was installed
  clean       \* history: no flash call has failed, no self-test snapshot was restored

ram  == <<records, active, sector>>
hist == <<confirmed, testBoots>>
vars == <<flash, powered, ram, attempts, todo, erased, snap, image, hist, clean>>
-----------------------------------------------------------------------------
(* ota_select_active_record: the record that rules, and where it is. *)

Factory == [seq |-> 1, slot |-> 0, state |-> "VALID"]

\* mutant: the lower sequence number wins
RulingSector_Oldest(r) ==
  IF r[1] = Blank \/ (r[0] # Blank /\ r[0].seq < r[1].seq) THEN 0 ELSE 1

RulingSector(r) ==
  IF r[1] = Blank \/ (r[0] # Blank /\ r[0].seq >= r[1].seq) THEN 0 ELSE 1

Ruling(r) == IF r[0] = Blank /\ r[1] = Blank THEN Factory ELSE r[RulingSector(r)]

IsVirgin(r) == r[0] = Blank /\ r[1] = Blank

(* A sector still to be rewritten; reselect marks those of the self-test's    *)
(* restore, which looks for the ruling record again when it is through.       *)
Rewrite(s, r, again) == [sector |-> s, rec |-> r, reselect |-> again]

Idle == powered /\ todo = <<>>
-----------------------------------------------------------------------------
Init ==
  /\ flash = [s \in Sector |-> Blank]
  /\ powered = FALSE
  /\ records = [s \in Sector |-> Blank]
  /\ active = Factory
  /\ sector = 0
  /\ attempts = 0
  /\ todo = <<>>
  /\ erased = FALSE
  /\ snap = <<>>
  /\ image = [s \in OtaSlot |-> IF s = 0 THEN "firmware" ELSE "empty"]
  /\ confirmed = Factory
  /\ testBoots = 0
  /\ clean = TRUE

(* Power loss or any reset: RAM is gone, a sector being rewritten stays as    *)
(* the last completed flash step left it (an erase or a write that was cut    *)
(* off leaves a record that fails its CRC, which is Blank).                   *)
PowerLoss ==
  /\ powered
  /\ powered' = FALSE
  /\ flash' \in {flash} \cup
       (IF todo # <<>> THEN {[flash EXCEPT ![Head(todo).sector] = Blank]} ELSE {})
  /\ todo' = <<>>
  /\ erased' = FALSE
  /\ snap' = <<>>
  /\ UNCHANGED <<ram, attempts, image, hist, clean>>

\* mutant: the third sector does not exist
NextSector_NoWrap(s) == s + 1

\* mutant: the new record replaces the ruling one
NextSector_Active(s) == s

NextSector(s) == Other(s)                   \* 1U - s_active_sector_idx

(* What ota_init leaves in RAM, given the records it read; a blank flash gets *)
(* the factory record, a TESTING record that used up its boots is rolled back.*)
Load(r) ==
  /\ active' = Ruling(r)
  /\ sector' = RulingSector(r)
  /\ attempts' = IF Ruling(r).state = "TESTING" THEN 1 ELSE 0
  /\ LET rollback == [seq |-> Ruling(r).seq + 1, slot |-> Other(Ruling(r).slot), state |-> "VALID"]
         target   == NextSector(RulingSector(r))
     IN CASE IsVirgin(r) ->
               /\ records' = [r EXCEPT ![0] = Factory]
               /\ todo' = <<Rewrite(0, Factory, FALSE)>>
          [] Ruling(r).state = "TESTING" /\ attempts' > MaxTestBoots ->
               /\ records' = [r EXCEPT ![target] = rollback]
               /\ todo' = <<Rewrite(target, rollback, FALSE)>>
          [] OTHER ->
               /\ records' = r
               /\ todo' = <<>>

(* A flash call fails, or the self-test rewrites the records.  Bound: one such *)
(* event in a behaviour.                                                      *)
Disturb == clean /\ clean' = FALSE

(* ota_init ignores the result of flash_read: a sector that could not be read *)
(* counts as blank.                                                           *)
ReadBack(lost) == [s \in Sector |-> IF s \in lost THEN Blank ELSE flash[s]]

Lose(lost) == IF lost = {} THEN UNCHANGED clean ELSE Disturb

\* the history counter saturates one above the limit it is compared with
CountBoot == IF testBoots > MaxTestBoots THEN testBoots ELSE testBoots + 1

(* ota_init after a reset. *)
Boot ==
  /\ ~powered
  /\ powered' = TRUE
  /\ \E lost \in SUBSET Sector :
       /\ Lose(lost)
       /\ Load(ReadBack(lost))
  /\ testBoots' = IF active'.state = "TESTING" THEN CountBoot ELSE 0
  /\ confirmed' = active'
  /\ UNCHANGED <<flash, erased, snap, image>>

(* ota_init once more, from the self-test. *)
ReInit ==
  /\ Idle
  /\ \E lost \in SUBSET Sector :
       /\ Lose(lost)
       /\ Load(ReadBack(lost))
  /\ confirmed' = active'
  /\ UNCHANGED <<flash, powered, erased, snap, image, testBoots>>
-----------------------------------------------------------------------------
(* write_select_record, in the steps the flash takes.  Its RAM part comes     *)
(* first; the operation's remaining RAM updates come when it returns, and it  *)
(* returns OTA_OK also when the erase or the write failed.                    *)

\* mutant: the copy in RAM is forgotten
Install_FlashOnly(r) ==
  /\ todo' = <<Rewrite(NextSector(sector), r, FALSE)>>
  /\ erased' = FALSE
  /\ UNCHANGED records

Install(r) ==
  /\ records' = [records EXCEPT ![NextSector(sector)] = r]
  /\ todo' = <<Rewrite(NextSector(sector), r, FALSE)>>
  /\ erased' = FALSE

(* After the last rewrite the record just written is the active one, or, in   *)
(* ota_snapshot_restore, the one ota_select_active_record finds.              *)
Complete ==
  IF Len(todo) = 1
  THEN /\ IF todo[1].reselect
          THEN active' = Ruling(records) /\ sector' = RulingSector(records)
          ELSE active' = todo[1].rec /\ sector' = todo[1].sector
       /\ confirmed' = active'
       /\ testBoots' = IF active' = active THEN testBoots ELSE 0
       /\ UNCHANGED records
  ELSE UNCHANGED <<ram, hist>>

EraseSector ==
  /\ powered
  /\ todo # <<>>
  /\ ~erased
  /\ flash' = [flash EXCEPT ![Head(todo).sector] = Blank]
  /\ IF Head(todo).rec = Blank
     THEN Complete /\ todo' = Tail(todo) /\ erased' = FALSE
     ELSE UNCHANGED <<ram, hist, todo>> /\ erased' = TRUE
  /\ UNCHANGED <<powered, attempts, snap, image, clean>>

WriteSector ==
  /\ powered
  /\ todo # <<>>
  /\ erased
  /\ flash' = [flash EXCEPT ![Head(todo).sector] = Head(todo).rec]
  /\ Complete
  /\ todo' = Tail(todo)
  /\ erased' = FALSE
  /\ UNCHANGED <<powered, attempts, snap, image, clean>>

(* An erase that reports an error skips the write; the sector keeps its old   *)
(* content or is damaged.  A failed write leaves a damaged record.            *)
FailSector ==
  /\ Disturb
  /\ powered
  /\ todo # <<>>
  /\ \/ ~erased /\ flash' = flash
     \/ flash' = [flash EXCEPT ![Head(todo).sector] = Blank]
  /\ Complete
  /\ todo' = Tail(todo)
  /\ erased' = FALSE
  /\ UNCHANGED <<powered, attempts, snap, image>>
-----------------------------------------------------------------------------
CanWrite == Idle /\ active.seq < MaxSeq

SwitchSlot ==
  /\ CanWrite
  /\ Install([seq |-> active.seq + 1, slot |-> Other(active.slot), state |-> "TESTING"])
  /\ UNCHANGED <<flash, powered, active, sector, attempts, snap, image, hist, clean>>

MarkValid ==
  /\ CanWrite
  /\ active.state # "VALID"
  /\ Install([seq |-> active.seq + 1, slot |-> active.slot, state |-> "VALID"])
  /\ UNCHANGED <<flash, powered, active, sector, attempts, snap, image, hist, clean>>

Rollback ==
  /\ CanWrite
  /\ Install([seq |-> active.seq + 1, slot |-> Other(active.slot), state |-> "VALID"])
  /\ UNCHANGED <<flash, powered, active, sector, attempts, snap, image, hist, clean>>

(* ota_erase_slot and ota_write_chunk: refused for the active slot. *)
EraseSlot(s) ==
  /\ Idle
  /\ s # active.slot
  /\ image' = [image EXCEPT ![s] = "empty"]
  /\ UNCHANGED <<flash, powered, ram, attempts, todo, erased, snap, hist, clean>>

WriteSlot(s) ==
  /\ Idle
  /\ s # active.slot
  /\ image' = [image EXCEPT ![s] = "upgrade"]
  /\ UNCHANGED <<flash, powered, ram, attempts, todo, erased, snap, hist, clean>>

SnapshotSave ==
  /\ Idle
  /\ snap' = <<records>>
  /\ UNCHANGED <<flash, powered, ram, attempts, todo, erased, image, hist, clean>>

(* ota_snapshot_restore: the sectors that differ, sector 0 first. *)
SnapshotRestore ==
  /\ Idle
  /\ Disturb
  /\ snap # <<>>
  /\ LET saved   == snap[1]
         Part(s) == IF saved[s] = records[s] THEN <<>> ELSE <<Rewrite(s, saved[s], TRUE)>>
     IN /\ todo' = Part(0) \o Part(1)
        /\ todo' # <<>>
        /\ records' = saved
  /\ erased' = FALSE
  /\ UNCHANGED <<flash, powered, active, sector, attempts, snap, image, hist>>

Next ==
  \/ PowerLoss \/ Boot \/ ReInit
  \/ EraseSector \/ WriteSector \/ FailSector
  \/ SwitchSlot \/ MarkValid \/ Rollback
  \/ \E s \in OtaSlot : EraseSlot(s)
  \/ \E s \in OtaSlot : WriteSlot(s)
  \/ SnapshotSave \/ SnapshotRestore

Spec == Init /\ [][Next]_vars
-----------------------------------------------------------------------------
TypeOK ==
  /\ flash \in [Sector -> Record \cup {Blank}]
  /\ records \in [Sector -> Record \cup {Blank}]
  /\ {powered, erased, clean} \subseteq BOOLEAN
  /\ active \in Record /\ sector \in Sector
  /\ attempts \in {0, 1}
  /\ todo \in Seq([sector : Sector, rec : Record \cup {Blank}, reselect : BOOLEAN]) /\ Len(todo) <= 2
  /\ snap = <<>> \/ (Len(snap) = 1 /\ snap[1] \in [Sector -> Record \cup {Blank}])
  /\ image \in [OtaSlot -> {"firmware", "upgrade", "empty"}]
  /\ confirmed \in Record /\ testBoots \in 0 .. MaxTestBoots + 1

(* While the flash has been sound, what a reset at this instant selects is    *)
(* the selection last confirmed to the caller or the one the running          *)
(* operation is writing, wherever between the erase and the write of          *)
(* write_select_record the power fails.                                       *)
SelectionSurvives == clean => Ruling(flash) \in {confirmed, Ruling(records)}

(* Between operations the RAM state is what a reset would bring back: a call  *)
(* that returned OTA_OK has taken effect for good.                            *)
ReportedIsDurable ==
  (clean /\ Idle) => active = Ruling(flash) /\ sector = RulingSector(flash)

(* Once a record has been written there is a valid one at every instant, and  *)
(* the ruling sequence number never goes back: each change erases the older   *)
(* of the two records, never the one that rules.                              *)
RulingRecordKept ==
  [][clean' => /\ ~IsVirgin(flash) => ~IsVirgin(flash')
               /\ Ruling(flash').seq >= Ruling(flash).seq]_flash

(* Whatever the flash did, between operations the cached active slot, state   *)
(* and number are those of the cached record in the cached sector.            *)
CacheCoherent == Idle => records[sector] = active /\ Ruling(records) = active

(* The comment at ota_init: a slot in state TESTING is rolled back once it    *)
(* has been booted OTA_MAX_TEST_BOOTS times without ota_mark_valid.           *)
AutoRollback == (Idle /\ active.state = "TESTING") => testBoots <= MaxTestBoots

(* The comment at ota_write_chunk: the running slot is never written.         *)
RunningSlotUntouched == image[RunningSlot] = "firmware"
=============================================================================

--------------------------------- MODULE Nvs ---------------------------------
(* The key-value store of src/src/nvs.c.  A RAM copy answers every read and   *)
(* takes every change; the whole copy is rewritten to one flash sector by     *)
(* nvs_commit, which the main loop calls through nvs_tick once the commit     *)
(* gate is open or the change has waited NVS_COMMIT_MAX_HOLD_US.  The sector  *)
(* is erased, then the header, then the entries are programmed; the power may *)
(* fail or a flash call report an error at each of these steps.               *)
EXTENDS Naturals, Sequences, FiniteSets

CONSTANTS Key,         \* key strings, other than boot_count
          BootKey,     \* "boot_count"
          NoKey,       \* what an unprogrammed entry holds
          MaxVal,      \* bound: values, and boot_count, are below MaxVal + 1
          MaxEntries,  \* NVS_MAX_ENTRIES
          MaxHold      \* NVS_COMMIT_MAX_HOLD_US, in calls of nvs_tick

ASSUME KeyAssumption == BootKey \notin Key /\ NoKey \notin Key \cup {BootKey}
ASSUME BoundAssumption == {MaxVal, MaxEntries, MaxHold} \subseteq Nat \ {0}

AnyKey == Key \cup {BootKey}
Val    == 0 .. MaxVal
Unset  == MaxVal + 1                 \* the crc32 field of an unprogrammed entry
Sum    == Val \cup {Unset}

(* nvs_entry_t: sum is the value its crc32 field was computed for, so that    *)
(* the entry passes its check exactly when sum = val.                         *)
Entry  == [key : AnyKey \cup {NoKey}, val : Val, sum : Sum]
Image  == UNION {[1 .. n -> Entry] : n \in 0 .. MaxEntries}

Good(e)     == e.key # NoKey /\ e.sum = e.val
NewEntry(k, v) == [key |-> k, val |-> v, sum |-> v]
Torn        == [key |-> NoKey, val |-> 0, sum |-> Unset]

NoHeader == MaxEntries + 1           \* an erased sector, or a header that fails its CRC
Unknown  == <<>>                     \* s_flash_crc after a failed erase

VARIABLES
  header,    \* entry_count of a valid sector header, or NoHeader
  slots,     \* the entries behind the header
  up,        \* FALSE between a power loss and the next nvs_init
  cache,     \* s_nvs_cache up to s_active_entries_count
  flash_crc, \* s_flash_crc: the cache image believed to be in the sector
  dirty,     \* s_dirty
  held,      \* now_us - s_dirty_since_us; MaxHold + 1 while ~s_dirty_seen
  pc,        \* where flush_cache_to_flash is
  booting,   \* the running flush belongs to nvs_init
  snap,      \* the self-test's nvs_snapshot_t: <<>> or <<entries>>
  clean,     \* history: no flash call has failed and no stored bit has decayed
  written    \* history: the image whose flush last erased the sector

sector == <<header, slots>>
ram    == <<cache, flash_crc, dirty, held>>
hist   == <<clean, written>>
vars   == <<sector, up, ram, pc, booting, snap, hist>>

Unseen == MaxHold + 1                \* ~s_dirty_seen
Idle   == up /\ pc = "idle"
-----------------------------------------------------------------------------
\* mutant: the entry's own CRC cancels out, as the comment in the code warns
CacheImageCrc_Residue(c) == <<[i \in 1 .. Len(c) |-> <<c[i].key, 0>>]>>

(* cache_image_crc: the count and the CRC fields of the entries, in order. *)
CacheImageCrc(c) == <<[i \in 1 .. Len(c) |-> <<c[i].key, c[i].sum>>]>>

\* mutant: the search starts one entry late
FindKeyIndex_Skips(c, k) == {i \in 2 .. Len(c) : c[i].key = k}

(* find_key_index: the active entries of this key; the code takes the first.  *)
FindKeyIndex(c, k) == {i \in 1 .. Len(c) : c[i].key = k}

First(S) == CHOOSE i \in S : \A j \in S : i <= j

(* The store after one of nvs_set_blob, nvs_set_u32 and nvs_set_str. *)
SetIn(c, k, v) ==
  LET found == FindKeyIndex(c, k)
  IN IF found # {} THEN [c EXCEPT ![First(found)] = NewEntry(k, v)]
     ELSE Append(c, NewEntry(k, v))

\* mutant: the limit is not tested
CanSet_Unbounded(c, k) == FindKeyIndex(c, k) # {} \/ Len(c) <= MaxEntries

CanSet(c, k) == FindKeyIndex(c, k) # {} \/ Len(c) < MaxEntries    \* else NVS_ERR_FULL

\* mutant: every entry the header counts is active
Loaded_Unchecked(h, s) == IF h = NoHeader THEN <<>> ELSE SubSeq(s, 1, h)

(* The entries nvs_init makes active: as many as pass their check, counted    *)
(* over the whole sector but taken from its front.                            *)
Loaded(h, s) ==
  IF h = NoHeader THEN <<>>
  ELSE SubSeq(s, 1, Cardinality({i \in 1 .. h : Good(s[i])}))
-----------------------------------------------------------------------------
Init ==
  /\ header = NoHeader /\ slots = <<>>
  /\ up = FALSE /\ pc = "idle" /\ booting = FALSE
  /\ cache = <<>> /\ flash_crc = Unknown
  /\ dirty = FALSE /\ held = Unseen
  /\ snap = <<>>
  /\ clean = TRUE /\ written = <<>>

(* A flash call fails or a stored bit decays: the histories end here.  Bound: *)
(* one fault in a behaviour.                                                  *)
Fault == clean /\ clean' = FALSE /\ written' = <<>>

(* flush_cache_to_flash begins: its RAM results are the same whatever the     *)
(* flash does, except that a failed erase leaves s_flash_crc unknown.         *)
BeginFlush(c) ==
  /\ pc' = "erase"
  /\ flash_crc' = CacheImageCrc(c)
  /\ dirty' = FALSE /\ held' = Unseen

(* The end of nvs_init: boot_count is incremented and stored, which makes     *)
(* every boot a pending change, unless the store is full of other keys.       *)
CountBoot(c) ==
  LET found == FindKeyIndex(c, BootKey)
      old   == IF found = {} THEN 0 ELSE c[First(found)].val
  IN IF CanSet(c, BootKey)
     THEN cache' = SetIn(c, BootKey, (old + 1) % (MaxVal + 1)) /\ dirty' = TRUE
     ELSE cache' = c /\ dirty' = FALSE

(* nvs_init after a reset, h and s being what flash_read returned. *)
Load(h, s) ==
  IF h = NoHeader
  THEN /\ cache' = <<>> /\ booting' = TRUE
       /\ BeginFlush(<<>>)
  ELSE /\ CountBoot(Loaded(h, s)) /\ booting' = FALSE
       /\ flash_crc' = CacheImageCrc(Loaded(h, s))
       /\ held' = Unseen
       /\ UNCHANGED pc

Boot ==
  /\ ~up
  /\ up' = TRUE
  /\ Load(header, slots)
  /\ UNCHANGED <<sector, snap, hist>>

(* A flash_read that fails: the header counts as virgin flash, the entries as *)
(* none.                                                                      *)
BootReadFails ==
  /\ ~up
  /\ up' = TRUE
  /\ Fault
  /\ Load(NoHeader, <<>>) \/ (header \notin {0, NoHeader} /\ Load(0, <<>>))
  /\ UNCHANGED <<sector, snap>>

(* nvs_init once more, from the self-test.  A pending change is written first *)
(* (Commit), so that this step finds none.                                    *)
ReInit ==
  /\ Idle
  /\ ~dirty
  /\ Load(header, slots)
  /\ UNCHANGED <<sector, up, snap, hist>>

Set(k, v) ==
  /\ Idle
  /\ CanSet(cache, k)
  /\ cache' = SetIn(cache, k, v)
  /\ dirty' = TRUE
  /\ UNCHANGED <<sector, up, flash_crc, held, pc, booting, snap, hist>>

EraseKey(k) ==
  /\ Idle
  /\ FindKeyIndex(cache, k) # {}
  /\ LET i == First(FindKeyIndex(cache, k))
     IN cache' = SubSeq(cache, 1, i - 1) \o SubSeq(cache, i + 1, Len(cache))
  /\ dirty' = TRUE
  /\ UNCHANGED <<sector, up, flash_crc, held, pc, booting, snap, hist>>

EraseAll ==
  /\ Idle
  /\ cache' = <<>>
  /\ BeginFlush(<<>>)
  /\ UNCHANGED <<sector, up, booting, snap, hist>>

SnapshotSave ==
  /\ Idle
  /\ snap' = <<cache>>
  /\ UNCHANGED <<sector, up, ram, pc, booting, hist>>

(* nvs_snapshot_restore: nothing to do when nvs_snapshot_matches. *)
SnapshotRestore ==
  /\ Idle
  /\ snap # <<>>
  /\ cache # snap[1]
  /\ cache' = snap[1]
  /\ BeginFlush(snap[1])
  /\ UNCHANGED <<sector, up, booting, snap, hist>>

(* nvs_commit: skipped when the sector is believed to hold this very image.   *)
CommitBody ==
  IF CacheImageCrc(cache) = flash_crc
  THEN /\ dirty' = FALSE /\ held' = Unseen
       /\ UNCHANGED <<flash_crc, pc>>
  ELSE BeginFlush(cache)

Commit ==
  /\ Idle
  /\ dirty
  /\ CommitBody
  /\ UNCHANGED <<sector, up, cache, booting, snap, hist>>

\* mutant: a refused commit restarts the waiting time
Tick_Restarts(busy) ==
  /\ Idle
  /\ dirty
  /\ IF busy
     THEN /\ held' = IF held = Unseen THEN 0 ELSE Unseen
          /\ UNCHANGED <<flash_crc, dirty, pc>>
     ELSE CommitBody
  /\ UNCHANGED <<sector, up, cache, booting, snap, hist>>

(* nvs_tick with the gate open or busy.  A busy gate only ages the change     *)
(* until it has waited long enough.                                           *)
Tick(busy) ==
  /\ Idle
  /\ dirty
  /\ LET held_us == IF held = Unseen THEN 0 ELSE held
     IN IF busy /\ held_us < MaxHold
        THEN held' = held_us + 1 /\ UNCHANGED <<flash_crc, dirty, pc>>
        ELSE CommitBody
  /\ UNCHANGED <<sector, up, cache, booting, snap, hist>>
-----------------------------------------------------------------------------
(* flush_cache_to_flash, one action per flash call. *)

(* The return: nvs_init goes on to count the boot, other callers are done. *)
Finish ==
  /\ pc' = "idle"
  /\ booting' = FALSE
  /\ IF booting THEN CountBoot(cache) ELSE UNCHANGED <<cache, dirty>>

EraseSector ==
  /\ pc = "erase"
  /\ header' = NoHeader /\ slots' = <<>>
  /\ pc' = "header"
  /\ written' = IF clean THEN cache ELSE <<>>
  /\ UNCHANGED <<up, ram, booting, snap, clean>>

(* A failed erase leaves the sector as it was or unreadable, and nothing is   *)
(* written; the caller is told NVS_OK all the same.                           *)
EraseFails ==
  /\ pc = "erase"
  /\ Fault
  /\ \/ UNCHANGED sector
     \/ header' = NoHeader /\ slots' = <<>>
  /\ Finish
  /\ flash_crc' = Unknown
  /\ UNCHANGED <<up, held, snap>>

WriteHeader ==
  /\ pc = "header"
  /\ header' = Len(cache)
  /\ slots' = [i \in 1 .. Len(cache) |-> Torn]
  /\ IF cache = <<>> THEN Finish ELSE pc' = "entries" /\ UNCHANGED <<cache, dirty, booting>>
  /\ UNCHANGED <<up, flash_crc, held, snap, hist>>

(* The result of the header write is ignored: the entries follow. *)
WriteHeaderFails ==
  /\ pc = "header"
  /\ Fault
  /\ IF cache = <<>> THEN Finish ELSE pc' = "entries" /\ UNCHANGED <<cache, dirty, booting>>
  /\ UNCHANGED <<sector, up, flash_crc, held, snap>>

(* The first n entries have been programmed, the others not. *)
Programmed(n) == [i \in 1 .. Len(cache) |-> IF i <= n THEN cache[i] ELSE Torn]

WriteEntries ==
  /\ pc = "entries"
  /\ slots' = IF header = NoHeader THEN <<>> ELSE Programmed(Len(cache))
  /\ Finish
  /\ UNCHANGED <<header, up, flash_crc, held, snap, hist>>

(* flash_rom_write gives up at the first chunk that fails; ignored. *)
WriteEntriesFails ==
  /\ pc = "entries"
  /\ Fault
  /\ \E n \in 0 .. Len(cache) - 1 :
       slots' = IF header = NoHeader THEN <<>> ELSE Programmed(n)
  /\ Finish
  /\ UNCHANGED <<header, up, flash_crc, held, snap>>
-----------------------------------------------------------------------------
(* The power fails, or the chip resets, at any instant: the flash call under  *)
(* way has been done, in part or not at all.                                  *)
PowerLoss ==
  /\ up
  /\ up' = FALSE
  /\ \/ UNCHANGED sector
     \/ pc = "erase" /\ header' = NoHeader /\ slots' = <<>>
     \/ /\ pc = "entries" /\ header # NoHeader
        /\ \E n \in 0 .. Len(cache) : slots' = Programmed(n)
        /\ UNCHANGED header
  /\ pc' = "idle" /\ booting' = FALSE
  /\ cache' = <<>> /\ flash_crc' = Unknown
  /\ dirty' = FALSE /\ held' = Unseen
  /\ snap' = <<>>
  /\ UNCHANGED hist

(* A stored value loses a bit: what the entries' CRC is there to detect. *)
Decay ==
  /\ header # NoHeader
  /\ \E i \in 1 .. header : \E v \in Val \ {slots[i].val} : slots' = [slots EXCEPT ![i].val = v]
  /\ Fault
  /\ UNCHANGED <<header, up, ram, pc, booting, snap>>

FlushStep == EraseSector \/ WriteHeader \/ WriteEntries

Next ==
  \/ Boot \/ BootReadFails \/ ReInit
  \/ \E k \in Key, v \in Val : Set(k, v)
  \/ \E k \in AnyKey : EraseKey(k)
  \/ EraseAll \/ SnapshotSave \/ SnapshotRestore \/ Commit
  \/ \E busy \in BOOLEAN : Tick(busy)
  \/ FlushStep \/ EraseFails \/ WriteHeaderFails \/ WriteEntriesFails
  \/ PowerLoss \/ Decay

(* The main loop calls nvs_tick on every turn, and a flash call that has been *)
(* begun ends.  Nothing is assumed of the gate.                               *)
Fairness ==
  /\ WF_vars(\E busy \in BOOLEAN : Tick(busy))
  /\ WF_vars(FlushStep)

Spec == Init /\ [][Next]_vars /\ Fairness
-----------------------------------------------------------------------------
TypeOK ==
  /\ header \in 0 .. NoHeader
  /\ slots \in Image /\ cache \in Image /\ written \in Image
  /\ header # NoHeader => Len(slots) = header
  /\ up \in BOOLEAN /\ dirty \in BOOLEAN /\ clean \in BOOLEAN /\ booting \in BOOLEAN
  /\ held \in 0 .. Unseen
  /\ pc \in {"idle", "erase", "header", "entries"}
  /\ \/ flash_crc = Unknown
     \/ \E n \in 0 .. MaxEntries : flash_crc[1] \in [1 .. n -> (AnyKey \cup {NoKey}) \X Sum]
  /\ snap = <<>> \/ (Len(snap) = 1 /\ snap[1] \in Image)

(* A key has at most one active entry, after any order of sets, erases,       *)
(* reloads and faults: no stale value hides behind the one that is found.     *)
OneEntryPerKey ==
  \A i, j \in 1 .. Len(cache) : cache[i].key = cache[j].key => i = j

(* While the flash has been sound and nothing is pending, a reset at this     *)
(* instant brings back exactly what reads return now: a commit that was       *)
(* skipped because of the CRCs of the entries lost nothing.                   *)
CommittedIsStored ==
  (clean /\ Idle /\ ~dirty) => Loaded(header, slots) = cache

(* While the flash has been sound, what a reset finds is the front part of    *)
(* the image written last, never a mixture of two: the keys a power loss      *)
(* drops are the ones added last, the others keep their values.               *)
CrashLeavesPrefix ==
  clean =>
    LET found == Loaded(header, slots)
    IN Len(found) <= Len(written) /\ found = SubSeq(written, 1, Len(found))

(* A change does not wait for ever, whatever the gate does: it is written, or *)
(* a reset drops it.                                                          *)
PendingIsCommitted == dirty ~> ~dirty

(* nvs.h, "CRC32-verified key-value storage": what a read returns has passed  *)
(* its check.                                                                 *)
ReadsAreVerified == Idle => \A i \in 1 .. Len(cache) : Good(cache[i])
=============================================================================

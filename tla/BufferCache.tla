---------------------------- MODULE BufferCache ----------------------------
(***************************************************************************)
(* The sector cache, munux-os/kernel/rust/munux-rs/src/bcache.rs, over the *)
(* ATA driver, munux-os/kernel/drivers/disk.c.                             *)
(*                                                                         *)
(* The content of a sector is the number of the write it comes from, 0     *)
(* being what the disk held at boot; ZEROS is the buffer read_sector()     *)
(* prepares and a failed read leaves.  read_sector() holds the cache's     *)
(* IrqMutex across the disk access and is one step.  write_sector() writes *)
(* the disk before it takes the lock: other calls can come in between.     *)
(***************************************************************************)
EXTENDS Integers, FiniteSets

CONSTANTS
    Sectors,        \* LBAs
    Writers,        \* the threads that call write_sector()
    MAX_ENTRIES,    \* 256
    MAX_WRITES,     \* bound: writes of one sector
    ReadOutcomes,   \* what ATA reads do: "ok", or "error" (ERR or timeout)
    WriteOutcomes   \* what ATA writes do: "ok", or "lost"

ASSUME BufferCacheAssumption ==
    /\ Sectors \subseteq Nat
    /\ MAX_ENTRIES \in Nat \ {0}
    /\ MAX_WRITES \in Nat
    /\ ReadOutcomes \subseteq {"ok", "error"}
    /\ WriteOutcomes \subseteq {"ok", "lost"}

VARIABLES
    disk,       \* the content of each sector on the disk
    cache,      \* Cache.map: the content of each cached sector
    writing,    \* per writer: the write it is in the middle of, or none
    latest,     \* the last write of each sector that was begun
    seen        \* the newest content of each sector a read has returned

cacheVars == <<disk, cache, writing, latest, seen>>

ZEROS == -1
NoWrite == [lba |-> -1, data |-> 0]

-----------------------------------------------------------------------------

Cached == DOMAIN cache
Put(map, lba, data) == [s \in DOMAIN map \cup {lba} |-> IF s = lba THEN data ELSE map[s]]
WithoutSector(map, lba) == [s \in DOMAIN map \ {lba} |-> map[s]]

\* keys().next() of a BTreeMap: the lowest key.
victim(map) == CHOOSE s \in DOMAIN map : \A t \in DOMAIN map : s <= t

\* Mutant: nothing is evicted.
Evicted_nothing(map) == map

\* read_sector() makes room for one entry when the cache is full.
Evicted(map) ==
    IF Cardinality(DOMAIN map) >= MAX_ENTRIES THEN WithoutSector(map, victim(map)) ELSE map

\* disk_read_sector(): on ERR or a timeout the buffer is left alone.
disk_read_sector(lba, outcome) == IF outcome = "ok" THEN disk[lba] ELSE ZEROS

CacheInit ==
    /\ disk = [s \in Sectors |-> 0]
    /\ cache = [s \in {} |-> 0]
    /\ writing = [w \in Writers |-> NoWrite]
    /\ latest = [s \in Sectors |-> 0]
    /\ seen = [s \in Sectors |-> 0]

Returned(lba, data) ==
    seen' = [seen EXCEPT ![lba] = IF data > @ THEN data ELSE @]

\* read_sector() finds the sector in the cache.
read_hit(lba) ==
    /\ lba \in Cached
    /\ Returned(lba, cache[lba])
    /\ UNCHANGED <<disk, cache, writing, latest>>

\* read_sector() does not: the block is read, whatever the driver returned,
\* put in the cache and handed out.
read_miss(lba, outcome) ==
    LET block == disk_read_sector(lba, outcome)
    IN  /\ lba \notin Cached
        /\ cache' = Put(Evicted(cache), lba, block)
        /\ Returned(lba, block)
        /\ UNCHANGED <<disk, writing, latest>>

\* Mutant: write-back, with nothing written when the sector is evicted.
write_disk_later(w, lba, outcome) ==
    LET data == latest[lba] + 1
    IN  /\ writing[w] = NoWrite
        /\ data <= MAX_WRITES
        /\ latest' = [latest EXCEPT ![lba] = data]
        /\ writing' = [writing EXCEPT ![w] = [lba |-> lba, data |-> data]]
        /\ UNCHANGED <<disk, cache, seen>>

\* write_sector(), first half: disk_write_sector() returns 0 in any case.
write_disk(w, lba, outcome) ==
    LET data == latest[lba] + 1
    IN  /\ writing[w] = NoWrite
        /\ data <= MAX_WRITES
        /\ latest' = [latest EXCEPT ![lba] = data]
        /\ disk' = IF outcome = "ok" THEN [disk EXCEPT ![lba] = data] ELSE disk
        /\ writing' = [writing EXCEPT ![w] = [lba |-> lba, data |-> data]]
        /\ UNCHANGED <<cache, seen>>

\* Mutant: a write leaves the cache as it is.
write_cache_skipped(w) ==
    /\ writing[w] # NoWrite
    /\ writing' = [writing EXCEPT ![w] = NoWrite]
    /\ UNCHANGED <<disk, cache, latest, seen>>

\* write_sector(), second half: the cache, under its lock, with no eviction.
write_cache(w) ==
    /\ writing[w] # NoWrite
    /\ cache' = Put(cache, writing[w].lba, writing[w].data)
    /\ writing' = [writing EXCEPT ![w] = NoWrite]
    /\ UNCHANGED <<disk, latest, seen>>

CacheNext ==
    \/ \E lba \in Sectors :
          \/ read_hit(lba)
          \/ \E outcome \in ReadOutcomes : read_miss(lba, outcome)
          \/ \E w \in Writers, outcome \in WriteOutcomes : write_disk(w, lba, outcome)
    \/ \E w \in Writers : write_cache(w)

CacheSpec == CacheInit /\ [][CacheNext]_cacheVars

-----------------------------------------------------------------------------
(* Properties                                                              *)

CacheTypeOK ==
    /\ disk \in [Sectors -> 0 .. MAX_WRITES]
    /\ Cached \subseteq Sectors
    /\ \A s \in Cached : cache[s] \in ZEROS .. MAX_WRITES
    /\ writing \in [Writers -> [lba : Sectors, data : 1 .. MAX_WRITES] \cup {NoWrite}]
    /\ latest \in [Sectors -> 0 .. MAX_WRITES]
    /\ seen \in [Sectors -> 0 .. MAX_WRITES]

Quiet(s) == \A w \in Writers : writing[w].lba # s

\* "Escritas sao write-through (disco + cache)": when no write of a sector is
\* under way, the cache holds what the disk holds, whatever reads, writes and
\* evictions came before.
WriteThrough == \A s \in Cached : Quiet(s) => cache[s] = disk[s]

\* The cache holds sectors of the disk only, each with the disk's content.
CacheIsSound == CacheTypeOK /\ WriteThrough

\* What a read of s would return now.
Value(s) == IF s \in Cached THEN cache[s] ELSE disk[s]

\* Reads of a sector never go back in time: once a read has returned a write,
\* even one that is still between the disk and the cache, no later read
\* returns an older content.
ReadsNeverGoBack == \A s \in Sectors : Value(s) >= seen[s]

\* Writes can take the cache over MAX_ENTRIES; a read never makes that worse.
ReadsKeepTheBound ==
    [][\A lba \in Sectors, outcome \in ReadOutcomes :
          read_miss(lba, outcome) =>
              \/ Cardinality(DOMAIN cache') <= MAX_ENTRIES
              \/ Cardinality(DOMAIN cache') <= Cardinality(DOMAIN cache)]_cacheVars

\* bcache.rs calls MAX_ENTRIES "teto de setores em cache".
CacheIsBounded == Cardinality(Cached) <= MAX_ENTRIES

\* API.md says of disk_write_sector "Retorna 0 em caso de sucesso": a write that
\* has been reported as done is on the disk.
ReportedIsWritten == \A s \in Sectors : Quiet(s) => disk[s] = latest[s]

\* "em miss, buscam no disco e inserem": nothing but the disk's content of a
\* sector gets into the cache.
CachedWasOnDisk == \A s \in Cached : cache[s] # ZEROS
=============================================================================

--------------------------- MODULE DebuggerProofs ---------------------------
(* The debugger's instruments, for every value of their constants: the page  *)
(* flags of a watched address space, the watchpoint set with its queue of    *)
(* hits, and the hang detector.                                              *)
EXTENDS AddressSpace, Watchpoints, HangDetector, ArithmeticLemmas,
        FiniteSetTheorems, SequenceTheorems

-----------------------------------------------------------------------------
(* The memory map.  For every set of pages, declarations, bank switches and  *)
(* watched addresses the filter of the watchpoints is exact, and a board     *)
(* that declares writable what its program writes loses nothing in a save.   *)
(* How a map is built plays no part in either.  Where its pages lead does,   *)
(* in the third result, through what the assumptions say of new maps.        *)

Flagged(table) == {p \in Pages : table[p] # {}}

(* A page that gets a flag is one more flagged page, or was one before.      *)
LEMMA FlaggedGrows ==
  ASSUME NEW before \in [Pages -> SUBSET AccessKinds],
         NEW after \in [Pages -> SUBSET AccessKinds], NEW q \in Pages,
         \A p \in Pages \ {q} : after[p] = before[p], after[q] # {}
  PROVE  Cardinality(Flagged(after)) =
           IF before[q] = {} THEN Cardinality(Flagged(before)) + 1
                             ELSE Cardinality(Flagged(before))
<1>1. IsFiniteSet(Flagged(before))
  BY PagesAssumption, FS_Subset DEF Flagged
<1>2. Flagged(after) = Flagged(before) \cup {q}
  BY DEF Flagged
<1>3. q \in Flagged(before) <=> before[q] # {}
  BY DEF Flagged
<1> QED BY <1>1, <1>2, <1>3, FS_AddElement

(* The same for a page that loses flags.                                     *)
LEMMA FlaggedShrinks ==
  ASSUME NEW before \in [Pages -> SUBSET AccessKinds],
         NEW after \in [Pages -> SUBSET AccessKinds], NEW q \in Pages,
         \A p \in Pages \ {q} : after[p] = before[p], after[q] \subseteq before[q]
  PROVE  Cardinality(Flagged(after)) =
           IF before[q] # {} /\ after[q] = {} /\ Cardinality(Flagged(before)) > 0
             THEN Cardinality(Flagged(before)) - 1
             ELSE Cardinality(Flagged(before))
<1>1. IsFiniteSet(Flagged(before)) /\ Cardinality(Flagged(before)) \in Nat
  BY PagesAssumption, FS_Subset, FS_CardinalityType DEF Flagged
<1>2. CASE before[q] # {} /\ after[q] = {}
  <2>1. q \in Flagged(before) /\ Flagged(after) = Flagged(before) \ {q}
    BY <1>2 DEF Flagged
  <2>2. Cardinality(Flagged(before)) # 0
    BY <1>1, <2>1, FS_EmptySet
  <2>3. Cardinality(Flagged(after)) = Cardinality(Flagged(before)) - 1
    BY <1>1, <2>1, FS_RemoveElement
  <2>4. Cardinality(Flagged(before)) > 0
    BY <1>1, <2>2
  <2> QED BY <1>2, <2>3, <2>4
<1>3. CASE ~ (before[q] # {} /\ after[q] = {})
  <2>1. Flagged(after) = Flagged(before)
    BY <1>3 DEF Flagged
  <2> QED BY <1>3, <2>1
<1> QED BY <1>2, <1>3

(* Inductive: the filter and the types its steps rest on.                    *)
FilterInv ==
  /\ flags \in [Pages -> SUBSET AccessKinds]
  /\ watched_set \subseteq [addr : Watchable, kind : AccessKinds]
  /\ FilterExact

(* It holds on wherever the debugger's state is untouched.                   *)
LEMMA FilterUntouched ==
  ASSUME FilterInv, UNCHANGED debugState
  PROVE  FilterInv'
BY DEF FilterInv, FilterExact, Needed, debugState

(* It holds with nothing watched, before a step or after it.                 *)
LEMMA FilterEmpty ==
  ASSUME flags = [p \in Pages |-> {}], active_watch_count = 0, watched_set = {}
  PROVE  FilterInv
<1>1. {p \in Pages : flags[p] # {}} = {}
  OBVIOUS
<1>2. active_watch_count = Cardinality({p \in Pages : flags[p] # {}})
  BY <1>1, FS_EmptySet
<1> QED BY <1>2 DEF FilterInv, FilterExact, Needed

(* After a step too.                                                         *)
LEMMA FilterCleared ==
  ASSUME flags' = [p \in Pages |-> {}], active_watch_count' = 0, watched_set' = {}
  PROVE  FilterInv'
<1>1. {p \in Pages : flags'[p] # {}} = {}
  OBVIOUS
<1>2. active_watch_count' = Cardinality({p \in Pages : flags'[p] # {}})
  BY <1>1, FS_EmptySet
<1> QED BY <1>2 DEF FilterInv, FilterExact, Needed

(* One address comes under watch.                                            *)
LEMMA FilterSet ==
  ASSUME FilterInv, NEW addr \in Watchable, NEW kind \in AccessKinds,
         set_watchpoint_cond(addr, kind)
  PROVE  FilterInv'
<1> DEFINE q == addr[1]
<1>1. q \in Pages
  BY WatchableAssumption
<1>2. flags' \in [Pages -> SUBSET AccessKinds] /\ flags'[q] = flags[q] \cup {kind}
      /\ \A p \in Pages \ {q} : flags'[p] = flags[p]
  BY <1>1 DEF FilterInv, set_watchpoint_cond
<1>3. watched_set' = watched_set \cup {Entry(addr, kind)}
  BY DEF set_watchpoint_cond
<1>4. \A p \in Pages, k \in AccessKinds : k \in flags'[p] <=> Needed(p, k, watched_set')
  <2> TAKE p \in Pages, k \in AccessKinds
  <2>1. k \in flags[p] <=> Needed(p, k, watched_set)
    BY DEF FilterInv, FilterExact
  <2>2. Needed(p, k, watched_set') <=> Needed(p, k, watched_set) \/ (p = q /\ k = kind)
    <3>1. Entry(addr, kind).addr[1] = q /\ Entry(addr, kind).kind = kind
      BY DEF Entry
    <3> QED BY <1>3, <3>1 DEF Needed
  <2>3. k \in flags'[p] <=> k \in flags[p] \/ (p = q /\ k = kind)
    BY <1>2
  <2> QED BY <2>1, <2>2, <2>3
<1>5. active_watch_count' = Cardinality({p \in Pages : flags'[p] # {}})
  <2>1. Cardinality(Flagged(flags')) =
          IF flags[q] = {} THEN Cardinality(Flagged(flags)) + 1
                           ELSE Cardinality(Flagged(flags))
    BY <1>1, <1>2, FlaggedGrows DEF FilterInv
  <2> QED BY <2>1 DEF FilterInv, FilterExact, set_watchpoint_cond, Flagged
<1>6. watched_set' \subseteq [addr : Watchable, kind : AccessKinds]
  BY <1>3 DEF FilterInv, Entry
<1>7. FilterExact'
  BY <1>4, <1>5 DEF FilterExact
<1> QED BY <1>2, <1>6, <1>7 DEF FilterInv

(* One stops being watched; others of its page may need the flag.            *)
LEMMA FilterClear ==
  ASSUME FilterInv, NEW addr \in Watchable, NEW kind \in AccessKinds,
         clear_watchpoint(addr, kind)
  PROVE  FilterInv'
<1> DEFINE q == addr[1]
<1>1. q \in Pages
  BY WatchableAssumption
<1>2. /\ flags' \in [Pages -> SUBSET AccessKinds]
      /\ flags'[q] = IF Needed(q, kind, watched_set') THEN flags[q] ELSE flags[q] \ {kind}
      /\ \A p \in Pages \ {q} : flags'[p] = flags[p]
  BY <1>1 DEF FilterInv, clear_watchpoint
<1>3. watched_set' = watched_set \ {[addr |-> addr, kind |-> kind]}
  BY DEF clear_watchpoint, Entry
<1>4. \A p \in Pages, k \in AccessKinds : k \in flags'[p] <=> Needed(p, k, watched_set')
  <2> TAKE p \in Pages, k \in AccessKinds
  <2>1. k \in flags[p] <=> Needed(p, k, watched_set)
    BY DEF FilterInv, FilterExact
  <2>2. CASE p = q /\ k = kind
    BY <1>2, <1>3, <2>1, <2>2 DEF Needed
  <2>3. CASE ~ (p = q /\ k = kind)
    <3>1. Needed(p, k, watched_set') <=> Needed(p, k, watched_set)
      BY <1>3, <2>3 DEF Needed
    <3> QED BY <1>2, <2>1, <2>3, <3>1
  <2> QED BY <2>2, <2>3
<1>5. active_watch_count' = Cardinality({p \in Pages : flags'[p] # {}})
  <2>1. Cardinality(Flagged(flags')) =
          IF flags[q] # {} /\ flags'[q] = {} /\ Cardinality(Flagged(flags)) > 0
            THEN Cardinality(Flagged(flags)) - 1
            ELSE Cardinality(Flagged(flags))
    <3>1. flags'[q] \subseteq flags[q]
      BY <1>2
    <3> QED BY <1>1, <1>2, <3>1, FlaggedShrinks DEF FilterInv
  <2> QED BY <2>1 DEF FilterInv, FilterExact, clear_watchpoint, Flagged
<1> QED BY <1>2, <1>3, <1>4, <1>5 DEF FilterInv, FilterExact

(* The filter's invariant holds throughout.                                  *)
THEOREM FilterInvariant == SpaceSpec => []FilterInv
<1>1. SpaceInit => FilterInv
  BY FilterEmpty DEF SpaceInit
<1>2. FilterInv /\ [SpaceNext]_spaceVars => FilterInv'
  <2> SUFFICES ASSUME FilterInv, [SpaceNext]_spaceVars
               PROVE  FilterInv'
    OBVIOUS
  <2>1. CASE \E p \in Pages, value \in MemoryValues :
               write_backing(p, value) \/ poke(p, value)
    BY <2>1, FilterUntouched DEF write_backing, poke
  <2>2. CASE \E m \in BankSwitches : remap_pages(m)
    BY <2>2, FilterUntouched DEF remap_pages
  <2>3. CASE \E addr \in Watchable, kind \in AccessKinds :
               set_watchpoint_cond(addr, kind) \/ clear_watchpoint(addr, kind)
    BY <2>3, FilterSet, FilterClear
  <2>4. CASE clear_all_watchpoints
    BY <2>4, FilterCleared DEF clear_all_watchpoints
  <2>5. CASE save_state
    BY <2>5, FilterUntouched DEF save_state
  <2>6. CASE load_state
    BY <2>6, FilterUntouched DEF load_state
  <2>7. CASE RebuildSpace
    BY <2>7, FilterCleared DEF RebuildSpace
  <2>8. CASE UNCHANGED spaceVars
    BY <2>8, FilterUntouched DEF spaceVars
  <2> QED BY <2>1, <2>2, <2>3, <2>4, <2>5, <2>6, <2>7, <2>8 DEF SpaceNext
<1> QED BY <1>1, <1>2, PTL DEF SpaceSpec

(* No access to a watched address escapes the filter and none is looked up   *)
(* in vain, for any pages, addresses and kinds of access.                    *)
THEOREM FilterStaysExact == SpaceSpec => []FilterExact
<1>1. FilterInv => FilterExact
  BY DEF FilterInv
<1> QED BY <1>1, FilterInvariant, PTL

(* Memory holds bytes, and so does a save.                                   *)
BytesInv ==
  /\ regions \in {fresh.regions : fresh \in Fresh}
  /\ \A r \in DOMAIN backing : \A o \in DOMAIN backing[r] :
       backing[r][o] \in MemoryValues
  /\ savedSpace # NoSavedSpace =>
       \A r \in DOMAIN savedSpace.regions : \A o \in DOMAIN savedSpace.regions[r] :
         savedSpace.regions[r][o] \in MemoryValues

(* A load copies no more than the save holds of a region, misfits included.  *)
LEMMA LoadedBytes ==
  ASSUME regions \in {fresh.regions : fresh \in Fresh}, NEW r \in RegionsLoaded
  PROVE  r \in DOMAIN savedSpace.regions /\ DOMAIN backing[r] \subseteq DOMAIN savedSpace.regions[r]
<1>1. r \in DOMAIN savedSpace.regions \cap saved_region_ids
  BY DEF RegionsLoaded
<1>2. r \in Nat
  BY <1>1, BoardsAssumption DEF saved_region_ids
<1>3. CASE r \in Misfits
  BY <1>1, <1>2, <1>3 DEF RegionsLoaded, TooLong
<1>4. CASE r \notin Misfits
  BY <1>1, <1>4 DEF Misfits
<1> QED BY <1>1, <1>3, <1>4

(* The state keeps its shape: flags, watchpoints and count are what the      *)
(* filter's invariant says, and no write or load leaves memory anything but  *)
(* bytes.                                                                    *)
THEOREM SpaceTyped == SpaceSpec => []SpaceTypeOK
<1>1. SpaceInit => BytesInv
  BY BoardsAssumption DEF SpaceInit, BytesInv
<1>2. BytesInv /\ [SpaceNext]_spaceVars => BytesInv'
  <2> SUFFICES ASSUME BytesInv, [SpaceNext]_spaceVars PROVE BytesInv'
    OBVIOUS
  <2>1. ASSUME NEW p \in Pages, NEW value \in MemoryValues,
               write_backing(p, value) \/ poke(p, value)
        PROVE  BytesInv'
    <3>1. StoreAt(p, value) /\ UNCHANGED <<regions, savedSpace>>
      BY <2>1 DEF write_backing, poke, saves
    <3>2. \A r \in DOMAIN backing' : \A o \in DOMAIN backing'[r] :
            backing'[r][o] \in MemoryValues
      BY <3>1 DEF StoreAt, BytesInv
    <3> QED BY <3>1, <3>2 DEF BytesInv
  <2>2. ASSUME UNCHANGED <<regions, backing, savedSpace>> PROVE BytesInv'
    BY <2>2 DEF BytesInv
  <2>3. CASE \E m \in BankSwitches : remap_pages(m)
    BY <2>2, <2>3 DEF remap_pages, saves
  <2>4. CASE \E addr \in Watchable, kind \in AccessKinds :
               set_watchpoint_cond(addr, kind) \/ clear_watchpoint(addr, kind)
    BY <2>2, <2>4 DEF set_watchpoint_cond, clear_watchpoint, saves
  <2>5. CASE clear_all_watchpoints
    BY <2>2, <2>5 DEF clear_all_watchpoints, saves
  <2>6. CASE save_state
    <3>1. saved_region_ids \subseteq DOMAIN backing
      BY DEF saved_region_ids, has_region
    <3> QED BY <2>6, <3>1 DEF save_state, BytesInv
  <2>7. CASE load_state
    <3>1. /\ savedSpace # NoSavedSpace /\ backing' = BackingLoaded
          /\ UNCHANGED <<regions, savedSpace>>
      BY <2>7 DEF load_state, saves
    <3>2. ASSUME NEW r \in DOMAIN backing, NEW o \in DOMAIN backing'[r]
          PROVE  backing'[r][o] \in MemoryValues
      <4>1. CASE r \in RegionsLoaded
        <5>1. backing'[r] = [q \in DOMAIN backing[r] |-> savedSpace.regions[r][q]]
          BY <3>1, <4>1 DEF BackingLoaded
        <5> QED BY <3>1, <4>1, <5>1, LoadedBytes DEF BytesInv
      <4>2. CASE r \notin RegionsLoaded
        BY <3>1, <4>2 DEF BackingLoaded, BytesInv
      <4> QED BY <4>1, <4>2
    <3>3. DOMAIN backing' = DOMAIN backing
      BY <3>1 DEF BackingLoaded
    <3> QED BY <3>1, <3>2, <3>3 DEF BytesInv
  <2>8. CASE RebuildSpace
    BY <2>8, BoardsAssumption DEF RebuildSpace, BytesInv, saves
  <2>9. CASE UNCHANGED spaceVars
    BY <2>2, <2>9 DEF spaceVars, saves
  <2> QED BY <2>1, <2>3, <2>4, <2>5, <2>6, <2>7, <2>8, <2>9 DEF SpaceNext
<1>3. BytesInv /\ FilterInv => SpaceTypeOK
  <2> SUFFICES ASSUME BytesInv, FilterInv PROVE SpaceTypeOK
    OBVIOUS
  <2>1. active_watch_count \in Nat
    BY PagesAssumption, FS_Subset, FS_CardinalityType DEF FilterInv, FilterExact
  <2> QED BY <2>1 DEF BytesInv, FilterInv, SpaceTypeOK
<1> QED BY <1>1, <1>2, <1>3, FilterInvariant, PTL DEF SpaceSpec

-----------------------------------------------------------------------------
(* The saves.                                                                *)

(* What a board owes its map: every region its program writes is declared    *)
(* writable.                                                                 *)
DeclaresItsWrites ==
  \A fresh \in Fresh : \A r \in CpuWrites \cap DOMAIN fresh.backing :
    \E d \in fresh.regions : d.id = r /\ is_cpu_writable(d.access)

(* Such a map saves what the program can write, whichever one is loaded.     *)
Covered ==
  \A r \in CpuWrites \cap DOMAIN backing :
    \E d \in regions : d.id = r /\ is_cpu_writable(d.access)

(* A save holds the mapping of its moment, and of the bytes the program can  *)
(* write those it holds are the right ones.                                  *)
SaveHolds ==
  savedSpace # NoSavedSpace =>
    /\ savedSpace.pages = atSave.pages
    /\ \A r \in CpuWrites \cap DOMAIN savedSpace.regions :
         r \in DOMAIN atSave.memory /\ savedSpace.regions[r] = atSave.memory[r]

(* What is written and has bytes is among the regions saved.                 *)
LEMMA CoveredIsSaved ==
  ASSUME Covered, NEW r \in CpuWrites \cap DOMAIN backing
  PROVE  r \in saved_region_ids
<1>1. PICK d \in regions : d.id = r /\ is_cpu_writable(d.access)
  BY DEF Covered
<1>2. d \in {e \in regions : is_cpu_writable(e.access) /\ has_region(e.id)}
  BY <1>1 DEF has_region
<1> QED BY <1>1, <1>2 DEF saved_region_ids

(* With both an accepted load restores, whatever happened since the save and *)
(* whichever configuration made it.                                          *)
LEMMA CoveredRestores ==
  ASSUME Covered, SaveHolds
  PROVE  LoadRestores
<1> SUFFICES ASSUME savedSpace # NoSavedSpace, Accepted
             PROVE  /\ \A p \in Pages : TableLoaded[p] = atSave.pages[p]
                    /\ \A r \in CpuWrites \cap DOMAIN backing : \A o \in DOMAIN backing[r] :
                         /\ r \in DOMAIN atSave.memory /\ o \in DOMAIN atSave.memory[r]
                         /\ BackingLoaded[r][o] = atSave.memory[r][o]
  BY DEF LoadRestores
<1>1. Misfits = {} /\ Strangers = {} /\ saved_region_ids \subseteq DOMAIN savedSpace.regions
  BY DEF Accepted
<1>2. ASSUME NEW p \in Pages PROVE TableLoaded[p] = atSave.pages[p]
  <2>1. p \in PagesLoaded
    BY <1>1 DEF PagesLoaded
  <2> QED BY <2>1 DEF TableLoaded, SaveHolds
<1>3. ASSUME NEW r \in CpuWrites \cap DOMAIN backing, NEW o \in DOMAIN backing[r]
      PROVE  /\ r \in DOMAIN atSave.memory /\ o \in DOMAIN atSave.memory[r]
             /\ BackingLoaded[r][o] = atSave.memory[r][o]
  <2>1. r \in saved_region_ids /\ r \in DOMAIN savedSpace.regions
    BY <1>1, CoveredIsSaved
  <2>2. DOMAIN savedSpace.regions[r] = DOMAIN backing[r]
    BY <1>1, <2>1 DEF Misfits
  <2>3. r \in RegionsLoaded
    BY <1>1, <2>1 DEF RegionsLoaded
  <2>4. r \in DOMAIN atSave.memory /\ savedSpace.regions[r] = atSave.memory[r]
    BY <2>1 DEF SaveHolds
  <2>5. BackingLoaded[r][o] = savedSpace.regions[r][o]
    BY <2>3 DEF BackingLoaded
  <2> QED BY <2>2, <2>4, <2>5
<1> QED BY <1>2, <1>3

(* A board that declares writable every region its program writes gets it    *)
(* all back from every load that is accepted.  I, Robot declares its banked  *)
(* RAM read-only, and loses it (MCAddressSpace).                             *)
THEOREM SavesRestore ==
  ASSUME DeclaresItsWrites
  PROVE  SpaceSpec => []LoadRestores
<1> DEFINE Inv == Covered /\ SaveHolds
<1>1. SpaceInit => Inv
  <2> SUFFICES ASSUME SpaceInit PROVE Inv
    OBVIOUS
  <2>1. Covered
    BY DEF SpaceInit, DeclaresItsWrites, Covered
  <2>2. SaveHolds
    BY DEF SpaceInit, SaveHolds
  <2> QED BY <2>1, <2>2
<1>2. Inv /\ [SpaceNext]_spaceVars => Inv'
  <2> SUFFICES ASSUME Inv, [SpaceNext]_spaceVars
               PROVE  Inv'
    OBVIOUS
  <2>1. ASSUME regions' = regions, DOMAIN backing' = DOMAIN backing, UNCHANGED saves
        PROVE  Inv'
    BY <2>1 DEF Covered, SaveHolds, saves
  <2>2. CASE \E p \in Pages, value \in MemoryValues :
               write_backing(p, value) \/ poke(p, value)
    BY <2>1, <2>2 DEF write_backing, poke, StoreAt
  <2>3. CASE \E m \in BankSwitches : remap_pages(m)
    BY <2>1, <2>3 DEF remap_pages
  <2>4. CASE \E addr \in Watchable, kind \in AccessKinds :
               set_watchpoint_cond(addr, kind) \/ clear_watchpoint(addr, kind)
    BY <2>1, <2>4 DEF set_watchpoint_cond, clear_watchpoint
  <2>5. CASE clear_all_watchpoints
    BY <2>1, <2>5 DEF clear_all_watchpoints
  <2>6. CASE save_state
    <3>1. Covered'
      BY <2>6 DEF save_state, Covered
    <3>2. savedSpace'.pages = atSave'.pages
      BY <2>6 DEF save_state
    <3>3. \A r \in CpuWrites \cap DOMAIN savedSpace'.regions :
            r \in DOMAIN atSave'.memory /\ savedSpace'.regions[r] = atSave'.memory[r]
      BY <2>6 DEF save_state, saved_region_ids, has_region
    <3> QED BY <3>1, <3>2, <3>3 DEF SaveHolds
  <2>7. CASE load_state
    <3>1. DOMAIN backing' = DOMAIN backing
      BY <2>7 DEF load_state, BackingLoaded
    <3> QED BY <2>1, <2>7, <3>1 DEF load_state
  <2>8. CASE RebuildSpace
    BY <2>8 DEF RebuildSpace, DeclaresItsWrites, Covered, SaveHolds, saves
  <2>9. CASE UNCHANGED spaceVars
    BY <2>1, <2>9 DEF spaceVars
  <2> QED BY <2>2, <2>3, <2>4, <2>5, <2>6, <2>7, <2>8, <2>9 DEF SpaceNext
<1>3. Inv => LoadRestores
  BY CoveredRestores
<1> QED BY <1>1, <1>2, <1>3, PTL DEF SpaceSpec
-----------------------------------------------------------------------------
(* The page table.  A load trusts a region it knows by its id, so what keeps *)
(* a page in its region is that it is the same region wherever the save was  *)
(* made.                                                                     *)

IdsOf(ds) == {d.id : d \in ds}
(* A map with the regions and the lengths of a configuration.                *)
Shaped(bytes, fresh) ==
  /\ DOMAIN bytes = DOMAIN fresh.backing
  /\ \A r \in DOMAIN bytes : DOMAIN bytes[r] = DOMAIN fresh.backing[r]
Mapped(table, fresh) ==
  /\ \A p \in Pages : table[p].region \in IdsOf(fresh.regions) \cup {UNMAPPED}
  /\ InRange(table, fresh.backing)
WritableOf(fresh) ==
  {d.id : d \in {e \in fresh.regions : is_cpu_writable(e.access)
                                     /\ e.id \in DOMAIN fresh.backing}}

MapInv ==
  \E fresh \in Fresh : /\ regions = fresh.regions
                       /\ Shaped(backing, fresh) /\ Mapped(pages, fresh)
SavedInv ==
  savedSpace # NoSavedSpace =>
    \E fresh \in Fresh : /\ Shaped(savedSpace.regions,
                                   [fresh EXCEPT !.backing =
                                      [r \in WritableOf(fresh) |-> fresh.backing[r]]])
                         /\ Mapped(savedSpace.pages, fresh)
PageInv == MapInv /\ SavedInv

(* The maps of the configurations, by name.                                  *)
LEMMA FreshFacts ==
  ASSUME NEW fresh \in Fresh
  PROVE  /\ UNMAPPED \notin IdsOf(fresh.regions)
         /\ DOMAIN fresh.backing \subseteq IdsOf(fresh.regions)
         /\ \A r \in DOMAIN fresh.backing : \A o \in DOMAIN fresh.backing[r] :
              o \in Nat /\ 0..o \subseteq DOMAIN fresh.backing[r]
         /\ Mapped(fresh.pages, fresh) /\ Shaped(fresh.backing, fresh)
BY BoardsAssumption DEF IdsOf, Mapped, Shaped

(* What a map saves of its regions.                                          *)
LEMMA SavedOfShape ==
  ASSUME NEW fresh \in Fresh, regions = fresh.regions, Shaped(backing, fresh)
  PROVE  saved_region_ids = WritableOf(fresh)
BY DEF saved_region_ids, WritableOf, has_region, Shaped

(* Steps that move neither the table nor a length.                           *)
LEMMA PagesUntouched ==
  ASSUME PageInv, regions' = regions, pages' = pages, savedSpace' = savedSpace,
         DOMAIN backing' = DOMAIN backing,
         \A r \in DOMAIN backing : DOMAIN backing'[r] = DOMAIN backing[r]
  PROVE  PageInv'
<1>1. PICK fresh \in Fresh : /\ regions = fresh.regions
                            /\ Shaped(backing, fresh) /\ Mapped(pages, fresh)
  BY DEF PageInv, MapInv
<1>2. Shaped(backing', fresh) /\ Mapped(pages', fresh) /\ regions' = fresh.regions
  BY <1>1 DEF Shaped
<1>3. MapInv'
  BY <1>2 DEF MapInv
<1>4. SavedInv'
  BY DEF PageInv, SavedInv
<1> QED BY <1>3, <1>4 DEF PageInv

(* A bank switch maps a window that the region holds in full.                *)
LEMMA SwitchInRange ==
  ASSUME PageInv, NEW m \in BankSwitches, remap_pages(m)
  PROVE  PageInv'
<1>1. /\ m.region \in DOMAIN backing /\ m.base + m.count - 1 \in DOMAIN backing[m.region]
      /\ pages' = Remapped(pages, m) /\ UNCHANGED <<regions, backing, savedSpace>>
  BY DEF remap_pages, has_region, saves
<1>2. PICK fresh \in Fresh : /\ regions = fresh.regions
                            /\ Shaped(backing, fresh) /\ Mapped(pages, fresh)
  BY DEF PageInv, MapInv
<1>3. m.region \in DOMAIN fresh.backing /\ m.region \in IdsOf(fresh.regions)
      /\ m.base + m.count - 1 \in DOMAIN fresh.backing[m.region]
  BY <1>1, <1>2, FreshFacts DEF Shaped
<1>4. ASSUME NEW p \in Pages
      PROVE  /\ pages'[p].region \in IdsOf(fresh.regions) \cup {UNMAPPED}
             /\ pages'[p].region \in DOMAIN fresh.backing =>
                  pages'[p].base \in DOMAIN fresh.backing[pages'[p].region]
  <2>1. CASE p \in Span(m.start, m.count)
    <3>1. pages'[p].region = m.region /\ pages'[p].base = m.base + p - m.start
      BY <1>1, <2>1 DEF Remapped
    <3>2. /\ p \in Nat /\ m.start \in Nat /\ m.count \in Nat /\ m.base \in Nat
          /\ p >= m.start /\ p < m.start + m.count
      BY <2>1, PagesAssumption, BanksAssumption DEF Span
    <3> DEFINE top == m.base + m.count - 1
    <3>3. top \in DOMAIN fresh.backing[m.region]
      BY <1>3
    <3>4. top \in Nat /\ 0..top \subseteq DOMAIN fresh.backing[m.region]
      <4> HIDE DEF top
      <4> QED BY <1>3, <3>3, FreshFacts
    <3>5. m.base + p - m.start \in 0..top
      BY <3>2
    <3> QED BY <1>3, <3>1, <3>4, <3>5
  <2>2. CASE p \notin Span(m.start, m.count)
    <3>1. pages'[p] = pages[p]
      BY <1>1, <2>2 DEF Remapped
    <3> QED BY <1>2, <3>1 DEF Mapped, InRange
  <2> QED BY <2>1, <2>2
<1>5. MapInv'
  <2>1. Mapped(pages', fresh)
    BY <1>4 DEF Mapped, InRange
  <2> QED BY <1>1, <1>2, <2>1 DEF MapInv
<1>6. SavedInv'
  BY <1>1 DEF PageInv, SavedInv
<1> QED BY <1>5, <1>6 DEF PageInv

(* A save is of the configuration that made it.                              *)
LEMMA SaveInRange == ASSUME PageInv, save_state PROVE PageInv'
<1>1. PICK fresh \in Fresh : /\ regions = fresh.regions
                            /\ Shaped(backing, fresh) /\ Mapped(pages, fresh)
  BY DEF PageInv, MapInv
<1>2. savedSpace' = [regions |-> [r \in WritableOf(fresh) |-> backing[r]], pages |-> pages]
      /\ UNCHANGED <<pages, regions, backing>>
  BY <1>1, SavedOfShape DEF save_state
<1>3. WritableOf(fresh) \subseteq DOMAIN fresh.backing
  BY DEF WritableOf
<1> DEFINE kept == [fresh EXCEPT !.backing = [r \in WritableOf(fresh) |-> fresh.backing[r]]]
<1>4. kept.backing = [r \in WritableOf(fresh) |-> fresh.backing[r]]
  OBVIOUS
<1> HIDE DEF kept
<1>5. Shaped(savedSpace'.regions, kept)
  BY <1>1, <1>2, <1>3, <1>4 DEF Shaped
<1>6. SavedInv'
  BY <1>1, <1>2, <1>5 DEF SavedInv, kept
<1>7. MapInv'
  BY <1>1, <1>2 DEF MapInv
<1> QED BY <1>6, <1>7 DEF PageInv

(* A region that a save knows is as long here, once the load found no misfit. *)
LEMMA SameLength ==
  ASSUME ConfigurationsAgree, NEW here \in Fresh, NEW there \in Fresh,
         regions = here.regions, Shaped(backing, here), Misfits = {},
         DOMAIN savedSpace.regions = WritableOf(there),
         \A r \in WritableOf(there) : DOMAIN savedSpace.regions[r] = DOMAIN there.backing[r],
         NEW r \in DOMAIN backing, r \in IdsOf(there.regions)
  PROVE  r \in DOMAIN there.backing /\ DOMAIN there.backing[r] = DOMAIN backing[r]
<1>1. r \in DOMAIN here.backing /\ DOMAIN backing[r] = DOMAIN here.backing[r]
  BY DEF Shaped
<1>2. /\ r \in DOMAIN there.backing
      /\ \/ DOMAIN here.backing[r] = DOMAIN there.backing[r]
         \/ r \in WritableOf(here) \cap WritableOf(there)
  BY <1>1 DEF ConfigurationsAgree, IdsOf, WritableOf
<1>3. CASE r \in WritableOf(here) \cap WritableOf(there)
  <2>1. r \in DOMAIN savedSpace.regions \cap saved_region_ids
    BY <1>3, SavedOfShape
  <2>2. DOMAIN savedSpace.regions[r] = DOMAIN backing[r]
    BY <2>1 DEF Misfits
  <2> QED BY <1>2, <1>3, <2>2
<1> QED BY <1>1, <1>2, <1>3

(* A load, accepted or not, of a save of any configuration.                  *)
LEMMA LoadInRange == ASSUME ConfigurationsAgree, PageInv, load_state PROVE PageInv'
<1>1. PICK here \in Fresh : /\ regions = here.regions
                           /\ Shaped(backing, here) /\ Mapped(pages, here)
  BY DEF PageInv, MapInv
<1>2. /\ savedSpace # NoSavedSpace
      /\ backing' = BackingLoaded /\ pages' = TableLoaded
      /\ UNCHANGED <<regions, savedSpace>>
  BY DEF load_state, saves
<1>3. PICK there \in Fresh :
         /\ Shaped(savedSpace.regions,
                   [there EXCEPT !.backing =
                      [r \in WritableOf(there) |-> there.backing[r]]])
         /\ Mapped(savedSpace.pages, there)
  BY <1>2 DEF PageInv, SavedInv
<1>4. /\ DOMAIN savedSpace.regions = WritableOf(there)
      /\ \A r \in WritableOf(there) : DOMAIN savedSpace.regions[r] = DOMAIN there.backing[r]
  <2> DEFINE kept == [there EXCEPT !.backing = [r \in WritableOf(there) |-> there.backing[r]]]
  <2>1. kept.backing = [r \in WritableOf(there) |-> there.backing[r]]
    OBVIOUS
  <2>2. Shaped(savedSpace.regions, kept)
    BY <1>3
  <2> HIDE DEF kept
  <2> QED BY <2>1, <2>2 DEF Shaped
<1>5. Shaped(backing', here)
  BY <1>1, <1>2 DEF Shaped, BackingLoaded
<1>6. ASSUME NEW p \in Pages
      PROVE  /\ pages'[p].region \in IdsOf(here.regions) \cup {UNMAPPED}
             /\ pages'[p].region \in DOMAIN here.backing =>
                  pages'[p].base \in DOMAIN here.backing[pages'[p].region]
  <2>1. CASE p \in PagesLoaded
    <3> DEFINE r == savedSpace.pages[p].region
    <3>1. pages'[p] = savedSpace.pages[p]
      BY <1>2, <2>1 DEF TableLoaded
    <3>2. Misfits = {} /\ p \notin Strangers
      BY <2>1, PagesAssumption DEF PagesLoaded
    <3>3. r \in IdsOf(here.regions) \cup {UNMAPPED}
      BY <1>1, <3>2 DEF Strangers, IdsOf
    <3>4. ASSUME r \in DOMAIN here.backing
          PROVE  savedSpace.pages[p].base \in DOMAIN here.backing[r]
      <4>1. r \in DOMAIN backing
        BY <1>1, <3>4 DEF Shaped
      <4>2. r # UNMAPPED
        BY <3>4, FreshFacts
      <4>3. r \in IdsOf(there.regions)
        BY <1>3, <4>2 DEF Mapped
      <4>4. r \in DOMAIN there.backing /\ DOMAIN there.backing[r] = DOMAIN backing[r]
        <5> HIDE DEF r
        <5> QED BY <1>1, <1>4, <3>2, <4>1, <4>3, SameLength
      <4>5. savedSpace.pages[p].base \in DOMAIN there.backing[r]
        BY <1>3, <4>4 DEF Mapped, InRange
      <4>6. DOMAIN backing[r] = DOMAIN here.backing[r]
        BY <1>1, <4>1 DEF Shaped
      <4> QED BY <4>4, <4>5, <4>6
    <3> QED BY <3>1, <3>3, <3>4
  <2>2. CASE p \notin PagesLoaded
    <3>1. pages'[p] = pages[p]
      BY <1>2, <2>2 DEF TableLoaded
    <3> QED BY <1>1, <3>1 DEF Mapped, InRange
  <2> QED BY <2>1, <2>2
<1>7. MapInv'
  <2>1. Mapped(pages', here)
    BY <1>6 DEF Mapped, InRange
  <2> QED BY <1>1, <1>2, <1>5, <2>1 DEF MapInv
<1>8. SavedInv'
  BY <1>2 DEF PageInv, SavedInv
<1> QED BY <1>7, <1>8 DEF PageInv

(* Whatever the program switches, the debugger writes and the session saves, *)
(* loads and rebuilds, a page leads into its region: if the configurations   *)
(* agree, which a load does not check beyond a region's id.                  *)
THEOREM PagesStayInRange ==
  ASSUME ConfigurationsAgree
  PROVE  SpaceSpec => []PagesInRange
<1>1. SpaceInit => PageInv
  <2> SUFFICES ASSUME SpaceInit PROVE PageInv
    OBVIOUS
  <2>1. PICK fresh \in Fresh : /\ pages = fresh.pages /\ regions = fresh.regions
                              /\ backing = fresh.backing
    BY DEF SpaceInit
  <2>2. Mapped(fresh.pages, fresh) /\ Shaped(fresh.backing, fresh)
    BY FreshFacts
  <2>3. MapInv
    BY <2>1, <2>2 DEF MapInv
  <2>4. SavedInv
    BY DEF SpaceInit, SavedInv
  <2> QED BY <2>3, <2>4 DEF PageInv
<1>2. PageInv /\ [SpaceNext]_spaceVars => PageInv'
  <2> SUFFICES ASSUME PageInv, [SpaceNext]_spaceVars PROVE PageInv'
    OBVIOUS
  <2>1. ASSUME NEW p \in Pages, NEW value \in MemoryValues,
               write_backing(p, value) \/ poke(p, value)
        PROVE  PageInv'
    <3>1. StoreAt(p, value) /\ UNCHANGED <<pages, regions, savedSpace>>
      BY <2>1 DEF write_backing, poke, saves
    <3>2. /\ DOMAIN backing' = DOMAIN backing
          /\ \A r \in DOMAIN backing : DOMAIN backing'[r] = DOMAIN backing[r]
      BY <3>1 DEF StoreAt
    <3> QED BY <3>1, <3>2, PagesUntouched
  <2>2. ASSUME NEW m \in BankSwitches, remap_pages(m) PROVE PageInv'
    BY <2>2, SwitchInRange
  <2>3. ASSUME UNCHANGED <<pages, regions, backing, savedSpace>> PROVE PageInv'
    BY <2>3, PagesUntouched
  <2>4. ASSUME NEW addr \in Watchable, NEW kind \in AccessKinds,
               set_watchpoint_cond(addr, kind) \/ clear_watchpoint(addr, kind)
        PROVE  PageInv'
    BY <2>3, <2>4 DEF set_watchpoint_cond, clear_watchpoint, saves
  <2>5. CASE clear_all_watchpoints
    BY <2>3, <2>5 DEF clear_all_watchpoints, saves
  <2>6. CASE save_state
    BY <2>6, SaveInRange
  <2>7. CASE load_state
    BY <2>7, LoadInRange
  <2>8. CASE RebuildSpace
    <3>1. PICK fresh \in Fresh : /\ pages' = fresh.pages /\ regions' = fresh.regions
                                /\ backing' = fresh.backing
      BY <2>8 DEF RebuildSpace
    <3>2. Mapped(fresh.pages, fresh) /\ Shaped(fresh.backing, fresh)
      BY FreshFacts
    <3>3. MapInv'
      BY <3>1, <3>2 DEF MapInv
    <3>4. SavedInv'
      BY <2>8 DEF RebuildSpace, saves, PageInv, SavedInv
    <3> QED BY <3>3, <3>4 DEF PageInv
  <2>9. CASE UNCHANGED spaceVars
    BY <2>3, <2>9 DEF spaceVars, saves
  <2> QED BY <2>1, <2>2, <2>4, <2>5, <2>6, <2>7, <2>8, <2>9 DEF SpaceNext
<1>3. PageInv => PagesInRange
  <2> SUFFICES ASSUME PageInv PROVE PagesInRange
    OBVIOUS
  <2>1. PICK fresh \in Fresh : Shaped(backing, fresh) /\ Mapped(pages, fresh)
    BY DEF PageInv, MapInv
  <2> QED BY <2>1 DEF Mapped, Shaped, InRange, PagesInRange
<1> QED BY <1>1, <1>2, <1>3, PTL DEF SpaceSpec
-----------------------------------------------------------------------------
(* The watchpoint set.  A "changed" watchpoint compares with a value of its  *)
(* own; that it is the value last accessed there, whatever else was set,     *)
(* cleared and fired in between, is what FiresOnItsCondition needs.          *)

Watches == [addr : Addresses, kind : Kinds, condition : Conditions,
            last : Values \cup {NoValue}]
Hits == [seq : 1..MaxFired, dropped_after : 0..SaturateAt]

(* A "changed" watchpoint's baseline is the last value accessed.             *)
UpToDate(w, baseline) == w.condition.test = "changed" => w.last = baseline[w.addr, w.kind]

(* Watchpoints that are all different, with their baselines.                 *)
Distinct(list) == \A i, j \in 1..Len(list) : Identity(list[i]) = Identity(list[j]) => i = j
Tracking(list, baseline) == \A i \in 1..Len(list) : UpToDate(list[i], baseline)
WellKept(list, baseline) ==
  list \in Seq(Watches) /\ Distinct(list) /\ Tracking(list, baseline)

(* Every gap in a queue of hits, and the one behind its last, is told.       *)
GapsTold(queue, total) ==
  /\ \A i \in 1..(Len(queue) - 1) : Follows(queue[i], queue[i + 1].seq)
  /\ Len(queue) > 0 => Follows(queue[Len(queue)], total + 1)

QueueInv(queue, total) ==
  queue \in Seq(Hits) /\ Len(queue) <= MaxPendingHits /\ GapsTold(queue, total)

WatchInv ==
  /\ WellKept(watched, last)
  /\ QueueInv(pending, fired)
  /\ fired \in 0..MaxFired
  /\ last \in [Addresses \X Kinds -> Values \cup {NoValue}]

(* The watchpoint that set_cond appends.                                     *)
NewWatch(addr, kind, condition) ==
  [addr |-> addr, kind |-> kind, condition |-> condition, last |-> NoValue]

(* The baselines after an access, or after a fresh watchpoint.               *)
Rebased(addr, kind, value) == [last EXCEPT ![<<addr, kind>>] = value]

DiffersOnlyAt(baseline, addr, kind, value) ==
  /\ baseline \in [Addresses \X Kinds -> Values \cup {NoValue}]
  /\ \A a \in Addresses, k \in Kinds :
       baseline[a, k] = IF a = addr /\ k = kind THEN value ELSE last[a, k]

(* They differ at that address and kind only.                                *)
LEMMA Rebasing ==
  ASSUME last \in [Addresses \X Kinds -> Values \cup {NoValue}],
         NEW addr \in Addresses, NEW kind \in Kinds, NEW value \in Values \cup {NoValue}
  PROVE  DiffersOnlyAt(Rebased(addr, kind, value), addr, kind, value)
BY DEF Rebased, DiffersOnlyAt

(* One more watchpoint, unlike the others, keeps the list well kept.         *)
LEMMA OneMore ==
  ASSUME NEW list, NEW baseline, WellKept(list, baseline),
         NEW w \in Watches, UpToDate(w, baseline),
         \A i \in 1..Len(list) : Identity(list[i]) # Identity(w)
  PROVE  WellKept(Append(list, w), baseline)
<1> DEFINE longer == Append(list, w)
           n == Len(list)
<1>1. list \in Seq(Watches) /\ Distinct(list) /\ Tracking(list, baseline)
  BY DEF WellKept
<1>2. /\ longer \in Seq(Watches) /\ Len(longer) = n + 1 /\ n \in Nat
      /\ longer[n + 1] = w /\ \A i \in 1..n : longer[i] = list[i]
  BY <1>1, AppendProperties, LenProperties
<1> HIDE DEF longer, n
<1>3. \A i \in 1..Len(longer) : i \in 1..n \/ i = n + 1
  BY <1>2
<1>4. /\ \A i \in 1..n : longer[i] = list[i] /\ Identity(list[i]) # Identity(w)
                         /\ UpToDate(list[i], baseline)
      /\ \A i, j \in 1..n : Identity(list[i]) = Identity(list[j]) => i = j
  BY <1>1, <1>2 DEF n, Distinct, Tracking
<1>5. Distinct(longer)
  BY <1>2, <1>3, <1>4 DEF Distinct
<1>6. Tracking(longer, baseline)
  BY <1>2, <1>3, <1>4 DEF Tracking
<1> QED BY <1>2, <1>5, <1>6 DEF WellKept, longer

(* The list without an address, watchpoint by watchpoint.                    *)
Kept(list, addr, kind) ==
  {kept \in [0..Len(list) -> Seq(Watches)] :
     /\ kept[0] = <<>>
     /\ \A i \in 1..Len(list) :
          kept[i] = IF Matches(list[i], addr, kind) THEN kept[i - 1]
                    ELSE Append(kept[i - 1], list[i])
     /\ Without(list, addr, kind) = kept[Len(list)]}

(* One watchpoint of the list, kept or not.                                  *)
Keep(kept, w, addr, kind) == IF Matches(w, addr, kind) THEN kept ELSE Append(kept, w)

(* Without is what its recursion says: its steps exist.                      *)
LEMMA WithoutRecursion ==
  ASSUME NEW list \in Seq(Watches), NEW addr, NEW kind
  PROVE  Kept(list, addr, kind) # {}
<1> DEFINE n == Len(list)
           X == Seq(Watches)
           step == [i \in 1..n |-> [k \in X |-> Keep(k, list[i], addr, kind)]]
<1>0. n \in Nat /\ <<>> \in X /\ \A i \in 1..n : list[i] \in Watches
  BY LenProperties, ElementOfSeq, EmptySeq
<1>1. ASSUME NEW k \in X, NEW w \in Watches PROVE Keep(k, w, addr, kind) \in X
  BY AppendProperties DEF Keep
<1>2. step \in BoundedSteps(n, X)
  BY <1>0, <1>1 DEF BoundedSteps
<1>3. PICK f \in [0..n -> X] :
        f = [i \in 0..n |-> IF i = 0 THEN <<>> ELSE step[i][f[i - 1]]]
  <2> HIDE DEF step, n, X
  <2>1. BoundedSequels(n, X, <<>>, step) # {}
    BY <1>0, <1>2, BoundedRecursion
  <2> QED BY <2>1 DEF BoundedSequels
<1>4. f = [i \in 0..n |-> IF i = 0 THEN <<>>
                          ELSE IF Matches(list[i], addr, kind) THEN f[i - 1]
                          ELSE Append(f[i - 1], list[i])]
  <2> SUFFICES ASSUME NEW i \in 0..n, i # 0
               PROVE  step[i][f[i - 1]] = IF Matches(list[i], addr, kind) THEN f[i - 1]
                                          ELSE Append(f[i - 1], list[i])
    BY <1>3
  <2>1. i \in 1..n /\ i - 1 \in 0..n /\ f[i - 1] \in X
    BY <1>0
  <2>2. step[i][f[i - 1]] = Keep(f[i - 1], list[i], addr, kind)
    BY <2>1
  <2> QED BY <2>2 DEF Keep
<1> DEFINE p == CHOOSE p : p = [i \in 0..n |-> IF i = 0 THEN <<>>
                                               ELSE IF Matches(list[i], addr, kind) THEN p[i - 1]
                                               ELSE Append(p[i - 1], list[i])]
<1>5. p = [i \in 0..n |-> IF i = 0 THEN <<>>
                          ELSE IF Matches(list[i], addr, kind) THEN p[i - 1]
                          ELSE Append(p[i - 1], list[i])]
  <2> HIDE DEF n
  <2> QED BY <1>4
<1>6. Without(list, addr, kind) = p[n]
  BY DEF Without
<1> HIDE DEF p, n, step, X
<1>7. /\ p[0] = <<>>
      /\ \A i \in 1..n : p[i] = IF Matches(list[i], addr, kind) THEN p[i - 1]
                                ELSE Append(p[i - 1], list[i])
  <2>1. \A i \in 1..n : i \in 0..n /\ i # 0
    BY <1>0
  <2>2. 0 \in 0..n
    BY <1>0
  <2>3. \A i \in 0..n : p[i] = IF i = 0 THEN <<>>
                               ELSE IF Matches(list[i], addr, kind) THEN p[i - 1]
                               ELSE Append(p[i - 1], list[i])
    BY <1>5
  <2> QED BY <2>1, <2>2, <2>3
<1>8. \A i \in 0..n : i \in {j \in 0..n : p[j] \in X}
  <2> DEFINE S == {j \in 0..n : p[j] \in X}
  <2>1. 0 \in S
    BY <1>0, <1>7
  <2>2. ASSUME NEW i \in 1..n, i - 1 \in S PROVE i \in S
    <3>1. p[i - 1] \in X /\ list[i] \in Watches /\ i \in 0..n
      BY <1>0, <2>2
    <3>2. p[i] = Keep(p[i - 1], list[i], addr, kind)
      BY <1>7 DEF Keep
    <3>3. p[i] \in X
      BY <1>1, <3>1, <3>2
    <3> QED BY <3>1, <3>3
  <2> HIDE DEF S
  <2>3. \A i \in 0..n : i \in S
    BY <1>0, <2>1, <2>2, BoundedInduction
  <2> QED BY <2>3 DEF S
<1>9. p \in [0..n -> X]
  BY <1>5, <1>8
<1>10. p \in Kept(list, addr, kind)
  BY <1>6, <1>7, <1>9 DEF Kept, n, X
<1> QED BY <1>10

(* clear keeps the watchpoints of the other addresses, all different still.  *)
LEMMA WithoutWellKept ==
  ASSUME NEW list, NEW baseline, WellKept(list, baseline), NEW addr, NEW kind
  PROVE  WellKept(Without(list, addr, kind), baseline)
<1> DEFINE n == Len(list)
<1>0. n \in Nat /\ list \in Seq(Watches) /\ Distinct(list) /\ Tracking(list, baseline)
      /\ \A i \in 1..n : list[i] \in Watches
  BY LenProperties, ElementOfSeq DEF WellKept
<1>1. PICK p \in Kept(list, addr, kind) : TRUE
  BY <1>0, WithoutRecursion
<1>2. /\ p[0] = <<>>
      /\ \A i \in 1..n : p[i] = IF Matches(list[i], addr, kind) THEN p[i - 1]
                                ELSE Append(p[i - 1], list[i])
      /\ Without(list, addr, kind) = p[n]
  BY DEF Kept
<1> HIDE DEF n
<1> DEFINE From(kept, i) == \A j \in 1..Len(kept) : \E k \in 1..i : kept[j] = list[k]
           S == {i \in 0..n : WellKept(p[i], baseline) /\ From(p[i], i)}
<1>3. 0 \in S
  <2>1. Len(p[0]) = 0 /\ p[0] \in Seq(Watches)
    BY <1>2, EmptySeq
  <2>2. WellKept(p[0], baseline) /\ From(p[0], 0)
    BY <2>1 DEF WellKept, Distinct, Tracking
  <2> QED BY <1>0, <2>2
<1>4. ASSUME NEW i \in 1..n, i - 1 \in S PROVE i \in S
  <2> DEFINE before == p[i - 1]
             w == list[i]
  <2>1. /\ WellKept(before, baseline) /\ From(before, i - 1) /\ i \in 0..n /\ i - 1 \in Nat
        /\ w \in Watches /\ i \in Nat
    BY <1>0, <1>4
  <2>2. CASE Matches(w, addr, kind)
    <3>1. p[i] = before
      BY <1>2, <2>2
    <3>2. From(before, i)
      BY <2>1
    <3> QED BY <2>1, <3>1, <3>2
  <2>3. CASE ~Matches(w, addr, kind)
    <3>1. p[i] = Append(before, w)
      BY <1>2, <2>3
    <3>2. UpToDate(w, baseline)
      BY <1>0 DEF Tracking, n
    <3>3. \A j \in 1..Len(before) : Identity(before[j]) # Identity(w)
      <4> SUFFICES ASSUME NEW j \in 1..Len(before) PROVE Identity(before[j]) # Identity(w)
        OBVIOUS
      <4>1. PICK k \in 1..i - 1 : before[j] = list[k]
        BY <2>1
      <4>2. k \in 1..n /\ k # i /\ i \in 1..n
        BY <1>0, <2>1
      <4>3. Identity(list[k]) # Identity(list[i])
        BY <1>0, <4>2 DEF Distinct, n
      <4> QED BY <4>1, <4>3
    <3> HIDE DEF before, w
    <3>4. WellKept(Append(before, w), baseline)
      BY <2>1, <3>2, <3>3, OneMore
    <3>5. From(Append(before, w), i)
      <4>1. before \in Seq(Watches) /\ Len(before) \in Nat
        BY <2>1, LenProperties DEF WellKept
      <4>2. /\ Len(Append(before, w)) = Len(before) + 1 /\ Append(before, w)[Len(before) + 1] = w
            /\ \A j \in 1..Len(before) : Append(before, w)[j] = before[j]
        BY <2>1, <4>1, AppendProperties
      <4>3. \A j \in 1..Len(before) : \E k \in 1..i : before[j] = list[k]
        BY <2>1
      <4>4. w = list[i] /\ i \in 1..i
        BY <2>1 DEF w
      <4> QED BY <4>1, <4>2, <4>3, <4>4
    <3> QED BY <2>1, <3>1, <3>4, <3>5
  <2> QED BY <2>2, <2>3
<1> HIDE DEF S
<1>5. \A i \in 0..n : i \in S
  BY <1>0, <1>3, <1>4, BoundedInduction
<1>6. n \in S
  BY <1>0, <1>5
<1> QED BY <1>2, <1>6 DEF S

(* A watchpoint that saw the value: the access is its baseline now.          *)
LEMMA EvaluatedWellKept ==
  ASSUME WellKept(watched, last),
         last \in [Addresses \X Kinds -> Values \cup {NoValue}],
         NEW addr \in Addresses, NEW kind \in Kinds, NEW value \in Values
  PROVE  WellKept(Evaluated(addr, kind, value), Rebased(addr, kind, value))
<1> DEFINE n == Len(watched)
           list == Evaluated(addr, kind, value)
           baseline == Rebased(addr, kind, value)
<1>1. /\ n \in Nat /\ DOMAIN watched = 1..n /\ watched \in Seq(Watches)
      /\ \A i \in 1..n : watched[i] \in Watches
  BY LenProperties, ElementOfSeq DEF WellKept
<1>2. list = [i \in 1..n |-> IF Matches(watched[i], addr, kind)
                               THEN Observe(watched[i], value) ELSE watched[i]]
  BY <1>1 DEF Evaluated
<1>3. \A a \in Addresses, k \in Kinds :
        baseline[a, k] = IF a = addr /\ k = kind THEN value ELSE last[a, k]
  <2>1. value \in Values \cup {NoValue}
    OBVIOUS
  <2>2. DiffersOnlyAt(baseline, addr, kind, value)
    BY <2>1, Rebasing
  <2> QED BY <2>2 DEF DiffersOnlyAt
<1>4. /\ \A i \in 1..n : UpToDate(watched[i], last)
      /\ \A i, j \in 1..n : Identity(watched[i]) = Identity(watched[j]) => i = j
  BY DEF WellKept, Distinct, Tracking
<1> HIDE DEF list, n, baseline
<1>5. ASSUME NEW i \in 1..n
      PROVE  /\ list[i] \in Watches /\ Identity(list[i]) = Identity(watched[i])
             /\ UpToDate(list[i], baseline)
  <2> DEFINE w == watched[i]
  <2>1. w \in Watches /\ UpToDate(w, last)
    BY <1>1, <1>4
  <2>2. list[i] = IF Matches(w, addr, kind) THEN Observe(w, value) ELSE w
    BY <1>2
  <2> HIDE DEF w
  <2>3. baseline[w.addr, w.kind] = IF w.addr = addr /\ w.kind = kind THEN value
                                   ELSE last[w.addr, w.kind]
    BY <1>3, <2>1 DEF Watches
  <2>4. CASE Matches(w, addr, kind) /\ w.condition.test = "changed"
    <3>1. list[i] = [w EXCEPT !.last = value]
      BY <2>2, <2>4 DEF Observe
    <3>2. /\ list[i] \in Watches /\ list[i].addr = w.addr /\ list[i].kind = w.kind
          /\ list[i].condition = w.condition /\ list[i].last = value
      BY <2>1, <3>1 DEF Watches
    <3>3. baseline[list[i].addr, list[i].kind] = value
      <4>1. list[i].addr = addr /\ list[i].kind = kind
        BY <2>4, <3>2 DEF Matches
      <4>2. baseline[addr, kind] = value
        BY <1>3
      <4> QED BY <4>1, <4>2
    <3> QED BY <3>2, <3>3 DEF Identity, UpToDate, w
  <2>5. CASE ~Matches(w, addr, kind) \/ w.condition.test # "changed"
    <3>1. list[i] = w
      BY <2>2, <2>5 DEF Observe
    <3>2. UpToDate(w, baseline)
      BY <2>1, <2>3, <2>5 DEF UpToDate, Matches
    <3> QED BY <2>1, <3>1, <3>2 DEF w
  <2> QED BY <2>4, <2>5
<1>6. list \in [1..n -> Watches]
  BY <1>2, <1>5
<1>7. list \in Seq(Watches) /\ Len(list) = n
  BY <1>1, <1>6, SeqDef, LenProperties
<1>8. Distinct(list) /\ Tracking(list, baseline)
  BY <1>4, <1>5, <1>7 DEF Distinct, Tracking
<1> QED BY <1>7, <1>8 DEF WellKept, list, baseline

(* set_cond adds a watchpoint that is not there, without a baseline.         *)
LEMMA SetWellKept ==
  ASSUME WatchInv, NEW addr \in Addresses, NEW kind \in Kinds,
         NEW condition \in Conditions, set_cond(addr, kind, condition)
  PROVE  WellKept(watched', last') /\ last' \in [Addresses \X Kinds -> Values \cup {NoValue}]
<1> DEFINE new == \A w \in Watched : Identity(w) # <<addr, kind, condition>>
           w0 == NewWatch(addr, kind, condition)
           n == Len(watched)
<1>1. /\ WellKept(watched, last) /\ watched \in Seq(Watches)
      /\ last \in [Addresses \X Kinds -> Values \cup {NoValue}]
      /\ n \in Nat /\ DOMAIN watched = 1..n /\ \A i \in 1..n : watched[i] \in Watches
  BY LenProperties, ElementOfSeq DEF WatchInv, WellKept
<1>2. CASE ~new
  BY <1>1, <1>2 DEF set_cond
<1>3. CASE new
  <2>1. w0 \in Watches
    BY DEF NewWatch, Watches
  <2>2. /\ watched' = Append(watched, w0)
        /\ last' = IF condition.test = "changed" THEN Rebased(addr, kind, NoValue) ELSE last
    BY <1>3 DEF set_cond, Rebased, NewWatch
  <2>3. \A i \in 1..n : Identity(watched[i]) # Identity(w0)
    BY <1>1, <1>3 DEF Watched, Identity, NewWatch
  <2>4. /\ Rebased(addr, kind, NoValue) \in [Addresses \X Kinds -> Values \cup {NoValue}]
        /\ \A a \in Addresses, k \in Kinds :
             Rebased(addr, kind, NoValue)[a, k] =
               IF a = addr /\ k = kind THEN NoValue ELSE last[a, k]
    <3>1. NoValue \in Values \cup {NoValue}
      OBVIOUS
    <3> HIDE DEF w0, new
    <3>2. DiffersOnlyAt(Rebased(addr, kind, NoValue), addr, kind, NoValue)
      BY <1>1, <3>1, Rebasing
    <3> QED BY <3>2 DEF DiffersOnlyAt
  <2>5. last' \in [Addresses \X Kinds -> Values \cup {NoValue}]
    BY <1>1, <2>2, <2>4
  <2>6. UpToDate(w0, last')
    BY <2>2, <2>4 DEF UpToDate, NewWatch
  <2>7. WellKept(watched, last')
    <3>1. ASSUME NEW i \in 1..n PROVE UpToDate(watched[i], last')
      <4> DEFINE w == watched[i]
      <4>1. w \in Watches /\ UpToDate(w, last) /\ Identity(w) # Identity(w0)
        BY <1>1, <2>3 DEF WellKept, Tracking
      <4> HIDE DEF w
      <4>2. CASE condition.test # "changed"
        BY <2>2, <4>1, <4>2 DEF w
      <4>3. CASE condition.test = "changed" /\ w.condition.test = "changed"
        <5>1. w.condition = condition
          <6>1. /\ w.condition \in Conditions /\ condition \in Conditions
                /\ \A c \in Conditions : c.test = "changed" => c = [test |-> "changed", value |-> 0]
            BY <4>1, WatchAssumption DEF Watches, WatchAssumption
          <6> QED BY <4>3, <6>1
        <5>2. ~ (w.addr = addr /\ w.kind = kind)
          BY <4>1, <5>1 DEF Identity, NewWatch
        <5>3. w.addr \in Addresses /\ w.kind \in Kinds /\ w.last = last[w.addr, w.kind]
          BY <4>1, <4>3 DEF Watches, UpToDate
        <5>4. last'[w.addr, w.kind] = last[w.addr, w.kind]
          BY <2>2, <2>4, <4>3, <5>2, <5>3
        <5> QED BY <5>3, <5>4 DEF UpToDate, w
      <4>4. CASE w.condition.test # "changed"
        BY <4>4 DEF UpToDate, w
      <4> QED BY <4>2, <4>3, <4>4
    <3> QED BY <1>1, <3>1 DEF WellKept, Tracking
  <2> HIDE DEF w0, new
  <2>8. WellKept(Append(watched, w0), last')
    <3> DEFINE baseline == last'
    <3>1. WellKept(watched, baseline) /\ UpToDate(w0, baseline)
      BY <2>6, <2>7
    <3>2. \A i \in 1..Len(watched) : Identity(watched[i]) # Identity(w0)
      BY <2>3
    <3> HIDE DEF baseline
    <3>3. WellKept(Append(watched, w0), baseline)
      BY <2>1, <3>1, <3>2, OneMore
    <3> QED BY <3>3 DEF baseline
  <2> QED BY <2>2, <2>5, <2>8
<1> QED BY <1>2, <1>3

-----------------------------------------------------------------------------
(* The queue of hits.                                                        *)

(* The hit that check pushes.                                                *)
NewHit(seq) == [seq |-> seq, dropped_after |-> 0]

(* A hit that fits follows the last one; one that does not is told by it.    *)
LEMMA PushTold ==
  ASSUME NEW queue, NEW total \in Nat, QueueInv(queue, total), total < MaxFired
  PROVE  QueueInv(push_hit(queue, NewHit(total + 1)), total + 1)
<1> DEFINE hit == NewHit(total + 1)
           n == Len(queue)
<1>1. /\ SaturateAt \in Nat /\ MaxFired \in Nat /\ MaxPendingHits \in Nat /\ MaxPendingHits > 0
  BY WatchAssumption DEF WatchAssumption
<1>2. /\ queue \in Seq(Hits) /\ n \in Nat /\ n <= MaxPendingHits
      /\ \A i \in 1..n : queue[i] \in Hits
      /\ \A i \in 1..(n - 1) : Follows(queue[i], queue[i + 1].seq)
      /\ n > 0 => Follows(queue[n], total + 1)
  BY LenProperties, ElementOfSeq DEF QueueInv, GapsTold
<1>3. hit \in Hits /\ hit.seq = total + 1 /\ hit.dropped_after = 0
  BY <1>1 DEF NewHit, Hits
<1>4. Follows(hit, total + 2)
  BY <1>1, <1>3 DEF Follows
<1> HIDE DEF hit, n
<1>5. CASE n < MaxPendingHits
  <2> DEFINE longer == Append(queue, hit)
  <2>1. /\ longer \in Seq(Hits) /\ Len(longer) = n + 1 /\ longer[n + 1] = hit
        /\ \A i \in 1..n : longer[i] = queue[i]
    BY <1>2, <1>3, AppendProperties DEF n
  <2>2. push_hit(queue, hit) = longer
    BY <1>5 DEF push_hit, n
  <2> HIDE DEF longer
  <2>3. ASSUME NEW i \in 1..n PROVE Follows(longer[i], longer[i + 1].seq)
    <3>1. CASE i = n
      BY <1>2, <1>3, <2>1, <3>1
    <3>2. CASE i # n
      <4>1. i \in 1..(n - 1) /\ i + 1 \in 1..n
        BY <1>2, <3>2
      <4> QED BY <1>2, <2>1, <4>1
    <3> QED BY <3>1, <3>2
  <2>4. n + 1 <= MaxPendingHits /\ (n + 1) - 1 = n
    BY <1>1, <1>2, <1>5
  <2>5. GapsTold(longer, total + 1)
    <3>1. Follows(longer[n + 1], (total + 1) + 1)
      BY <1>4, <2>1
    <3> QED BY <1>2, <2>1, <2>3, <2>4, <3>1 DEF GapsTold
  <2> QED BY <2>1, <2>2, <2>4, <2>5 DEF QueueInv, hit
<1>6. CASE ~ (n < MaxPendingHits)
  <2> DEFINE end == queue[n]
             d == IF end.dropped_after < SaturateAt THEN end.dropped_after + 1
                  ELSE end.dropped_after
             newest == [end EXCEPT !.dropped_after = d]
             longer == [queue EXCEPT ![n] = newest]
  <2>1. n \in 1..n /\ n > 0
    BY <1>1, <1>2, <1>6
  <2>2. end \in Hits /\ Follows(end, total + 1)
    BY <1>2, <2>1
  <2>3. push_hit(queue, hit) = longer
    <3>1. push_hit(queue, hit) =
            [queue EXCEPT ![n].dropped_after = IF @ < SaturateAt THEN @ + 1 ELSE @]
      BY <1>6 DEF push_hit, n
    <3> QED BY <3>1
  <2>4. d \in 0..SaturateAt
    BY <1>1, <2>2 DEF Hits
  <2>5. newest \in Hits /\ newest.seq = end.seq /\ newest.dropped_after = d
    BY <2>2, <2>4 DEF Hits
  <2>6. Follows(newest, total + 2)
    <3>1. end.seq \in Nat /\ end.dropped_after \in Nat /\ end.dropped_after <= SaturateAt
      BY <1>1, <2>2 DEF Hits
    <3>2. CASE end.dropped_after < SaturateAt
      <4>1. d = end.dropped_after + 1
        BY <3>2
      <4>2. total + 1 = end.seq + end.dropped_after + 1
        BY <2>2, <3>2 DEF Follows
      <4> HIDE DEF newest, d, end
      <4> QED BY <1>1, <2>5, <3>1, <3>2, <4>1, <4>2 DEF Follows
    <3>3. CASE ~ (end.dropped_after < SaturateAt)
      <4>1. d = end.dropped_after
        BY <3>3
      <4>2. total + 1 > end.seq + end.dropped_after
        BY <2>2, <3>3 DEF Follows
      <4> HIDE DEF newest, d, end
      <4> QED BY <1>1, <2>5, <3>1, <3>3, <4>1, <4>2 DEF Follows
    <3> QED BY <3>2, <3>3
  <2>7. /\ longer \in Seq(Hits) /\ Len(longer) = n /\ longer[n] = newest
        /\ \A i \in 1..n : i # n => longer[i] = queue[i]
    <3> HIDE DEF newest, end, d
    <3>1. queue \in [1..n -> Hits]
      BY <1>2, LenProperties DEF n
    <3>2. longer \in [1..n -> Hits]
      BY <2>1, <2>5, <3>1
    <3>3. longer \in Seq(Hits) /\ Len(longer) = n
      BY <1>2, <3>2, SeqDef, LenProperties
    <3> QED BY <2>1, <3>1, <3>3
  <2> HIDE DEF longer, newest, d
  <2>8. ASSUME NEW i \in 1..(n - 1) PROVE Follows(longer[i], longer[i + 1].seq)
    <3>1. longer[i] = queue[i] /\ i + 1 \in 1..n
      BY <1>2, <2>7
    <3>2. longer[i + 1].seq = queue[i + 1].seq
      BY <1>2, <2>5, <2>7, <3>1
    <3> QED BY <1>2, <3>1, <3>2
  <2>9. GapsTold(longer, total + 1)
    <3>1. Follows(longer[n], (total + 1) + 1)
      BY <2>6, <2>7
    <3> QED BY <2>7, <2>8, <3>1 DEF GapsTold
  <2> QED BY <1>2, <2>3, <2>7, <2>9 DEF QueueInv, hit
<1> QED BY <1>5, <1>6

(* Taking the oldest hit leaves the other gaps as they were.                 *)
LEMMA TakeTold ==
  ASSUME NEW queue, NEW total, QueueInv(queue, total), queue # <<>>
  PROVE  QueueInv(Tail(queue), total)
<1> DEFINE n == Len(queue)
           rest == Tail(queue)
<1>1. /\ queue \in Seq(Hits) /\ n \in Nat /\ n <= MaxPendingHits
      /\ \A i \in 1..(n - 1) : Follows(queue[i], queue[i + 1].seq)
      /\ n > 0 => Follows(queue[n], total + 1)
      /\ MaxPendingHits \in Nat
  BY LenProperties, WatchAssumption DEF QueueInv, GapsTold, WatchAssumption
<1>2. /\ rest \in Seq(Hits) /\ Len(rest) = n - 1 /\ Len(rest) \in Nat
      /\ \A i \in 1..Len(rest) : rest[i] = queue[i + 1]
  BY <1>1, HeadTailProperties, LenProperties
<1> HIDE DEF n, rest
<1>3. ASSUME NEW i \in 1..(Len(rest) - 1) PROVE Follows(rest[i], rest[i + 1].seq)
  <2>1. i \in 1..Len(rest) /\ i + 1 \in 1..Len(rest) /\ i + 1 \in 1..(n - 1)
    BY <1>1, <1>2
  <2> QED BY <1>1, <1>2, <2>1
<1>4. ASSUME Len(rest) > 0 PROVE Follows(rest[Len(rest)], total + 1)
  <2>1. Len(rest) \in 1..Len(rest) /\ Len(rest) + 1 = n /\ n > 0
    BY <1>1, <1>2, <1>4
  <2> QED BY <1>1, <1>2, <2>1
<1>5. GapsTold(rest, total)
  BY <1>3, <1>4 DEF GapsTold
<1> QED BY <1>1, <1>2, <1>5 DEF QueueInv, rest

(* An empty list and an empty queue.                                         *)
LEMMA NothingKept ==
  ASSUME NEW baseline, NEW total
  PROVE  WellKept(<<>>, baseline) /\ QueueInv(<<>>, total)
<1>1. /\ <<>> \in Seq(Watches) /\ <<>> \in Seq(Hits) /\ Len(<<>>) = 0
      /\ MaxPendingHits \in Nat /\ MaxPendingHits > 0
  BY EmptySeq, WatchAssumption DEF WatchAssumption
<1> QED BY <1>1 DEF WellKept, Distinct, Tracking, QueueInv, GapsTold

-----------------------------------------------------------------------------
(* The invariant holds in every reachable state.                             *)
THEOREM WatchInvariant == WatchSpec => []WatchInv
<1>1. WatchInit => WatchInv
  <2> SUFFICES ASSUME WatchInit PROVE WatchInv
    OBVIOUS
  <2>1. WellKept(watched, last) /\ QueueInv(pending, fired)
    BY NothingKept DEF WatchInit
  <2>2. fired \in 0..MaxFired
    BY WatchAssumption DEF WatchAssumption, WatchInit
  <2>3. last \in [Addresses \X Kinds -> Values \cup {NoValue}]
    BY DEF WatchInit
  <2> QED BY <2>1, <2>2, <2>3 DEF WatchInv
<1>2. WatchInv /\ [WatchNext]_watchVars => WatchInv'
  <2> SUFFICES ASSUME WatchInv, [WatchNext]_watchVars PROVE WatchInv'
    OBVIOUS
  <2>0. /\ WellKept(watched, last) /\ QueueInv(pending, fired) /\ fired \in 0..MaxFired
        /\ last \in [Addresses \X Kinds -> Values \cup {NoValue}]
        /\ MaxFired \in Nat /\ fired \in Nat
    BY WatchAssumption DEF WatchInv, WatchAssumption
  <2>1. ASSUME NEW addr \in Addresses, NEW kind \in Kinds, NEW condition \in Conditions,
               set_cond(addr, kind, condition)
        PROVE  WatchInv'
    <3>1. WellKept(watched', last') /\ last' \in [Addresses \X Kinds -> Values \cup {NoValue}]
      BY <2>1, SetWellKept
    <3>2. UNCHANGED <<pending, fired>>
      BY <2>1 DEF set_cond
    <3> QED BY <2>0, <3>1, <3>2 DEF WatchInv
  <2>2. ASSUME NEW addr \in Addresses, NEW kind \in Kinds, clear(addr, kind)
        PROVE  WatchInv'
    <3>1. watched' = Without(watched, addr, kind) /\ UNCHANGED <<pending, fired, last>>
      BY <2>2 DEF clear
    <3>2. WellKept(Without(watched, addr, kind), last)
      BY <2>0, WithoutWellKept
    <3> QED BY <2>0, <3>1, <3>2 DEF WatchInv
  <2>3. ASSUME NEW addr \in Addresses, NEW kind \in Kinds, NEW value \in Values,
               check(addr, kind, value)
        PROVE  WatchInv'
    <3>1. /\ watched' = Evaluated(addr, kind, value) /\ last' = Rebased(addr, kind, value)
          /\ fired < MaxFired
      BY <2>3 DEF check, Rebased
    <3>2. WellKept(Evaluated(addr, kind, value), Rebased(addr, kind, value))
      BY <2>0, EvaluatedWellKept
    <3>3. Rebased(addr, kind, value) \in [Addresses \X Kinds -> Values \cup {NoValue}]
      <4>1. value \in Values \cup {NoValue}
        OBVIOUS
      <4>2. DiffersOnlyAt(Rebased(addr, kind, value), addr, kind, value)
        BY <2>0, <4>1, Rebasing
      <4> QED BY <4>2 DEF DiffersOnlyAt
    <3>4. QueueInv(pending', fired') /\ fired' \in 0..MaxFired
      <4>1. CASE fires(addr, kind, value)
        <5>1. fired' = fired + 1 /\ pending' = push_hit(pending, NewHit(fired + 1))
          BY <2>3, <4>1 DEF check, NewHit
        <5>2. QueueInv(push_hit(pending, NewHit(fired + 1)), fired + 1)
          BY <2>0, <3>1, PushTold
        <5> QED BY <2>0, <3>1, <5>1, <5>2
      <4>2. CASE ~fires(addr, kind, value)
        BY <2>0, <2>3, <4>2 DEF check
      <4> QED BY <4>1, <4>2
    <3> QED BY <3>1, <3>2, <3>3, <3>4 DEF WatchInv
  <2>4. CASE clear_all
    BY <2>0, <2>4, NothingKept DEF clear_all, WatchInv
  <2>5. CASE take_hit
    BY <2>0, <2>5, TakeTold DEF take_hit, WatchInv
  <2>6. CASE UNCHANGED watchVars
    BY <2>6 DEF watchVars, WatchInv
  <2> QED BY <2>1, <2>2, <2>3, <2>4, <2>5, <2>6 DEF WatchNext
<1> QED BY <1>1, <1>2, PTL DEF WatchSpec

(* Type correctness of the set; no two of its watchpoints are the same.      *)
THEOREM WatchTyped == WatchSpec => []WatchTypeOK
<1>1. WatchInv => WatchTypeOK
  <2> SUFFICES ASSUME WatchInv PROVE WatchTypeOK
    OBVIOUS
  <2>1. watched \in Seq(Watches) /\ DOMAIN watched = 1..Len(watched)
    BY LenProperties DEF WatchInv, WellKept
  <2> QED BY <2>1 DEF WatchInv, WellKept, Distinct, QueueInv, WatchTypeOK, Watches, Hits
<1> QED BY <1>1, WatchInvariant, PTL

(* However often the queue overflows and is partly drained, the hits in it   *)
(* say how many are missing between each two and behind the last.            *)
THEOREM LossesAreTold == WatchSpec => []LossesAccounted
<1>1. WatchInv => LossesAccounted
  <2> SUFFICES ASSUME WatchInv PROVE LossesAccounted
    OBVIOUS
  <2>1. pending \in Seq(Hits) /\ GapsTold(pending, fired)
    BY DEF WatchInv, QueueInv
  <2>2. pending # <<>> => Len(pending) > 0
    BY <2>1, EmptySeq, LenProperties
  <2> QED BY <2>1, <2>2 DEF GapsTold, LossesAccounted
<1> QED BY <1>1, WatchInvariant, PTL

(* Whether a watchpoint fires is whether its condition holds.                *)
LEMMA SatisfiedHolds ==
  ASSUME NEW w \in Watches, UpToDate(w, last),
         NEW addr \in Addresses, NEW kind \in Kinds, Matches(w, addr, kind), NEW value
  PROVE  Satisfied(w, value) <=> Holds(w.condition, addr, kind, value)
<1>1. w.condition.test \in {"always", "changed", "equals"}
  BY WatchAssumption DEF Watches, WatchAssumption
<1>2. CASE w.condition.test = "always"
  BY <1>2 DEF Satisfied, Holds
<1>3. CASE w.condition.test = "changed"
  BY <1>3 DEF Satisfied, Holds, UpToDate, Matches
<1>4. CASE w.condition.test = "equals"
  BY <1>4 DEF Satisfied, Holds
<1> QED BY <1>1, <1>2, <1>3, <1>4

(* An access fires exactly when the condition of a watchpoint on it holds:   *)
(* a "changed" one never compares with a value that is not the last.         *)
THEOREM FiresAsSet == WatchSpec => FiresOnItsCondition
<1> DEFINE AsSet(addr, kind, value) ==
             fired' # fired <=> \E condition \in Conditions :
               /\ \E w \in Watched : Identity(w) = <<addr, kind, condition>>
               /\ Holds(condition, addr, kind, value)
<1>1. ASSUME WatchInv, NEW addr \in Addresses, NEW kind \in Kinds, NEW value \in Values,
             check(addr, kind, value)
      PROVE  AsSet(addr, kind, value)
  <2>1. fired' # fired <=> fires(addr, kind, value)
    <3>1. fired \in Nat
      BY <1>1, WatchAssumption DEF WatchInv, WatchAssumption
    <3> QED BY <1>1, <3>1 DEF check
  <2>2. ASSUME NEW w \in Watched
        PROVE  w \in Watches /\ UpToDate(w, last)
    <3>1. /\ watched \in Seq(Watches) /\ DOMAIN watched = 1..Len(watched)
          /\ Tracking(watched, last)
      BY <1>1, LenProperties DEF WatchInv, WellKept
    <3>2. PICK i \in 1..Len(watched) : w = watched[i]
      BY <2>2, <3>1 DEF Watched
    <3> QED BY <3>1, <3>2, ElementOfSeq DEF Tracking
  <2>3. ASSUME fires(addr, kind, value)
        PROVE  \E condition \in Conditions :
                 /\ \E w \in Watched : Identity(w) = <<addr, kind, condition>>
                 /\ Holds(condition, addr, kind, value)
    <3>1. PICK w \in Watched : Matches(w, addr, kind) /\ Satisfied(w, value)
      BY <2>3 DEF fires
    <3>2. w.condition \in Conditions /\ Identity(w) = <<addr, kind, w.condition>>
      BY <2>2, <3>1 DEF Watches, Identity, Matches
    <3>3. Holds(w.condition, addr, kind, value)
      BY <2>2, <3>1, SatisfiedHolds
    <3> QED BY <3>2, <3>3
  <2>4. ASSUME NEW condition \in Conditions, NEW w \in Watched,
               Identity(w) = <<addr, kind, condition>>, Holds(condition, addr, kind, value)
        PROVE  fires(addr, kind, value)
    <3>1. Matches(w, addr, kind) /\ w.condition = condition
      BY <2>4 DEF Matches, Identity
    <3>2. Satisfied(w, value)
      BY <2>2, <2>4, <3>1, SatisfiedHolds
    <3> QED BY <3>1, <3>2 DEF fires
  <2> QED BY <2>1, <2>3, <2>4
<1>2. WatchInv /\ [WatchNext]_watchVars =>
        [\A addr \in Addresses, kind \in Kinds, value \in Values :
           check(addr, kind, value) => AsSet(addr, kind, value)]_watchVars
  BY <1>1
<1> QED BY <1>2, WatchInvariant, PTL DEF WatchSpec, FiresOnItsCondition

-----------------------------------------------------------------------------
(* The hang detector.  Its window is anchored at its first sample, so a      *)
(* window that restarts inside a loop sees too little of it; what bounds the *)
(* delay is how little the window before can have seen: fewer than Threshold *)
(* samples, one of which is too far from the sample that opened this window. *)

(* The kth newest of the samples, and the newest n of them within a window.  *)
Past(s, k) == s[Len(s) + 1 - k]
Together(s, n) == \A a, b \in 1..n : Past(s, a) - Past(s, b) <= Window

(* The window covers the samples it counts, and while it is not reported its *)
(* ends are two of them.                                                     *)
WindowInv ==
  /\ ~cpu.active => cpu = Idle /\ samples = <<>>
  /\ Len(samples) >= Least(cpu.frames, Recent)
  /\ \A k \in 1..Len(samples) : k <= cpu.frames => Past(samples, k) \in cpu.lo..cpu.hi
  /\ cpu.active /\ ~told => /\ \E k \in 1..cpu.frames : Past(samples, k) = cpu.lo
                            /\ \E k \in 1..cpu.frames : Past(samples, k) = cpu.hi

(* A window is reported when it is due, once.                                *)
ReportInv ==
  /\ told = cpu.reported
  /\ told <=> cpu.frames >= Threshold
  /\ report > 0 => report = cpu.frames /\ report >= Threshold

(* A loop seen for longer than the window that is open began in the one      *)
(* before it, which was not reported either.                                 *)
DelayInv ==
  /\ told => quiet = 0
  /\ ~told => \A n \in 1..Len(samples) :
                n <= quiet /\ Together(samples, n) => n <= cpu.frames + Threshold - 2

HangInv == HangTypeOK /\ WindowInv /\ ReportInv /\ DelayInv

(* The newest sample is first, the others move back, the oldest may go.      *)
LEMMA Remembered ==
  ASSUME samples \in Seq(ProgramCounters), Len(samples) <= Recent,
         NEW pc \in ProgramCounters, samples' = Remember(pc)
  PROVE  /\ samples' \in Seq(ProgramCounters)
         /\ Len(samples') = Least(Len(samples) + 1, Recent)
         /\ Past(samples', 1) = pc
         /\ \A k \in 1..Len(samples') : k > 1 => Past(samples', k) = Past(samples, k - 1)
<1> DEFINE all == Append(samples, pc)
           first == Most(1, Len(all) - Recent + 1)
<1>1. Recent \in Nat /\ Recent >= 2 /\ Len(samples) \in Nat
  BY HangAssumption, LenProperties DEF HangAssumption, Recent
<1>2. /\ all \in Seq(ProgramCounters) /\ Len(all) = Len(samples) + 1
      /\ all[Len(samples) + 1] = pc
      /\ \A i \in 1..Len(samples) : all[i] = samples[i]
  BY AppendProperties
<1>3. samples' = SubSeq(all, first, Len(all))
  BY DEF Remember
<1>4. first \in Int /\ first \in 1..Len(all) /\ Len(all) - first + 1 = Least(Len(samples) + 1, Recent)
  <2> DEFINE l == Len(all)
  <2>1. l \in Nat /\ l = Len(samples) + 1 /\ first = Most(1, l - Recent + 1)
    BY <1>1, <1>2
  <2> HIDE DEF l, first, all
  <2>2. first \in Int /\ first \in 1..l /\ l - first + 1 = Least(Len(samples) + 1, Recent)
    <3>1. CASE l <= Recent
      <4>1. first = 1 /\ Least(Len(samples) + 1, Recent) = l
        BY <1>1, <2>1, <3>1 DEF Most, Least
      <4> QED BY <2>1, <4>1
    <3>2. CASE l > Recent
      <4>1. first = l - Recent + 1 /\ Least(Len(samples) + 1, Recent) = Recent
        BY <1>1, <2>1, <3>2 DEF Most, Least
      <4> QED BY <1>1, <2>1, <3>2, <4>1
    <3> QED BY <1>1, <2>1, <3>1, <3>2
  <2> QED BY <2>2 DEF l
<1> HIDE DEF all, first
<1>5. \A i \in first..Len(all) : all[i] \in ProgramCounters
  <2> SUFFICES ASSUME NEW i \in first..Len(all) PROVE all[i] \in ProgramCounters
    OBVIOUS
  <2>1. i \in 1..Len(all)
    BY <1>1, <1>2, <1>4
  <2> QED BY <1>2, <2>1, ElementOfSeq
<1>6. Len(all) \in Int
  BY <1>1, <1>2
<1>7. /\ SubSeq(all, first, Len(all)) \in Seq(ProgramCounters)
      /\ Len(SubSeq(all, first, Len(all))) = IF first <= Len(all) THEN Len(all) - first + 1 ELSE 0
      /\ \A i \in 1..Len(all) - first + 1 : SubSeq(all, first, Len(all))[i] = all[first + i - 1]
  <2> DEFINE end == Len(all)
  <2>1. end \in Int /\ first \in Int /\ \A i \in first..end : all[i] \in ProgramCounters
    BY <1>4, <1>5, <1>6
  <2> HIDE DEF end
  <2>2. /\ SubSeq(all, first, end) \in Seq(ProgramCounters)
        /\ Len(SubSeq(all, first, end)) = IF first <= end THEN end - first + 1 ELSE 0
        /\ \A i \in 1..end - first + 1 : SubSeq(all, first, end)[i] = all[first + i - 1]
    BY <2>1, SubSeqProperties
  <2> QED BY <2>2 DEF end
<1>8. /\ samples' \in Seq(ProgramCounters)
      /\ Len(samples') = Least(Len(samples) + 1, Recent)
      /\ Len(samples') = Len(all) - first + 1
      /\ \A i \in 1..Len(samples') : samples'[i] = all[first + i - 1]
  BY <1>3, <1>4, <1>6, <1>7
<1>9. Len(samples') \in Nat /\ Len(samples') >= 1 /\ Len(samples') <= Len(samples) + 1
  BY <1>1, <1>8 DEF Least
<1>10. \A k \in 1..Len(samples') : Past(samples', k) = all[Len(all) + 1 - k]
  <2> SUFFICES ASSUME NEW k \in 1..Len(samples') PROVE Past(samples', k) = all[Len(all) + 1 - k]
    OBVIOUS
  <2>1. Len(samples') + 1 - k \in 1..Len(samples')
    BY <1>9
  <2>2. first + (Len(samples') + 1 - k) - 1 = Len(all) + 1 - k
    BY <1>2, <1>4, <1>8, <1>9
  <2> QED BY <1>8, <2>1, <2>2 DEF Past
<1>11. Past(samples', 1) = pc
  BY <1>1, <1>2, <1>9, <1>10
<1>12. ASSUME NEW k \in 1..Len(samples'), k > 1
       PROVE  Past(samples', k) = Past(samples, k - 1)
  <2>1. Len(samples) + 1 - (k - 1) = Len(all) + 1 - k /\ Len(all) + 1 - k \in 1..Len(samples)
    BY <1>1, <1>2, <1>9, <1>12
  <2> QED BY <1>2, <1>10, <1>12, <2>1 DEF Past
<1> QED BY <1>8, <1>11, <1>12

(* The sample leaves the window no wider than a loop.                        *)
InLoop(w, pc) == Most(w.hi, pc) - Least(w.lo, pc) \in 0..Window

(* A window with one more sample in it.                                      *)
Widened(w, pc) == [active |-> TRUE, lo |-> Least(w.lo, pc), hi |-> Most(w.hi, pc),
                   frames |-> w.frames + 1, reported |-> w.reported]

(* What the window becomes: one more sample in it, or a fresh one.           *)
LEMMA Sampled ==
  ASSUME HangTypeOK, NEW pc \in ProgramCounters
  PROVE  \/ /\ cpu.active
            /\ InLoop(cpu, pc)
            /\ Watch(cpu, pc) = Widened(cpu, pc)
         \/ /\ cpu.active => Most(cpu.hi, pc) - Least(cpu.lo, pc) > Window
            /\ Watch(cpu, pc) = FreshWindow(pc)
<1>1. cpu \in [active : BOOLEAN, lo : Int, hi : Int, frames : 0..MaxFrames, reported : BOOLEAN]
      /\ (cpu.active => cpu.frames > 0 /\ cpu.hi - cpu.lo \in 0..Window) /\ pc \in Int
      /\ Window \in Nat
  BY HangAssumption DEF HangTypeOK, HangAssumption
<1>2. CASE cpu.active /\ Most(cpu.hi, pc) - Least(cpu.lo, pc) <= Window
  <2>1. InLoop(cpu, pc)
    BY <1>1, <1>2 DEF Most, Least, InLoop
  <2>2. Watch(cpu, pc) = [cpu EXCEPT !.lo = Least(cpu.lo, pc), !.hi = Most(cpu.hi, pc),
                                     !.frames = cpu.frames + 1]
    BY <1>2 DEF Watch
  <2> QED BY <1>1, <1>2, <2>1, <2>2 DEF Widened
<1>3. CASE ~ (cpu.active /\ Most(cpu.hi, pc) - Least(cpu.lo, pc) <= Window)
  <2>1. Watch(cpu, pc) = FreshWindow(pc)
    BY <1>3 DEF Watch
  <2>2. cpu.active => Most(cpu.hi, pc) - Least(cpu.lo, pc) > Window
    BY <1>1, <1>3 DEF Most, Least
  <2> QED BY <2>1, <2>2
<1> QED BY <1>2, <1>3

(* An idle detector satisfies the invariant.                                 *)
LEMMA IdleHangInv == HangInit => HangInv
<1> SUFFICES ASSUME cpu = Idle, report = 0, samples = <<>>, told = FALSE, quiet = 0
             PROVE  HangInv
  BY DEF HangInit
<1>1. /\ Threshold \in Nat /\ Threshold >= 2 /\ MaxFrames \in Nat /\ Window \in Nat
      /\ Recent \in Nat
  BY HangAssumption DEF HangAssumption, Recent
<1>2. samples \in Seq(ProgramCounters) /\ Len(samples) = 0
  BY EmptySeq
<1>7. /\ cpu.active = FALSE /\ cpu.frames = 0 /\ cpu.reported = FALSE
      /\ cpu \in [active : BOOLEAN, lo : Int, hi : Int, frames : 0..MaxFrames, reported : BOOLEAN]
  <2>1. 0 \in 0..MaxFrames
    BY <1>1
  <2> QED BY <2>1 DEF Idle
<1>8. ~told /\ ~cpu.active /\ ~cpu.reported
  BY <1>7
<1>3. HangTypeOK
  <2>1. report \in 0..MaxFrames /\ quiet \in 0..Recent /\ Len(samples) <= Recent
    BY <1>1, <1>2
  <2>2. told \in BOOLEAN
    OBVIOUS
  <2> QED BY <1>2, <1>7, <1>8, <2>1, <2>2 DEF HangTypeOK
<1>4. WindowInv
  BY <1>1, <1>2 DEF WindowInv, Idle, Least
<1>5. ReportInv
  <2>1. ~ (cpu.frames >= Threshold) /\ ~ (report > 0)
    BY <1>1, <1>7
  <2>2. told = cpu.reported
    BY <1>7
  <2> QED BY <1>8, <2>1, <2>2 DEF ReportInv
<1>6. DelayInv
  BY <1>1, <1>2 DEF DelayInv
<1> QED BY <1>3, <1>4, <1>5, <1>6 DEF HangInv

(* A sample inside the window: one more frame, perhaps the one it is due.    *)
LEMMA ExtendStep ==
  ASSUME HangInv, NEW pc \in ProgramCounters, observe(pc), cpu.active,
         InLoop(cpu, pc),
         Watch(cpu, pc) = Widened(cpu, pc)
  PROVE  HangInv'
<1> DEFINE w == Watch(cpu, pc)
           L == Len(samples)
           f == cpu.frames
<1>1. /\ Threshold \in Nat /\ Threshold >= 2 /\ MaxFrames \in Nat /\ Window \in Nat
      /\ Recent \in Nat /\ Recent = Threshold + Threshold - 2 /\ pc \in Int
  BY HangAssumption DEF HangAssumption, Recent
<1>2. /\ cpu \in [active : BOOLEAN, lo : Int, hi : Int, frames : 0..MaxFrames, reported : BOOLEAN]
      /\ f \in Nat /\ f > 0 /\ samples \in Seq(ProgramCounters) /\ L \in Nat /\ L <= Recent
      /\ told \in BOOLEAN /\ quiet \in 0..Recent
  BY <1>1, LenProperties DEF HangInv, HangTypeOK
<1>3. /\ samples' \in Seq(ProgramCounters) /\ Len(samples') = Least(L + 1, Recent)
      /\ Past(samples', 1) = pc
      /\ \A k \in 1..Len(samples') : k > 1 => Past(samples', k) = Past(samples, k - 1)
  BY <1>2, Remembered DEF observe
<1>4. Len(samples') \in Nat /\ Len(samples') <= Recent /\ Len(samples') <= L + 1 /\ Len(samples') >= 1
  BY <1>1, <1>2, <1>3 DEF Least
<1>5. /\ cpu'.active = TRUE /\ cpu'.lo = Least(cpu.lo, pc) /\ cpu'.hi = Most(cpu.hi, pc)
      /\ cpu'.frames = f + 1 /\ f + 1 <= MaxFrames
      /\ cpu' \in [active : BOOLEAN, lo : Int, hi : Int, frames : 0..MaxFrames, reported : BOOLEAN]
      /\ cpu'.reported = (cpu.reported \/ (f + 1 >= Threshold /\ ~cpu.reported))
      /\ report' = IF f + 1 >= Threshold /\ ~cpu.reported THEN f + 1 ELSE 0
      /\ told' = (report' > 0 \/ (told /\ f + 1 = f + 1))
      /\ quiet' = IF told' THEN 0 ELSE Least(quiet + 1, Recent)
  <2>1. /\ w.frames <= MaxFrames /\ cpu' = [w EXCEPT !.reported = @ \/ Due(w)]
        /\ report' = (IF Due(w) THEN w.frames ELSE 0)
        /\ told' = (report' > 0 \/ (told /\ w.frames = cpu.frames + 1))
        /\ quiet' = IF told' THEN 0 ELSE Least(quiet + 1, Recent)
    BY DEF observe
  <2>2. /\ w.frames = f + 1 /\ w.reported = cpu.reported /\ w.lo = Least(cpu.lo, pc)
        /\ w.hi = Most(cpu.hi, pc) /\ w.active = TRUE
        /\ w = [active |-> TRUE, lo |-> Least(cpu.lo, pc), hi |-> Most(cpu.hi, pc),
                frames |-> f + 1, reported |-> cpu.reported]
    BY DEF Widened
  <2>3. Least(cpu.lo, pc) \in Int /\ Most(cpu.hi, pc) \in Int /\ f + 1 \in 0..MaxFrames
    BY <1>1, <1>2, <2>1, <2>2 DEF Least, Most
  <2>4. w \in [active : BOOLEAN, lo : Int, hi : Int, frames : 0..MaxFrames, reported : BOOLEAN]
    BY <1>2, <2>2, <2>3
  <2> DEFINE due == f + 1 >= Threshold /\ ~cpu.reported
  <2>5. Due(w) = due
    BY <2>2 DEF Due
  <2> HIDE DEF w, due
  <2>6. /\ cpu'.active = w.active /\ cpu'.lo = w.lo /\ cpu'.hi = w.hi /\ cpu'.frames = w.frames
        /\ cpu'.reported = (w.reported \/ Due(w))
    BY <2>1, <2>4
  <2>7. cpu' \in [active : BOOLEAN, lo : Int, hi : Int, frames : 0..MaxFrames, reported : BOOLEAN]
    <3>1. (w.reported \/ Due(w)) \in BOOLEAN
      OBVIOUS
    <3> QED BY <2>1, <2>4, <3>1
  <2> QED BY <2>1, <2>2, <2>5, <2>6, <2>7 DEF due
<1> HIDE DEF w, L, f
<1>6. told = cpu.reported /\ (told <=> f >= Threshold) /\ Len(samples) = L /\ cpu.frames = f
  BY DEF HangInv, ReportInv, L, f
<1>7. ReportInv'
  <2>1. CASE told
    BY <1>1, <1>2, <1>5, <1>6, <2>1 DEF ReportInv
  <2>2. CASE ~told
    BY <1>1, <1>2, <1>5, <1>6, <2>2 DEF ReportInv
  <2> QED BY <2>1, <2>2
<1>8. told => told'
  BY <1>5
<1>9. HangTypeOK'
  <2>1. cpu'.hi - cpu'.lo \in 0..Window /\ cpu'.frames > 0
    BY <1>2, <1>5 DEF InLoop
  <2>2. report' \in 0..MaxFrames /\ quiet' \in 0..Recent
    BY <1>1, <1>2, <1>5 DEF Least
  <2>3. told' \in BOOLEAN
    BY <1>5
  <2> QED BY <1>3, <1>4, <1>5, <2>1, <2>2, <2>3 DEF HangTypeOK
<1>10. WindowInv'
  <2>1. Len(samples') >= Least(f + 1, Recent)
    <3>1. L >= Least(f, Recent)
      BY <1>6 DEF HangInv, WindowInv
    <3> QED BY <1>1, <1>2, <1>3, <3>1 DEF Least
  <2>2. cpu.hi \in Int /\ cpu.lo \in Int /\ cpu'.lo \in Int /\ cpu'.hi \in Int
        /\ cpu'.lo <= cpu.lo /\ cpu.hi <= cpu'.hi
        /\ cpu'.lo <= pc /\ pc <= cpu'.hi
    BY <1>1, <1>2, <1>5 DEF Least, Most
  <2>3. ASSUME NEW k \in 1..Len(samples'), k <= f + 1
        PROVE  Past(samples', k) \in cpu'.lo..cpu'.hi
    <3>1. CASE k = 1
      BY <1>1, <1>3, <2>2, <3>1
    <3>2. CASE k > 1
      <4>1. k - 1 \in 1..L /\ k - 1 <= f
        BY <1>2, <1>4, <2>3, <3>2
      <4>2. Past(samples, k - 1) \in cpu.lo..cpu.hi
        BY <1>6, <4>1 DEF HangInv, WindowInv
      <4>3. Past(samples, k - 1) \in cpu'.lo..cpu'.hi
        BY <2>2, <4>2
      <4> QED BY <1>3, <3>2, <4>3
    <3> QED BY <1>4, <3>1, <3>2
  <2>4. ASSUME ~told'
        PROVE  /\ \E k \in 1..f + 1 : Past(samples', k) = cpu'.lo
               /\ \E k \in 1..f + 1 : Past(samples', k) = cpu'.hi
    <3>1. ~told
      BY <1>8, <2>4
    <3>2. f + 1 < Threshold
      BY <1>1, <1>2, <1>5, <1>6, <2>4, <3>1
    <3>3. f <= L /\ Len(samples') >= f + 1
      <4>1. L >= Least(f, Recent)
        BY <1>6 DEF HangInv, WindowInv
      <4> QED BY <1>1, <1>2, <2>1, <3>2, <4>1 DEF Least
    <3>4. ASSUME NEW k \in 1..f
          PROVE  Past(samples', k + 1) = Past(samples, k) /\ k + 1 \in 1..f + 1
      <4>1. k + 1 \in 1..Len(samples') /\ k + 1 > 1 /\ (k + 1) - 1 = k
        BY <1>2, <1>4, <3>3
      <4> DEFINE m == k + 1
      <4> HIDE DEF m
      <4>2. Past(samples', m) = Past(samples, m - 1)
        BY <1>3, <4>1 DEF m
      <4> QED BY <1>2, <4>1, <4>2 DEF m
    <3>5. PICK kl \in 1..f, kh \in 1..f : Past(samples, kl) = cpu.lo /\ Past(samples, kh) = cpu.hi
      BY <1>6, <3>1 DEF HangInv, WindowInv
    <3>6. 1 \in 1..f + 1
      BY <1>2
    <3>7. cpu'.lo = cpu.lo \/ cpu'.lo = pc
      BY <1>5 DEF Least
    <3>8. cpu'.hi = cpu.hi \/ cpu'.hi = pc
      BY <1>5 DEF Most
    <3> QED BY <1>3, <3>4, <3>5, <3>6, <3>7, <3>8
  <2> QED BY <1>5, <2>1, <2>3, <2>4 DEF WindowInv
<1>11. DelayInv'
  <2>1. told' => quiet' = 0
    BY <1>5
  <2>2. ASSUME ~told', NEW n \in 1..Len(samples'), n <= quiet', Together(samples', n)
        PROVE  n <= f + 1 + Threshold - 2
    <3>1. ~told /\ n <= quiet + 1
      BY <1>1, <1>2, <1>4, <1>5, <1>8, <2>2 DEF Least
    <3>2. CASE n = 1
      BY <1>1, <1>2, <3>2
    <3>3. CASE n > 1
      <4>1. n - 1 \in 1..L /\ n - 1 <= quiet
        BY <1>2, <1>4, <3>1, <3>3
      <4>2. Together(samples, n - 1)
        <5> SUFFICES ASSUME NEW a \in 1..n - 1, NEW b \in 1..n - 1
                     PROVE  Past(samples, a) - Past(samples, b) <= Window
          BY DEF Together
        <5> DEFINE a1 == a + 1
                   b1 == b + 1
        <5>1. /\ a1 \in 1..n /\ b1 \in 1..n /\ a1 \in 1..Len(samples') /\ b1 \in 1..Len(samples')
              /\ a1 > 1 /\ b1 > 1 /\ a1 - 1 = a /\ b1 - 1 = b
          BY <1>4
        <5> HIDE DEF a1, b1
        <5>2. Past(samples', a1) = Past(samples, a) /\ Past(samples', b1) = Past(samples, b)
          BY <1>3, <5>1
        <5>3. Past(samples', a1) - Past(samples', b1) <= Window
          BY <2>2, <5>1 DEF Together
        <5> QED BY <5>2, <5>3
      <4>3. n - 1 <= f + Threshold - 2
        BY <1>6, <3>1, <4>1, <4>2 DEF HangInv, DelayInv
      <4> QED BY <1>1, <1>2, <1>4, <4>3
    <3> QED BY <1>4, <3>2, <3>3
  <2> QED BY <1>5, <2>1, <2>2 DEF DelayInv
<1> QED BY <1>7, <1>9, <1>10, <1>11 DEF HangInv

(* A sample outside it: the window that closes was not due, and one of its   *)
(* ends is too far for a loop that includes both it and the sample.          *)
LEMMA RestartStep ==
  ASSUME HangInv, NEW pc \in ProgramCounters, observe(pc),
         cpu.active => Most(cpu.hi, pc) - Least(cpu.lo, pc) > Window,
         Watch(cpu, pc) = FreshWindow(pc)
  PROVE  HangInv'
<1> DEFINE w == Watch(cpu, pc)
           L == Len(samples)
           f == cpu.frames
<1>1. /\ Threshold \in Nat /\ Threshold >= 2 /\ MaxFrames \in Nat /\ Window \in Nat
      /\ Recent \in Nat /\ Recent = Threshold + Threshold - 2 /\ pc \in Int
  BY HangAssumption DEF HangAssumption, Recent
<1>2. /\ cpu \in [active : BOOLEAN, lo : Int, hi : Int, frames : 0..MaxFrames, reported : BOOLEAN]
      /\ f \in Nat /\ samples \in Seq(ProgramCounters) /\ L \in Nat /\ L <= Recent
      /\ quiet \in 0..Recent /\ (cpu.active => f > 0 /\ cpu.hi - cpu.lo \in 0..Window)
      /\ told \in BOOLEAN
  BY <1>1, LenProperties DEF HangInv, HangTypeOK
<1>3. /\ samples' \in Seq(ProgramCounters) /\ Len(samples') = Least(L + 1, Recent)
      /\ Past(samples', 1) = pc
      /\ \A k \in 1..Len(samples') : k > 1 => Past(samples', k) = Past(samples, k - 1)
  BY <1>2, Remembered DEF observe
<1>4. Len(samples') \in Nat /\ Len(samples') <= Recent /\ Len(samples') <= L + 1 /\ Len(samples') >= 1
  BY <1>1, <1>2, <1>3 DEF Least
<1>5. (told <=> f >= Threshold) /\ (~cpu.active => f = 0 /\ L = 0)
  <2>1. ~cpu.active => f = 0 /\ L = 0
    BY EmptySeq DEF HangInv, WindowInv, Idle
  <2> QED BY <2>1 DEF HangInv, ReportInv
<1>6. /\ cpu' = FreshWindow(pc) /\ report' = 0 /\ ~told' /\ 1 <= MaxFrames
      /\ quiet' = Least(quiet + 1, Recent)
  <2>1. /\ w.frames <= MaxFrames /\ cpu' = [w EXCEPT !.reported = @ \/ Due(w)]
        /\ report' = (IF Due(w) THEN w.frames ELSE 0)
        /\ told' = (report' > 0 \/ (told /\ w.frames = cpu.frames + 1))
        /\ quiet' = IF told' THEN 0 ELSE Least(quiet + 1, Recent)
    BY DEF observe
  <2>2. w = FreshWindow(pc) /\ w.frames = 1 /\ w.reported = FALSE
    BY DEF FreshWindow
  <2>3. ~Due(w)
    BY <1>1, <2>2 DEF Due
  <2>4. cpu' = FreshWindow(pc)
    <3>1. (w.reported \/ Due(w)) = FALSE
      BY <2>2, <2>3
    <3>2. cpu' = [FreshWindow(pc) EXCEPT !.reported = FALSE]
      BY <2>1, <2>2, <3>1
    <3> QED BY <3>2 DEF FreshWindow
  <2>5. report' = 0
    BY <2>1, <2>3
  <2>6. ~told'
    <3>1. ~ (report' > 0)
      BY <2>5
    <3>2. ~ (told /\ w.frames = cpu.frames + 1)
      <4> SUFFICES ASSUME told, w.frames = cpu.frames + 1 PROVE FALSE
        OBVIOUS
      <4>1. f >= Threshold /\ w.frames = f + 1
        BY <1>5
      <4> HIDE DEF f
      <4> QED BY <1>1, <1>2, <2>2, <4>1
    <3> QED BY <2>1, <3>1, <3>2
  <2> QED BY <2>1, <2>2, <2>4, <2>5, <2>6
<1> HIDE DEF w, L, f
<1>7. /\ cpu'.active = TRUE /\ cpu'.lo = pc /\ cpu'.hi = pc /\ cpu'.frames = 1
      /\ cpu'.reported = FALSE
      /\ cpu' \in [active : BOOLEAN, lo : Int, hi : Int, frames : 0..MaxFrames, reported : BOOLEAN]
  BY <1>1, <1>6 DEF FreshWindow
<1>8. HangTypeOK'
  <2>1. cpu'.hi - cpu'.lo \in 0..Window /\ cpu'.frames > 0
    BY <1>1, <1>7
  <2>2. report' \in 0..MaxFrames /\ quiet' \in 0..Recent
    BY <1>1, <1>2, <1>6 DEF Least
  <2>3. told' \in BOOLEAN
    BY <1>6 DEF observe
  <2> QED BY <1>3, <1>4, <1>7, <2>1, <2>2, <2>3 DEF HangTypeOK
<1>9. ReportInv'
  <2>1. ~ (cpu'.frames >= Threshold) /\ ~ (report' > 0)
    BY <1>1, <1>6, <1>7
  <2>2. told' = cpu'.reported
    BY <1>6, <1>7, <1>8 DEF HangTypeOK
  <2> QED BY <1>6, <2>1, <2>2 DEF ReportInv
<1>10. WindowInv'
  <2>1. Len(samples') >= Least(cpu'.frames, Recent)
    BY <1>1, <1>4, <1>7 DEF Least
  <2>2. ASSUME NEW k \in 1..Len(samples'), k <= cpu'.frames
        PROVE  Past(samples', k) \in cpu'.lo..cpu'.hi
    <3>1. k = 1
      BY <1>7, <2>2
    <3> QED BY <1>1, <1>3, <1>7, <3>1
  <2>3. 1 \in 1..cpu'.frames
    BY <1>7
  <2> QED BY <1>3, <1>7, <2>1, <2>2, <2>3 DEF WindowInv
<1>11. DelayInv'
  <2> SUFFICES ASSUME NEW n \in 1..Len(samples'), n <= quiet', Together(samples', n)
               PROVE  n <= cpu'.frames + Threshold - 2
    BY <1>6 DEF DelayInv
  <2> SUFFICES ASSUME n > 1, n >= Threshold PROVE FALSE
    BY <1>1, <1>4, <1>7
  <2>1. n - 1 \in 1..L /\ n - 1 <= quiet /\ n - 1 >= 1
    BY <1>1, <1>2, <1>4, <1>6 DEF Least
  <2>2. ~told /\ cpu.active /\ f <= n - 1 /\ f <= L /\ f > 0
    <3>1. ~told
      BY <1>2, <2>1 DEF HangInv, DelayInv
    <3>2. cpu.active
      BY <1>2, <1>5, <2>1
    <3> QED BY <1>1, <1>2, <1>4, <1>5, <2>1, <3>1, <3>2
  <2>3. PICK kl \in 1..f, kh \in 1..f : Past(samples, kl) = cpu.lo /\ Past(samples, kh) = cpu.hi
    BY <2>2 DEF HangInv, WindowInv, f
  <2>4. ASSUME NEW k \in 1..f
        PROVE  /\ Past(samples, k) - pc <= Window
               /\ pc - Past(samples, k) <= Window
    <3> DEFINE m == k + 1
    <3>1. m \in 1..Len(samples') /\ m \in 1..n /\ m > 1 /\ m - 1 = k /\ 1 \in 1..n
      BY <1>2, <1>4, <2>2
    <3> HIDE DEF m
    <3>2. Past(samples', m) = Past(samples, k)
      BY <1>3, <3>1
    <3>3. Past(samples', m) - Past(samples', 1) <= Window /\ Past(samples', 1) - Past(samples', m) <= Window
      BY <3>1 DEF Together
    <3> QED BY <1>3, <3>2, <3>3
  <2>5. cpu.lo - pc <= Window /\ pc - cpu.lo <= Window /\ cpu.hi - pc <= Window /\ pc - cpu.hi <= Window
    BY <2>3, <2>4
  <2>6. cpu.lo \in Int /\ cpu.hi \in Int /\ cpu.hi - cpu.lo \in 0..Window
    BY <1>2, <2>2
  <2>7. Most(cpu.hi, pc) - Least(cpu.lo, pc) > Window
    BY <2>2
  <2> QED BY <1>1, <2>5, <2>6, <2>7 DEF Most, Least
<1> QED BY <1>8, <1>9, <1>10, <1>11 DEF HangInv

(* The invariant holds in every reachable state.                             *)
THEOREM HangInvariant == HangSpec => []HangInv
<1>1. HangInit => HangInv
  BY IdleHangInv
<1>2. HangInit' => HangInv'
  BY IdleHangInv, PTL
<1>3. HangInv /\ [HangNext]_hangVars => HangInv'
  <2> SUFFICES ASSUME HangInv, [HangNext]_hangVars PROVE HangInv'
    OBVIOUS
  <2>1. ASSUME NEW pc \in ProgramCounters, observe(pc) PROVE HangInv'
    <3>1. HangTypeOK
      BY DEF HangInv
    <3>2. CASE /\ cpu.active
               /\ InLoop(cpu, pc)
               /\ Watch(cpu, pc) = Widened(cpu, pc)
      BY <2>1, <3>2, ExtendStep
    <3>3. CASE /\ cpu.active => Most(cpu.hi, pc) - Least(cpu.lo, pc) > Window
               /\ Watch(cpu, pc) = FreshWindow(pc)
      BY <2>1, <3>3, RestartStep
    <3> QED BY <3>1, <3>2, <3>3, Sampled
  <2>2. CASE reset
    <3>1. HangInit'
      BY <2>2 DEF reset, HangInit
    <3> QED BY <3>1, <1>2
  <2>3. CASE UNCHANGED hangVars
    BY <2>3 DEF hangVars, HangInv, HangTypeOK, WindowInv, ReportInv, DelayInv, Past, Together
  <2> QED BY <2>1, <2>2, <2>3 DEF HangNext
<1> QED BY <1>1, <1>3, PTL DEF HangSpec

(* Type correctness of the detector.                                         *)
THEOREM HangTyped == HangSpec => []HangTypeOK
<1>1. HangInv => HangTypeOK
  BY DEF HangInv
<1> QED BY <1>1, HangInvariant, PTL

(* The newest n samples lie within a width when the sequence's last n do.    *)
LEMMA WithinTogether ==
  ASSUME samples \in Seq(ProgramCounters), NEW n \in 1..Len(samples)
  PROVE  Within(n, Window) <=> Together(samples, n)
<1> DEFINE L == Len(samples)
           T == (L - n + 1)..L
<1>1. L \in Nat
  BY LenProperties
<1>2. Within(n, Window) <=> \A i, j \in T : samples[i] - samples[j] <= Window
  BY DEF Within
<1>3. Together(samples, n) <=> \A a, b \in 1..n : samples[L + 1 - a] - samples[L + 1 - b] <= Window
  BY DEF Together, Past
<1> HIDE DEF L
<1>4. \A a \in 1..n : L + 1 - a \in T
  BY <1>1
<1>5. \A i \in T : L + 1 - i \in 1..n /\ L + 1 - (L + 1 - i) = i
  BY <1>1
<1> QED BY <1>2, <1>3, <1>4, <1>5

(* observe reports a CPU only when it spent the threshold in one window, and *)
(* a CPU that stays in one loop is reported before twice the threshold.      *)
THEOREM HangsAreFound == HangSpec => []ReportsAreHangs
<1>1. HangInv => ReportsAreHangs
  <2> SUFFICES ASSUME HangInv PROVE ReportsAreHangs
    OBVIOUS
  <2> DEFINE f == cpu.frames
             L == Len(samples)
  <2>1. /\ Threshold \in Nat /\ Threshold >= 2 /\ Window \in Nat
        /\ Recent \in Nat /\ Recent = Threshold + Threshold - 2
    BY HangAssumption DEF HangAssumption, Recent
  <2>2. /\ f \in Nat /\ samples \in Seq(ProgramCounters) /\ L \in Nat /\ L <= Recent
        /\ quiet \in 0..Recent /\ cpu.lo \in Int /\ cpu.hi \in Int
        /\ (cpu.active => cpu.hi - cpu.lo \in 0..Window)
        /\ report \in Nat
    BY <2>1, LenProperties DEF HangInv, HangTypeOK
  <2>3. ASSUME report > 0
        PROVE  report >= Threshold /\ L >= Threshold /\ Within(Threshold, Window)
    <3>1. report = f /\ report >= Threshold
      BY <2>3 DEF HangInv, ReportInv
    <3>2. cpu.active
      <4> SUFFICES ASSUME ~cpu.active PROVE FALSE
        OBVIOUS
      <4>1. f = 0
        BY DEF HangInv, WindowInv, Idle
      <4> QED BY <2>1, <3>1, <4>1
    <3>3. L >= Threshold
      <4>1. L >= Least(f, Recent)
        BY DEF HangInv, WindowInv
      <4> HIDE DEF f, L
      <4> QED BY <2>1, <2>2, <3>1, <4>1 DEF Least
    <3>4. \A k \in 1..Threshold : Past(samples, k) \in cpu.lo..cpu.hi
      <4>1. \A k \in 1..Threshold : k \in 1..Len(samples) /\ k <= cpu.frames
        BY <2>1, <2>2, <3>1, <3>3
      <4> QED BY <4>1 DEF HangInv, WindowInv
    <3>5. Together(samples, Threshold)
      <4> SUFFICES ASSUME NEW a \in 1..Threshold, NEW b \in 1..Threshold
                   PROVE  Past(samples, a) - Past(samples, b) <= Window
        BY DEF Together
      <4>1. Past(samples, a) \in cpu.lo..cpu.hi /\ Past(samples, b) \in cpu.lo..cpu.hi
        BY <3>4
      <4>2. cpu.hi - cpu.lo <= Window /\ cpu.lo \in Int /\ cpu.hi \in Int /\ Window \in Int
        BY <2>1, <2>2, <3>2
      <4> QED BY <4>1, <4>2
    <3>6. Threshold \in 1..Len(samples)
      BY <2>1, <2>2, <3>3
    <3>7. Within(Threshold, Window)
      BY <2>2, <3>5, <3>6, WithinTogether
    <3> QED BY <3>1, <3>3, <3>7
  <2>4. ASSUME L = Recent, Within(Recent, Window)
        PROVE  quiet < Recent
    <3>0. quiet \in Int /\ Recent \in Int /\ quiet <= Recent
      BY <2>1, <2>2
    <3> SUFFICES ASSUME quiet = Recent PROVE FALSE
      BY <3>0
    <3>1. Recent \in 1..Len(samples)
      BY <2>1, <2>2, <2>4
    <3>2. Together(samples, Recent)
      BY <2>2, <2>4, <3>1, WithinTogether
    <3>3. ~told
      BY <2>1 DEF HangInv, DelayInv
    <3>4. Recent <= f + Threshold - 2
      BY <3>1, <3>2, <3>3, <2>1 DEF HangInv, DelayInv
    <3>5. ~ (f >= Threshold)
      BY <3>3 DEF HangInv, ReportInv
    <3> HIDE DEF f
    <3> QED BY <2>1, <2>2, <3>4, <3>5
  <2> QED BY <2>3, <2>4 DEF ReportsAreHangs, ReportsAreJustified, HangsAreReported
<1> QED BY <1>1, HangInvariant, PTL
=============================================================================

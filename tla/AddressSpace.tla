---------------------------- MODULE AddressSpace ----------------------------
(* core/src/core/address_space16.rs: the memory map of a board.  A board     *)
(* declares regions, mirrors and banks once; its program writes memory and   *)
(* moves windows between banks; a debugger pokes memory and sets watchpoints *)
(* behind a filter of page flags; states are saved and loaded, also by       *)
(* another configuration of the board.  Memory is kept a byte per page and   *)
(* offsets count pages.  The values of a watchpoint's condition and the hits *)
(* are Watchpoints', the trace of writes is left out.                        *)
EXTENDS Integers, FiniteSets
LOCAL INSTANCE SequencesExt

CONSTANTS Pages,          \* 0..255 in the code
          Watchable,      \* addresses a watchpoint may be set at, <<page, byte>>
          AccessKinds,    \* WatchpointKind
          MemoryValues,
          Boards,         \* configurations, each a sequence of declarations
          BankSwitches,   \* what the board remaps: [start, count, region, base]
          CpuWrites,      \* regions the board's Bus::write stores to
          MaxWatches      \* bound: addresses watched at once

ASSUME PagesAssumption == Pages \subseteq Nat /\ IsFiniteSet(Pages)
ASSUME WatchableAssumption == \A addr \in Watchable : addr[1] \in Pages

VARIABLES pages,               \* page -> [region, base]
          regions,             \* the descriptors, [id, access] each
          backing,             \* region -> its bytes, for those that have any
          flags,               \* page -> kinds flagged: watch_read, watch_write
          active_watch_count,
          watched_set,         \* `watchpoints`: [addr, kind] each
          savedSpace,          \* a save state, or NoSavedSpace
          atSave               \* history: the mapping then, and all the CPU writes

debugState == <<flags, active_watch_count, watched_set>>
saves == <<savedSpace, atSave>>
spaceVars == <<pages, regions, backing, debugState, saves>>

UNMAPPED == 0
Nothing == [i \in {} |-> 0]
NoSavedSpace == [regions |-> Nothing, pages |-> Nothing]

-----------------------------------------------------------------------------
(* Building a map: the declarations, each over what the ones before it left. *)

is_cpu_writable(access) == access \in {"ReadWrite", "WriteOnly"}
HasBytes(access) == is_cpu_writable(access) \/ access = "ReadOnly"
Span(start, count) == {p \in Pages : p >= start /\ p < start + count}

allocate(bytes, id, length) ==
  [r \in DOMAIN bytes \cup {id} |-> IF r = id THEN [o \in 0..(length - 1) |-> 0]
                                    ELSE bytes[r]]

Remapped(table, m) ==
  [p \in Pages |-> IF p \in Span(m.start, m.count)
                     THEN [region |-> m.region, base |-> m.base + p - m.start]
                     ELSE table[p]]

region(s, d) ==
  [s EXCEPT !.pages = Remapped(@, [start |-> d.start, count |-> d.length,
                                   region |-> d.id, base |-> 0]),
            !.regions = @ \cup {[id |-> d.id, access |-> d.access]},
            !.backing = IF HasBytes(d.access) THEN allocate(@, d.id, d.length) ELSE @]

backing_region(s, d) ==
  [s EXCEPT !.regions = @ \cup {[id |-> d.id, access |-> "ReadOnly"]},
            !.backing = allocate(@, d.id, d.length)]

(* The two ranges of a mirror are apart.                                     *)
mirror(s, d) ==
  [s EXCEPT !.pages = [p \in Pages |->
     IF p \in Span(d.start, d.length) /\ p - d.start + d.source \in Pages
       THEN @[p - d.start + d.source] ELSE @[p]]]

Declare(s, d) ==
  CASE d.op = "region" -> region(s, d)
    [] d.op = "backing_region" -> backing_region(s, d)
    [] d.op = "mirror" -> mirror(s, d)
    [] OTHER -> [s EXCEPT !.pages = Remapped(@, d)]

Built(board) ==
  FoldLeft(Declare, [regions |-> {}, backing |-> Nothing,
                     pages |-> [p \in Pages |-> [region |-> UNMAPPED, base |-> 0]]], board)

(* The maps of the configurations, as they leave new.                        *)
Fresh == {Built(board) : board \in Boards}

InRange(table, bytes) ==
  \A p \in Pages : table[p].region \in DOMAIN bytes =>
                      table[p].base \in DOMAIN bytes[table[p].region]

(* Boards declare what they map, no window longer than its region; memory is *)
(* cleared.                                                                  *)
ASSUME BoardsAssumption ==
  \A fresh \in Fresh :
    LET ids == {d.id : d \in fresh.regions} IN
    /\ ids \subseteq Nat \ {UNMAPPED} /\ DOMAIN fresh.backing \subseteq ids
    /\ \A p \in Pages : fresh.pages[p].region \in ids \cup {UNMAPPED}
    /\ \A r \in DOMAIN fresh.backing : \A o \in DOMAIN fresh.backing[r] :
         /\ o \in Nat /\ 0..o \subseteq DOMAIN fresh.backing[r]
         /\ fresh.backing[r][o] \in MemoryValues
    /\ InRange(fresh.pages, fresh.backing)
ASSUME BanksAssumption ==
  \A m \in BankSwitches : m.start \in Nat /\ m.count \in Nat /\ m.base \in Nat

-----------------------------------------------------------------------------
(* The program and the debugger.                                             *)

has_region(id) == id \in DOMAIN backing

StoreAt(p, value) ==
  backing' = [backing EXCEPT ![pages[p].region][pages[p].base] = value]

write_backing(p, value) ==
  /\ pages[p].region \in CpuWrites /\ has_region(pages[p].region)
  /\ StoreAt(p, value)
  /\ UNCHANGED <<pages, regions, debugState, saves>>

(* A debugger's write goes to whatever has bytes, ROM as well.               *)
poke(p, value) ==
  /\ has_region(pages[p].region) /\ StoreAt(p, value)
  /\ UNCHANGED <<pages, regions, debugState, saves>>

(* A bank register moves a window to a bank the board has, and leaves the    *)
(* flags of its pages where they are.                                        *)
remap_pages(m) ==
  /\ has_region(m.region) /\ m.base + m.count - 1 \in DOMAIN backing[m.region]
  /\ pages' = Remapped(pages, m)
  /\ UNCHANGED <<regions, backing, debugState, saves>>

Entry(addr, kind) == [addr |-> addr, kind |-> kind]

set_watchpoint_cond(addr, kind) ==
  /\ watched_set' = watched_set \cup {Entry(addr, kind)}
  /\ Cardinality(watched_set') <= MaxWatches
  /\ flags' = [flags EXCEPT ![addr[1]] = @ \cup {kind}]
  /\ active_watch_count' =
       IF flags[addr[1]] = {} THEN active_watch_count + 1 ELSE active_watch_count
  /\ UNCHANGED <<pages, regions, backing, saves>>

(* The flag stays while another address of the page needs it.                *)
Needed(page, kind, watches) == \E w \in watches : w.addr[1] = page /\ w.kind = kind

clear_watchpoint_unshared(addr, kind) ==
  LET page == addr[1] IN
  /\ watched_set' = watched_set \ {Entry(addr, kind)}
  /\ flags' = [flags EXCEPT ![page] = @ \ {kind}]
  /\ active_watch_count' =
       IF flags[page] # {} /\ flags'[page] = {} /\ active_watch_count > 0
         THEN active_watch_count - 1 ELSE active_watch_count
  /\ UNCHANGED <<pages, regions, backing, saves>>
clear_watchpoint(addr, kind) ==
  LET page == addr[1] IN
  /\ watched_set' = watched_set \ {Entry(addr, kind)}
  /\ flags' = [flags EXCEPT ![page] =
                 IF Needed(page, kind, watched_set') THEN @ ELSE @ \ {kind}]
  /\ active_watch_count' =
       IF flags[page] # {} /\ flags'[page] = {} /\ active_watch_count > 0
         THEN active_watch_count - 1 ELSE active_watch_count
  /\ UNCHANGED <<pages, regions, backing, saves>>

clear_all_watchpoints ==
  /\ watched_set' = {} /\ flags' = [p \in Pages |-> {}] /\ active_watch_count' = 0
  /\ UNCHANGED <<pages, regions, backing, saves>>

-----------------------------------------------------------------------------
(* Saves: the regions the CPU can write by their declaration, and the table. *)

saved_readwrite_ids ==
  {d.id : d \in {e \in regions : e.access = "ReadWrite" /\ has_region(e.id)}}
saved_region_ids ==
  {d.id : d \in {e \in regions : is_cpu_writable(e.access) /\ has_region(e.id)}}

save_state ==
  /\ savedSpace' = [regions |-> [r \in saved_region_ids |-> backing[r]],
                    pages |-> pages]
  /\ atSave' = [pages |-> pages,
                memory |-> [r \in CpuWrites \cap DOMAIN backing |-> backing[r]]]
  /\ UNCHANGED <<pages, regions, backing, debugState>>

(* A load reads the regions in ascending order, skipping those this board    *)
(* lacks, up to the first of another length, whose bytes have been copied    *)
(* when it is too long; then the pages, up to the first that names a region  *)
(* this board lacks.                                                         *)
MisfitsShorter == {r \in DOMAIN savedSpace.regions \cap saved_region_ids :
                     ~ DOMAIN backing[r] \subseteq DOMAIN savedSpace.regions[r]}
Misfits == {r \in DOMAIN savedSpace.regions \cap saved_region_ids :
              DOMAIN savedSpace.regions[r] # DOMAIN backing[r]}
TooLong(r) == DOMAIN backing[r] \subseteq DOMAIN savedSpace.regions[r]
RegionsLoaded ==
  {r \in DOMAIN savedSpace.regions \cap saved_region_ids :
     \A m \in Misfits : r < m \/ (r = m /\ TooLong(r))}
Strangers ==
  {p \in Pages : /\ savedSpace.pages[p].region # UNMAPPED
                 /\ \A d \in regions : d.id # savedSpace.pages[p].region}
PagesLoaded == {p \in Pages : Misfits = {} /\ \A q \in Strangers : p < q}
Accepted == /\ Misfits = {} /\ Strangers = {}
            /\ saved_region_ids \subseteq DOMAIN savedSpace.regions

(* What the configurations of a board owe each other for a page table of one *)
(* to be loaded by another, which looks at no more than the region's id: a   *)
(* region of both that has bytes here has them there, and as many unless it  *)
(* is saved by both, when the load compares them.                            *)
ConfigurationsAgree ==
  LET Saved(s) == {d.id : d \in {e \in s.regions : is_cpu_writable(e.access)
                                                /\ e.id \in DOMAIN s.backing}}
  IN  \A f, g \in Fresh : \A r \in DOMAIN f.backing \cap {d.id : d \in g.regions} :
        /\ r \in DOMAIN g.backing
        /\ DOMAIN f.backing[r] = DOMAIN g.backing[r] \/ r \in Saved(f) \cap Saved(g)

(* What a load leaves; an error leaves what was read before it.              *)
BackingLoaded ==
  [r \in DOMAIN backing |->
     IF r \in RegionsLoaded THEN [o \in DOMAIN backing[r] |-> savedSpace.regions[r][o]]
                            ELSE backing[r]]
TableLoaded ==
  [p \in Pages |-> IF p \in PagesLoaded THEN savedSpace.pages[p] ELSE pages[p]]

load_state ==
  /\ savedSpace # NoSavedSpace
  /\ backing' = BackingLoaded /\ pages' = TableLoaded
  /\ UNCHANGED <<regions, debugState, saves>>

(* A rebuild of the machine, perhaps in another configuration.               *)
RebuildSpace ==
  /\ \E fresh \in Fresh : /\ pages' = fresh.pages /\ regions' = fresh.regions
                          /\ backing' = fresh.backing
  /\ flags' = [p \in Pages |-> {}] /\ active_watch_count' = 0 /\ watched_set' = {}
  /\ UNCHANGED saves

-----------------------------------------------------------------------------
SpaceInit == /\ \E fresh \in Fresh : /\ pages = fresh.pages /\ regions = fresh.regions
                                     /\ backing = fresh.backing
             /\ flags = [p \in Pages |-> {}] /\ active_watch_count = 0
             /\ watched_set = {}
             /\ savedSpace = NoSavedSpace /\ atSave = [pages |-> Nothing, memory |-> Nothing]

SpaceNext ==
  \/ \E p \in Pages, value \in MemoryValues : write_backing(p, value) \/ poke(p, value)
  \/ \E m \in BankSwitches : remap_pages(m)
  \/ \E addr \in Watchable, kind \in AccessKinds :
       set_watchpoint_cond(addr, kind) \/ clear_watchpoint(addr, kind)
  \/ clear_all_watchpoints
  \/ save_state \/ load_state \/ RebuildSpace

SpaceSpec == SpaceInit /\ [][SpaceNext]_spaceVars
-----------------------------------------------------------------------------
(* The state keeps its shape.                                                *)
SpaceTypeOK ==
  /\ flags \in [Pages -> SUBSET AccessKinds]
  /\ active_watch_count \in Nat
  /\ watched_set \subseteq [addr : Watchable, kind : AccessKinds]
  /\ \A r \in DOMAIN backing : \A o \in DOMAIN backing[r] :
       backing[r][o] \in MemoryValues

(* No page leads past the end of its region, through bank switches and loads *)
(* of saves that another configuration made: the bytes of all regions lie in *)
(* one vector, where the next region's follow.                               *)
PagesInRange == InRange(pages, backing)

(* The filter in front of the watchpoints is exact: no access to a watched   *)
(* address is lost in it, through sets, clears, bank switches and loads, and *)
(* none is looked up for a watchpoint that has gone; the count that opens    *)
(* the fast path of reads is that of the flagged pages.                      *)
FilterExact ==
  /\ \A p \in Pages, kind \in AccessKinds :
       kind \in flags[p] <=> Needed(p, kind, watched_set)
  /\ active_watch_count = Cardinality({p \in Pages : flags[p] # {}})

(* A load that is accepted, whenever it is made, brings back what the        *)
(* program had: every window where it was, and every byte the program can    *)
(* write, banked away or not, whatever was switched, written or rebuilt.     *)
LoadRestores ==
  savedSpace # NoSavedSpace /\ Accepted =>
    /\ \A p \in Pages : TableLoaded[p] = atSave.pages[p]
    /\ \A r \in CpuWrites \cap DOMAIN backing : \A o \in DOMAIN backing[r] :
         /\ r \in DOMAIN atSave.memory /\ o \in DOMAIN atSave.memory[r]
         /\ BackingLoaded[r][o] = atSave.memory[r][o]
=============================================================================

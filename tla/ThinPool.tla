-------------------------------- MODULE ThinPool ------------------------------
(***************************************************************************)
(* The metadata of a thin pool, dm/thin.rs: thin devices and snapshots map *)
(* virtual blocks to data blocks, and a space map counts for each data     *)
(* block how many devices map it.  A section under the locks of the pool   *)
(* is one step; ProvisionCallback takes them three times in a row.         *)
(*                                                                         *)
(* Fixed: break_sharing, which nothing calls yet, is called for a block    *)
(* that the space map says is shared.  mapped_blocks, the transaction id   *)
(* and the other figures that no decision reads are left out.              *)
(***************************************************************************)
EXTENDS Naturals, FiniteSets

CONSTANTS
  Callers,             \* threads with a ProvisionCallback
  Devices, VBlocks,    \* device ids, virtual blocks
  NoBlock,
  NrBlocks,            \* nr_data_blocks
  MaxRefs              \* bound: no snapshot counts a block more often

VARIABLES
  thin_devices,                         \* the ids in ThinPoolMetadata.thin_devices
  mappings,                             \* their ThinDeviceMetadata.mappings
  ref_counts, nr_free, search_start,    \* SpaceMap
  used_data_blocks,
  pc, call, block                       \* a caller's operation, arguments, data_block

vars == <<thin_devices, mappings, ref_counts, nr_free, search_start, used_data_blocks,
          pc, call, block>>

Space == <<ref_counts, nr_free, search_start, used_data_blocks>>
Pool  == <<thin_devices, mappings>>
Locals == <<pc, call, block>>

Blocks == 0 .. NrBlocks - 1
Unmapped == [v \in VBlocks |-> NoBlock]

Init ==
  /\ thin_devices = {} /\ mappings = [d \in Devices |-> Unmapped]
  /\ ref_counts = [b \in Blocks |-> 0]
  /\ nr_free = NrBlocks /\ search_start = 0 /\ used_data_blocks = 0
  /\ pc = [c \in Callers |-> "idle"]
  /\ call = [c \in Callers |-> <<>>]
  /\ block = [c \in Callers |-> NoBlock]

MappedBy(d) == {mappings[d][v] : v \in VBlocks} \ {NoBlock}

\* How often a device maps a block: the loops over its mappings count each.
Uses(d, b) == Cardinality({v \in VBlocks : mappings[d][v] = b})

-----------------------------------------------------------------------------
create_thin(d) ==
  /\ d \notin thin_devices
  /\ thin_devices' = thin_devices \cup {d}
  /\ mappings' = [mappings EXCEPT ![d] = Unmapped]
  /\ UNCHANGED <<Space, Locals>>

\* Mutated form of inc_refs: the snapshot does not count what it shares.
inc_refs_not(d) == UNCHANGED <<ref_counts, nr_free>>

\* inc_ref for every mapping of the origin.
inc_refs(d) ==
  /\ ref_counts' = [b \in Blocks |-> ref_counts[b] + Uses(d, b)]
  /\ nr_free' = nr_free - Cardinality({b \in MappedBy(d) : ref_counts[b] = 0})

create_snapshot(origin, snap) ==
  /\ origin \in thin_devices /\ snap \notin thin_devices
  /\ \A b \in MappedBy(origin) : ref_counts[b] < MaxRefs
  /\ thin_devices' = thin_devices \cup {snap}
  /\ mappings' = [mappings EXCEPT ![snap] = mappings[origin]]
  /\ inc_refs(origin)
  /\ UNCHANGED <<search_start, used_data_blocks, Locals>>

\* Mutated form of Less: a block is freed whoever else maps it.
LessAll(d, b) == IF Uses(d, b) > 0 THEN 0 ELSE ref_counts[b]

\* dec_ref for every mapping of the device, saturating at zero; every call that
\* leaves a count of zero, the k-th for a block that is counted k times or less,
\* counts one more free block.
Less(d, b) == IF ref_counts[b] > Uses(d, b) THEN ref_counts[b] - Uses(d, b) ELSE 0
Freed(d) == {x \in Blocks \X (1 .. Cardinality(VBlocks)) :
               x[2] <= Uses(d, x[1]) /\ x[2] >= ref_counts[x[1]]}

delete_thin(d) ==
  /\ d \in thin_devices
  /\ thin_devices' = thin_devices \ {d}
  /\ mappings' = [mappings EXCEPT ![d] = Unmapped]
  /\ ref_counts' = [b \in Blocks |-> Less(d, b)]
  /\ nr_free' = nr_free + Cardinality(Freed(d))
  /\ used_data_blocks' = used_data_blocks - Cardinality(Freed(d))
  /\ UNCHANGED <<search_start, Locals>>

-----------------------------------------------------------------------------
Goto(c, from, to) == pc[c] = from /\ pc' = [pc EXCEPT ![c] = to]

Return(c, from) ==
  /\ Goto(c, from, "idle")
  /\ call' = [call EXCEPT ![c] = <<>>]
  /\ block' = [block EXCEPT ![c] = NoBlock]

\* provision_block: lookup_mapping finds no device or a block, and the call
\* returns; or it finds none, and the call goes on.
provision_block(c, d, v) ==
  /\ d \in thin_devices /\ mappings[d][v] = NoBlock
  /\ Goto(c, "idle", "alloc")
  /\ call' = [call EXCEPT ![c] = <<"provision", d, v>>]
  /\ UNCHANGED <<Pool, Space, block>>

break_sharing(c, d, v) ==
  /\ d \in thin_devices /\ mappings[d][v] # NoBlock /\ ref_counts[mappings[d][v]] > 1
  /\ Goto(c, "idle", "alloc")
  /\ call' = [call EXCEPT ![c] = <<"share", d, v>>]
  /\ UNCHANGED <<Pool, Space, block>>

\* SpaceMap::alloc searches from search_start, once around.
Candidate(i) == (search_start + i) % NrBlocks
IsFirstFree(b) ==
  \E i \in Blocks : /\ b = Candidate(i) /\ ref_counts[b] = 0
                    /\ \A j \in 0 .. i - 1 : ref_counts[Candidate(j)] # 0

alloc_block(c) ==
  \E b \in Blocks :
    /\ nr_free > 0 /\ IsFirstFree(b)
    /\ ref_counts' = [ref_counts EXCEPT ![b] = 1]
    /\ nr_free' = nr_free - 1
    /\ search_start' = (b + 1) % NrBlocks
    /\ used_data_blocks' = used_data_blocks + 1
    /\ Goto(c, "alloc", "insert")
    /\ block' = [block EXCEPT ![c] = b]
    /\ UNCHANGED <<Pool, call>>

alloc_fails(c) ==
  /\ nr_free = 0 \/ \A b \in Blocks : ref_counts[b] # 0
  /\ Return(c, "alloc")
  /\ UNCHANGED <<Pool, Space>>

\* insert_mapping, which replaces a mapping that is there; the device may have
\* been deleted.
insert_mapping(c) ==
  /\ Return(c, "insert")
  /\ LET d == call[c][2]  v == call[c][3] IN
       mappings' = IF d \in thin_devices THEN [mappings EXCEPT ![d][v] = block[c]] ELSE mappings
  /\ UNCHANGED <<thin_devices, Space>>

Next ==
  \/ \E d \in Devices : create_thin(d) \/ delete_thin(d)
  \/ \E d, s \in Devices : create_snapshot(d, s)
  \/ \E c \in Callers, d \in Devices, v \in VBlocks : provision_block(c, d, v) \/ break_sharing(c, d, v)
  \/ \E c \in Callers : alloc_block(c) \/ alloc_fails(c) \/ insert_mapping(c)

Spec == Init /\ [][Next]_vars

-----------------------------------------------------------------------------
Mappings(b) == {m \in thin_devices \X VBlocks : mappings[m[1]][m[2]] = b}
Holders(b) == {c \in Callers : block[c] = b}

\* A block that a device maps or a caller is about to map is never free: it is
\* counted as often as it is mapped or held, through snapshots, deletions and
\* provisioning in any order; and nr_free and used_data_blocks, which alloc and
\* the status report rely on, are exact.
BlocksAreCounted ==
  /\ \A b \in Blocks : ref_counts[b] >= Cardinality(Mappings(b)) + Cardinality(Holders(b))
  /\ nr_free = Cardinality({b \in Blocks : ref_counts[b] = 0})
  /\ used_data_blocks = NrBlocks - nr_free

\* Devices share a data block only as snapshots do, at the same virtual block,
\* and no device maps a block that a caller is about to map.
SharersAreSnapshots ==
  \A b \in Blocks :
    /\ \A m, n \in Mappings(b) : m[2] = n[2]
    /\ Holders(b) # {} => Mappings(b) = {} /\ Cardinality(Holders(b)) = 1

\* "Check if already mapped (race condition check)": a call of provision_block
\* that has passed the check maps a block that is not mapped.
ProvisionsUnmapped ==
  \A c \in Callers :
    pc[c] = "insert" /\ call[c][1] = "provision" => mappings[call[c][2]][call[c][3]] = NoBlock

===============================================================================

----------------------------- MODULE MCPmmBoot -----------------------------
(* Twelve 4KB frames under three page directory entries, two frames of low  *)
(* memory, a kernel of three or four frames.  Memory maps have at most two  *)
(* usable entries (plus a reserved one) whose ends are aligned, unaligned,  *)
(* beyond the last frame, or wrap around; the structures around them are    *)
(* well formed, of several shapes and at several places, or broken in one   *)
(* size field.                                                              *)
EXTENDS PmmBoot

Usable(b, l) == [base |-> b, length |-> l, type |-> 1]

MCEntries ==
  { Usable(0, PMM_FRAME_SIZE * 2),
    Usable(PMM_FRAME_SIZE + 1, PMM_FRAME_SIZE * 4 - 2),
    Usable(PMM_FRAME_SIZE * 3, PMM_FRAME_SIZE * 2 + 1),
    Usable(PMM_FRAME_SIZE * 6, PMM_FRAME_SIZE),
    Usable(PMM_FRAME_SIZE * 7, 0),
    Usable(PMM_FRAME_SIZE * 10 - 1, WORD - 1),
    Usable(PMM_FRAME_SIZE * 9, WORD - PMM_FRAME_SIZE * 9),
    Usable(PMM_MAX_PHYS - 1, 2),
    Usable(PMM_MAX_PHYS, PMM_FRAME_SIZE),
    [base |-> PMM_FRAME_SIZE * 5, length |-> PMM_FRAME_SIZE, type |-> 2] }

MCMemMaps == {SetToSeq(m) : m \in {m \in SUBSET MCEntries : Cardinality(m) <= 3}}
FewMaps == {<<Usable(PMM_FRAME_SIZE * 2, PMM_FRAME_SIZE * 6 + 1)>>,
            <<Usable(PMM_FRAME_SIZE * 5, PMM_FRAME_SIZE * 2),
              Usable(PMM_FRAME_SIZE * 7, PMM_MAX_PHYS)>>}

Tag(type, size, entry_size, entries) ==
  [type |-> type, size |-> size, entry_size |-> entry_size,
   entries |-> IF size < 16 \/ entry_size < 24 THEN <<>>
               ELSE [i \in 1 .. (size - 16) \div entry_size |->
                       entries[((i - 1) % Len(entries)) + 1]]]
Plain(size) == Tag(1, size, 0, <<>>)
Mmap(entry_size, es) == Tag(MB2_TAG_MMAP, 16 + entry_size * Len(es), entry_size, es)
End == Tag(MB2_TAG_END, 8, 0, <<>>)

(* The tags one after the other from offset 8, at multiples of 8. *)
Lay(list) ==
  LET off[i \in 1 .. Len(list) + 1] ==
        IF i = 1 THEN HEADER
        ELSE off[i - 1] + Align8(IF list[i - 1].size < 8 THEN 8 ELSE list[i - 1].size)
      starts == {off[i] : i \in DOMAIN list}
  IN  [size |-> off[Len(list) + 1],
       tags |-> [o \in starts |-> list[CHOOSE i \in DOMAIN list : off[i] = o]]]

Env(bss_end, mb_info, total_size, tags) ==
  [bss_end |-> bss_end, mb_info |-> mb_info, total_size |-> total_size, tags |-> tags]

MCBss == {PMM_FRAME_SIZE * 3, PMM_FRAME_SIZE * 3 + 1}

(* Every memory map, in the plainest structure, at places that matter to    *)
(* the reservations.                                                        *)
MapEnvs ==
  UNION {LET lay == Lay(<<Mmap(24, m), End>>)
         IN  {Env(b, at, lay.size, lay.tags) : b \in MCBss,
                at \in {PMM_FRAME_SIZE - 8, PMM_FRAME_SIZE * 5 - 8, PMM_2MB * 2 - 16}} :
         m \in MCMemMaps}

(* Odd tag sizes and a large entry size, a second map, tags after the end   *)
(* tag; at the start of memory, across a 2MB boundary, at the 1GB limit and *)
(* beyond it; total_size short by a tag, in the middle of one, or absurd.   *)
Shapes == UNION {{<<Plain(9), Mmap(24, m), End>>,
                  <<Mmap(32, m), Plain(PMM_FRAME_SIZE), End>>,
                  <<Plain(8), Mmap(24, <<Head(m)>>), Mmap(40, Tail(m)), End>>,
                  <<Mmap(24, m), End, Mmap(24, m), End>>,
                  <<Mmap(24, m), Mmap(24, m), End>>} : m \in FewMaps}
ShapeEnvs ==
  UNION {LET lay == Lay(l)
         IN  {Env(PMM_FRAME_SIZE * 3, at, size, lay.tags) :
                at \in {0, 8, PMM_2MB - 8, PMM_2MB - 32,
                        PMM_MAX_PHYS - lay.size, PMM_MAX_PHYS - lay.size + 8,
                        PMM_MAX_PHYS - 8, PMM_MAX_PHYS},
                size \in {lay.size, lay.size - 1, lay.size - 8, lay.size - 9,
                          0, 8, 20, INFO_SIZE_MAX + 1}} : l \in Shapes}

(* One size field is wrong. *)
BrokenEnvs ==
  UNION {LET lay == Lay(<<Tag(type, size, es, m), Mmap(24, m), End>>)
         IN  {Env(PMM_FRAME_SIZE * 3, PMM_FRAME_SIZE * 4, lay.size, lay.tags)} :
         m \in FewMaps, type \in {1, MB2_TAG_MMAP},
         size \in {0, 7, 8, 15, 16, 17, 39, 40, 41, 63, 64, 72, 160, 8192},
         es \in {0, 23, 24, 25, 40, 8192}}

MCBootEnvs == MapEnvs \cup ShapeEnvs \cup BrokenEnvs

(* Frames that are held, free or never usable, depending on the map; and    *)
(* what is always ignored.                                                  *)
MCPhysAddrs == {PMM_FRAME_SIZE * f : f \in {3, 4, 6, 9}}
                 \cup {0, PMM_FRAME_SIZE * 3 + 1, PMM_FRAME_SIZE * 6 + 1,
                       PMM_MAX_PHYS, PMM_MAX_PHYS + PMM_FRAME_SIZE}
=============================================================================

------------------------------ MODULE FileLoader ------------------------------
(***************************************************************************)
(* FileLoader over the memory mappers: loaders map images into the address *)
(* space of the process, fill them and relocate them, and unmap them when  *)
(* they are destroyed.  On Windows VirtualAlloc leaves what is there alone; *)
(* on POSIX the mapper first asks for the preferred base with MAP_FIXED,   *)
(* which replaces what is there.  The rest of the process has memory of    *)
(* its own and does not know when it has been replaced: it goes on writing *)
(* and unmapping what it believes to hold.                                 *)
(*                                                                         *)
(* Neither the header nor a word of four units is kept within the image.   *)
(* What is written past its end goes into memory that somebody has; where  *)
(* nobody has it, it is lost in the rest of the last page, or the process  *)
(* ends there.                                                             *)
(*                                                                         *)
(* An address is one of a unit of memory of 16 bits, which holds a number  *)
(* below Base, scaled down as the address space is: relocation types change *)
(* words of one, two or four units, of which four hold any address.        *)
(***************************************************************************)
EXTENDS Integers, Sequences

CONSTANTS
    SpaceSize,      \* the size of the address space
    Base,           \* a unit holds 0 .. Base-1
    Images,         \* the binaries: see ImagesAssumption
    Loaders,        \* the FileLoaders of the process
    Elsewhere,      \* the addresses the rest of the process may allocate
    MaxHeld,        \* bound: how often it may have one without having freed it
    Platforms,      \* "posix", "win32" or both
    Process, Free,  \* model values: the rest of the process, nobody
    Null            \* model value: the null pointer

Addresses == 0 .. SpaceSize - 1
Unit == 0 .. Base - 1

\* A relocation type by its number, and the units its word has.
ABSOLUTE == 0
HIGH == 1
LOW == 2
HIGHLOW == 3
DIR64 == 10
Units(type) == CASE type \in {HIGH, LOW} -> 1 [] type = HIGHLOW -> 2 [] type = DIR64 -> 4
                 [] OTHER -> 0

Entry == [pos : Nat, type : Nat]
WordOf(entry) == entry.pos .. entry.pos + Units(entry.type) - 1

Section == [va : Nat, data : Seq(Unit)]

\* What the parsed file says: preferred base, virtual size, header as long as it
\* says, sections with the content the parser returns for them (none is skipped),
\* and for a PE file its relocations.
ASSUME ImagesAssumption ==
    \A img \in Images :
        /\ img.base \in Addresses /\ img.size \in Nat /\ img.header \in Seq(Unit)
        /\ img.sections \in Seq(Section)
        /\ img.pe \in BOOLEAN /\ img.relocations \in Seq(Entry)
ASSUME SpaceAssumption == SpaceSize \in Nat /\ Base \in Nat \ {0} /\ Elsewhere \subseteq Addresses
ASSUME MaxHeldAssumption == MaxHeld \in Nat \ {0}
ASSUME NobodyAssumption == /\ Process \notin Loaders /\ Free \notin Loaders /\ Process # Free
                           /\ Null \notin Addresses

VARIABLES
    platform,   \* which mapper MemoryMapper::Create made
    owner,      \* whose allocation an address is in
    held,       \* how often the rest of the process believes to have it
    memory,     \* what is there
    phase,      \* of a loader: "none", "open", "loaded" or "failed"
    file,       \* its m_target, or Null before it is created,
    ptr,        \* its m_mappedPtr
    contested,  \* addresses mapped while another mapping, or the rest of the
                \* process, had them too
    spoiled     \* addresses written past the end of an image

marks == <<contested, spoiled>>
loaders == <<phase, file, ptr>>
vars == <<platform, owner, held, memory, loaders, marks>>

-----------------------------------------------------------------------------
(* The mappers. *)

Extent(a, size) == a .. a + size - 1
Fits(a, size) == Extent(a, size) \subseteq Addresses
Unused(size) ==
    {a \in Addresses : Fits(a, size) /\ \A x \in Extent(a, size) : owner[x] = Free}

\* Mutant: as MAP_FIXED does.
TakeBase(base, size) == IF Fits(base, size) THEN {base} ELSE {}

\* VirtualAlloc at an address, which must not be in use.
Win32AtBase(base, size) == {base} \cap Unused(size)

\* mmap with MAP_FIXED at any address but zero.
PosixAtBase(base, size) == IF base # 0 /\ Fits(base, size) THEN {base} ELSE {}

\* Where Map may put the image: the preferred base, or if that is refused
\* anywhere else, or nowhere.
Map(base, size) ==
    (IF platform = "win32" THEN Win32AtBase(base, size) ELSE PosixAtBase(base, size))
        \cup Unused(size) \cup {Null}

\* Unmap: munmap takes an extent, VirtualFree the allocation at an address.
Unmapped(a, size) ==
    IF platform = "win32" THEN {x \in Addresses : owner[x] = owner[a] /\ owner[a] \in Loaders}
    ELSE Extent(a, size) \cap Addresses

-----------------------------------------------------------------------------
(* Filling the image: a function from its places to units.  Past its end are *)
(* those that a word may have which begins two units before it, and the rest *)
(* of a header that is longer.                                               *)

Places(img) ==
    0 .. (IF Len(img.header) > img.size + 2 THEN Len(img.header) ELSE img.size + 2) - 1

\* How many values n units have.
Power(n) == CASE n = 0 -> 1 [] n = 1 -> Base [] n = 2 -> Base * Base
              [] n = 3 -> Base * (Base * Base) [] n = 4 -> Base * (Base * (Base * Base))

Word(m, p, n) ==
    CASE n = 1 -> m[p]
      [] n = 2 -> m[p] + Base * m[p + 1]
      [] n = 3 -> m[p] + Base * (m[p + 1] + Base * m[p + 2])
      [] n = 4 -> m[p] + Base * (m[p + 1] + Base * (m[p + 2] + Base * m[p + 3]))
Unsigned(v, n) == v % Power(n)

Write(m, p, n, v) ==
    [i \in DOMAIN m |-> IF i \in p .. p + n - 1 THEN (v \div Power(i - p)) % Base ELSE m[i]]

\* What Map gives and Zero clears, with what is behind it.
Zeroed(img, a) ==
    [i \in Places(img) |-> IF i >= img.size /\ a + i \in Addresses THEN memory[a + i] ELSE 0]

\* memcpy of the header, whatever its length.
CopyHeader(img, m) ==
    [i \in DOMAIN m |-> IF i < Len(img.header) THEN img.header[i + 1] ELSE m[i]]

\* LoadSections: false for a section that ends outside the image, otherwise
\* each is copied, over what is there.
SectionsFit(img) ==
    \A k \in DOMAIN img.sections :
        LET s == img.sections[k] IN s.data = <<>> \/ s.va + Len(s.data) <= img.size

Copy(m, s) ==
    [i \in DOMAIN m |-> IF i \in s.va .. s.va + Len(s.data) - 1
                        THEN s.data[i - s.va + 1] ELSE m[i]]

LoadSections(img, m) ==
    LET loaded[k \in 0 .. Len(img.sections)] ==
            IF k = 0 THEN m ELSE Copy(loaded[k - 1], img.sections[k])
    IN  loaded[Len(img.sections)]

\* One relocation.  The bound is that of a word of two units for all types.
Relocate(m, e, delta, size) ==
    IF e.pos + 2 > size THEN m
    ELSE CASE e.type = HIGHLOW -> Write(m, e.pos, 2, Word(m, e.pos, 2) + delta)
           [] e.type = DIR64   -> Write(m, e.pos, 4, Word(m, e.pos, 4) + delta)
           [] e.type = HIGH    ->
                 Write(m, e.pos, 1, Unsigned(m[e.pos] * Base + Unsigned(delta, 2), 2) \div Base)
           [] e.type = LOW     -> Write(m, e.pos, 1, m[e.pos] + Unsigned(delta, 1))
           [] OTHER            -> m

\* Mutant: back to the preferred base.
RelocateBack(img, a, m) ==
    LET done[k \in 0 .. Len(img.relocations)] ==
            IF k = 0 THEN m
            ELSE Relocate(done[k - 1], img.relocations[k], img.base - a, img.size)
    IN  IF img.pe THEN done[Len(img.relocations)] ELSE m

\* ApplyRelocations: of PE files away from their preferred base.
ApplyRelocations(img, a, m) ==
    LET done[k \in 0 .. Len(img.relocations)] ==
            IF k = 0 THEN m
            ELSE Relocate(done[k - 1], img.relocations[k], a - img.base, img.size)
    IN  IF img.pe /\ a # img.base THEN done[Len(img.relocations)] ELSE m

\* The relocations it does not skip, by their number, and their words.
Applied(img, a) ==
    {k \in DOMAIN img.relocations :
        img.pe /\ a # img.base /\ img.relocations[k].pos + 2 <= img.size}
Moved(img, a) == UNION {WordOf(img.relocations[k]) : k \in Applied(img, a)}

-----------------------------------------------------------------------------
Mapped(l) == ptr[l] # Null
IsWithinMapping(l, p) == ptr[l] <= p /\ p < ptr[l] + file[l].size

Init ==
    /\ platform \in Platforms
    /\ owner \in [Addresses -> {Free, Process}]
    /\ \A a \in Addresses \ Elsewhere : owner[a] = Free
    /\ held = [a \in Addresses |-> IF owner[a] = Process THEN 1 ELSE 0]
    /\ memory = [a \in Addresses |-> 0]
    /\ phase = [l \in Loaders |-> "none"]
    /\ file = [l \in Loaders |-> Null]
    /\ ptr = [l \in Loaders |-> Null]
    /\ contested = {} /\ spoiled = {}

\* FileLoader::Create of a file that can be opened and parsed; of another it
\* returns nothing.
Create(l) ==
    /\ phase[l] = "none"
    /\ \E img \in Images : file' = [file EXCEPT ![l] = img]
    /\ phase' = [phase EXCEPT ![l] = "open"]
    /\ UNCHANGED <<platform, owner, held, memory, ptr, marks>>

\* Load fails before it has mapped anything: no size, or no room.
Fail(l) ==
    /\ phase' = [phase EXCEPT ![l] = "failed"]
    /\ UNCHANGED <<platform, owner, held, memory, file, ptr, marks>>

\* The addresses that other loaders have mapped, and with them those the rest of
\* the process believes to have.
MappedBesides(l) ==
    {x \in Addresses : \E m \in Loaders \ {l} : Mapped(m) /\ IsWithinMapping(m, x)}
Claimed(l) == MappedBesides(l) \cup {x \in Addresses : held[x] > 0}

\* An image is mapped and filled, past its end too.
Fill(l, a, image, past) ==
    LET here == Extent(a, file[l].size)
    IN  /\ memory' = [x \in Addresses |->
                         IF x \in here \/ (x - a \in past /\ owner[x] # Free) THEN image[x - a]
                         ELSE memory[x]]
        /\ contested' = (contested \ here) \cup (here \cap Claimed(l))
        /\ spoiled' = (spoiled \ here) \cup {x \in Addresses : x - a \in past}
HeaderPast(img) == img.size .. Len(img.header) - 1
WordsPast(img, a) == Moved(img, a) \ (0 .. img.size - 1)

\* Mutant: the image stays mapped, although the pointer to it is gone.
ForgetImage(l, a) ==
    LET here == Extent(a, file[l].size)
    IN  /\ owner' = [x \in Addresses |-> IF x \in here THEN l ELSE owner[x]]
        /\ phase' = [phase EXCEPT ![l] = "failed"]
        /\ UNCHANGED <<platform, held, memory, file, ptr, marks>>

\* It fails with a section outside the image, and unmaps what it has mapped,
\* with what was there before.
Withdraw(l, a) ==
    LET img == file[l]
        image == [i \in Places(img) |-> IF i < img.size THEN 0 ELSE CopyHeader(img, Zeroed(img, a))[i]]
    IN  /\ owner' = [x \in Addresses |-> IF x \in Extent(a, img.size) THEN Free ELSE owner[x]]
        /\ Fill(l, a, image, HeaderPast(img))
        /\ phase' = [phase EXCEPT ![l] = "failed"]
        /\ UNCHANGED <<platform, held, file, ptr>>

Succeed(l, a) ==
    LET img == file[l]
        image == ApplyRelocations(img, a, LoadSections(img, CopyHeader(img, Zeroed(img, a))))
    IN  /\ owner' = [x \in Addresses |-> IF x \in Extent(a, img.size) THEN l ELSE owner[x]]
        /\ Fill(l, a, image, HeaderPast(img) \cup WordsPast(img, a))
        /\ ptr' = [ptr EXCEPT ![l] = a]
        /\ phase' = [phase EXCEPT ![l] = "loaded"]
        /\ UNCHANGED <<platform, held, file>>

\* Load, which AnalysisContext::Create calls once.
Load(l) ==
    /\ phase[l] = "open"
    /\ LET img == file[l]
       IN  \/ (img.size = 0 \/ Null \in Map(img.base, img.size)) /\ Fail(l)
           \/ /\ img.size > 0
              /\ \E a \in Map(img.base, img.size) \ {Null} :
                    IF SectionsFit(img) THEN Succeed(l, a) ELSE Withdraw(l, a)

\* The destructor.
Destroy(l) ==
    /\ phase[l] # "none"
    /\ LET gone == IF Mapped(l) THEN Unmapped(ptr[l], file[l].size) ELSE {}
       IN  /\ owner' = [x \in Addresses |-> IF x \in gone THEN Free ELSE owner[x]]
           /\ memory' = [x \in Addresses |-> IF x \in gone THEN 0 ELSE memory[x]]
    /\ ptr' = [ptr EXCEPT ![l] = Null]
    /\ file' = [file EXCEPT ![l] = Null]
    /\ phase' = [phase EXCEPT ![l] = "none"]
    /\ contested' = contested \cap MappedBesides(l) /\ spoiled' = spoiled \cap MappedBesides(l)
    /\ UNCHANGED <<platform, held>>

\* The rest of the process takes memory that is free; writes to what it believes
\* to have, unless nobody has it, where it ends; and returns it, whoever has it.
ProcessAllocates ==
    /\ \E a \in Elsewhere : /\ owner[a] = Free /\ held[a] < MaxHeld
                            /\ owner' = [owner EXCEPT ![a] = Process]
                            /\ held' = [held EXCEPT ![a] = held[a] + 1]
    /\ UNCHANGED <<platform, memory, loaders, marks>>

ProcessWrites ==
    /\ \E a \in Elsewhere : /\ held[a] > 0 /\ owner[a] # Free
                            /\ \E u \in Unit : memory' = [memory EXCEPT ![a] = u]
    /\ UNCHANGED <<platform, owner, held, loaders, marks>>

ProcessFrees ==
    /\ \E a \in Elsewhere : /\ held[a] > 0
                            /\ owner' = [owner EXCEPT ![a] = Free]
                            /\ held' = [held EXCEPT ![a] = held[a] - 1]
                            /\ memory' = [memory EXCEPT ![a] = 0]
    /\ UNCHANGED <<platform, loaders, marks>>

Next ==
    \/ \E l \in Loaders : Create(l) \/ Load(l) \/ Destroy(l)
    \/ ProcessAllocates
    \/ ProcessWrites
    \/ ProcessFrees

Spec == Init /\ [][Next]_vars
-----------------------------------------------------------------------------
(* Properties. *)

\* The type invariant.
TypeOK ==
    /\ platform \in Platforms
    /\ owner \in [Addresses -> Loaders \cup {Process, Free}]
    /\ held \in [Addresses -> 0 .. MaxHeld]
    /\ memory \in [Addresses -> Unit]
    /\ phase \in [Loaders -> {"none", "open", "loaded", "failed"}]
    /\ file \in [Loaders -> Images \cup {Null}]
    /\ ptr \in [Loaders -> Addresses \cup {Null}]
    /\ contested \subseteq Addresses /\ spoiled \subseteq Addresses

\* A loader keeps each address of its mapping for as long as it lives, whatever
\* others load, destroy, write and unmap, unless somebody else had that address
\* too when one of them mapped it; on Windows nobody ever has.
MappingsAreOwned ==
    /\ \A l \in Loaders : Mapped(l) =>
          \A a \in Addresses \ contested : IsWithinMapping(l, a) => owner[a] = l
    /\ platform = "win32" => contested = {}

\* No memory is left behind: what belongs to a loader is in the mapping that
\* its destructor will unmap, also after a Load that failed half way.
\* (With the type invariant.)
NothingLeaks ==
    /\ TypeOK
    /\ \A a \in Addresses : owner[a] \in Loaders =>
          LET l == owner[a] IN Mapped(l) /\ IsWithinMapping(l, a)

\* The content a file gives to place i: of the last section that has it, or
\* of the header.
ContentAt(img, i) ==
    LET covering == {k \in DOMAIN img.sections :
                        LET s == img.sections[k] IN i \in s.va .. s.va + Len(s.data) - 1}
    IN  IF covering # {}
        THEN LET k == CHOOSE k \in covering : \A j \in covering : j <= k
             IN  img.sections[k].data[i - img.sections[k].va + 1]
        ELSE IF i < Len(img.header) THEN img.header[i + 1] ELSE 0

\* Whether no other relocation that is applied changes the word of the k-th, and
\* the units its word has within the image.
Alone(img, a, k) ==
    \A j \in Applied(img, a) \ {k} : WordOf(img.relocations[j]) \cap WordOf(img.relocations[k]) = {}
Inside(img, e) ==
    IF e.pos + Units(e.type) <= img.size THEN Units(e.type) ELSE img.size - e.pos

\* What a relocation adds to its word.
Distance(e, delta) == IF e.type = HIGH THEN (delta % Power(2)) \div Base ELSE delta

\* Relocated once and for the place it has: for as long as the loader lives,
\* each word with a relocation, or what the image has of it, holds what the file
\* has, moved by the distance from the preferred base, and all else is what the
\* file has, at every address that nobody else had and into which no image was
\* written past its end.
ImageIsRelocated ==
    \A l \in Loaders : Mapped(l) =>
        LET img == file[l]
            a == ptr[l]
            here == [i \in 0 .. img.size - 1 |-> memory[a + i]]
            content == [i \in 0 .. img.size - 1 |-> ContentAt(img, i)]
            clean == {i \in 0 .. img.size - 1 : a + i \notin contested \cup spoiled}
        IN  /\ \A k \in Applied(img, a) :
                  LET e == img.relocations[k]
                      n == Inside(img, e)
                  IN  n > 0 /\ e.pos .. e.pos + n - 1 \subseteq clean /\ Alone(img, a, k) =>
                         Word(here, e.pos, n)
                            = (Word(content, e.pos, n) + Distance(e, a - img.base)) % Power(n)
            /\ \A i \in clean \ Moved(img, a) : here[i] = content[i]
=============================================================================

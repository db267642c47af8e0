-------------------------------- MODULE BMFS --------------------------------
(***************************************************************************)
(* The disk image tool of the boot loader (Bootloader/BMFS/bmfs.c): the    *)
(* directory of a BMFS disk and the commands that change it.  A command is *)
(* a run of the program, which reads the directory from the disk and       *)
(* writes it back at its end, so a command is one action; it may only stop *)
(* half way while it fills a new image.                                    *)
(*                                                                         *)
(* Numbers are unsigned and wrap at Word.  Contents of files, and the boot *)
(* loader and kernel that `initialize' copies into block 0, are left out;  *)
(* so are the 8 KiB of the tag and the directory, less than a MiB, that a  *)
(* format adds to an image shorter than that.                              *)
(***************************************************************************)
EXTENDS Integers, FiniteSets, Sequences

CONSTANTS
  Names,         \* the file names given to the commands
  MAX_ENTRIES,   \* 64 in the code
  Word,          \* 2^64 in the code
  KILO,          \* 1024 in the code
  SizeArguments, \* disk sizes given to initialize: digits and unit (0 for none, 1 for K ...)
  MaxSizes,      \* the sizes given to create, in MiB
  CreatesWhenFull, \* may create be used when all the entries are used or deleted?
  Lengths,       \* the sizes in bytes of the local files given to write
  MAX_IMAGE,     \* the longest image that the host lets a write make
  LAST_BLOCK     \* the last one fseek reaches, 2^42 - 1 in the code (or a bound)

MiB == KILO * KILO
BlockSize == 2 * MiB
minimumDiskSize == 6 * MiB

ASSUME BMFSAssumption ==
  /\ MAX_ENTRIES \in Nat \ {0}
  /\ KILO \in Nat \ {0, 1} /\ Word \in Nat /\ Word > 10 * minimumDiskSize
  /\ SizeArguments \subseteq [digits : Seq(0..9), unit : Nat]
  /\ MaxSizes \subseteq 1..(Word - 2) /\ Lengths \subseteq Nat
  /\ MAX_IMAGE \in 0..(Word - 1)
  /\ LAST_BLOCK \in Nat /\ LAST_BLOCK * BlockSize < Word \div 2
  /\ CreatesWhenFull \in BOOLEAN
  /\ Names \intersect {"end", "deleted"} = {}

Entries == 1..MAX_ENTRIES

VARIABLES
  image,     \* bytes of the disk image
  tagged,    \* does the disk carry the BMFS tag?
  Directory  \* FileName ("end" for 0x00, "deleted" for 0x01) and its numbers

bmfsVars == <<image, tagged, Directory>>

NoEntry == [name |-> "end", start |-> 0, reserved |-> 0, size |-> 0]
EmptyDirectory == [i \in Entries |-> NoEntry]

BMFSInit == image = 0 /\ tagged = FALSE /\ Directory = EmptyDirectory

-----------------------------------------------------------------------------
(* Looking a file up *)

\* The entries before the end of the directory.
Seen == {i \in Entries : \A j \in 1..i : Directory[j].name # "end"}
Live == {i \in Seen : Directory[i].name # "deleted"}

\* findfile: the first entry with the name.
Slots(f) == {i \in Seen : Directory[i].name = f}
FoundAt(f, i) == i \in Slots(f) /\ \A j \in Slots(f) : i <= j

-----------------------------------------------------------------------------
(* format and initialize *)

\* The format command asks for /FORCE on a disk that is formatted already.
Format ==
  /\ tagged' = TRUE
  /\ Directory' = EmptyDirectory
  /\ UNCHANGED image

Wrapped(n) == n % Word

Overflow == -1

\* One digit of the size; the test for overflow is the code's.
AddDigit(size, n) ==
  IF size = Overflow THEN Overflow
  ELSE IF Wrapped(size * 10) > size THEN Wrapped(size * 10 + n)
  ELSE IF size = 0 THEN n
  ELSE Overflow

TimesKilo(size) ==
  IF size = Overflow THEN Overflow
  ELSE IF Wrapped(size * KILO) > size THEN Wrapped(size * KILO)
  ELSE IF size = 0 THEN 0
  ELSE Overflow

\* The size string of initialize in bytes: its digits, then its unit.
DiskSize(a) ==
  LET size[i \in 0..(Len(a.digits) + a.unit)] ==
        IF i = 0 THEN 0
        ELSE IF i <= Len(a.digits) THEN AddDigit(size[i - 1], a.digits[i])
        ELSE TimesKilo(size[i - 1])
  IN  size[Len(a.digits) + a.unit]

\* The image is truncated, filled with zeros and formatted; when a write fails
\* half way it stays short and without the tag (whole blocks stand for every
\* length it may have, since no command reads it then).
Initialize(a) ==
  /\ DiskSize(a) >= minimumDiskSize
  /\ Directory' = EmptyDirectory
  /\ \/ image' = DiskSize(a) /\ tagged' = TRUE
     \/ /\ \E n \in 0..(DiskSize(a) - 1) : n % BlockSize = 0 /\ image' = n
        /\ tagged' = FALSE

-----------------------------------------------------------------------------
(* create, write and delete *)

\* Mutant: the tag is not looked at.
AnyDisk == TRUE

\* The commands refuse a disk without the tag.
ValidDisk == tagged

num_blocks == (image \div MiB) \div 2

\* Is no entry marked as the end?
Full == Cardinality(Seen) = MAX_ENTRIES

\* How many entries are used or deleted: the code counts none when no entry
\* is marked as the end.
num_used_entries == IF Full THEN 0 ELSE Cardinality(Seen)

\* StartingBlockCmp: deleted entries go last.
Before(e, d) ==
  \/ e.name # "deleted" /\ d.name = "deleted"
  \/ e.name # "deleted" /\ d.name # "deleted" /\ e.start <= d.start
  \/ e.name = "deleted" /\ d.name = "deleted"

\* The copies of the first entries that qsort may leave, as their indices.
Sorted ==
  {s \in [1..num_used_entries -> 1..num_used_entries] :
     /\ \A i, j \in 1..num_used_entries : s[i] = s[j] => i = j
     /\ \A i \in 1..(num_used_entries - 1) :
          Before(Directory[s[i]], Directory[s[i + 1]])}

EndOf(e) == e.start + e.reserved

\* The gap before the t-th sorted entry: it begins where the entry before it
\* ends, and goes up to the last block when there is no live entry.
GapStart(s, t) == IF t = 1 THEN 1 ELSE Wrapped(EndOf(Directory[s[t - 1]]))

\* Mutant: one block less at the end of the disk.
GapEndTooSoon(s, t) ==
  IF t > num_used_entries \/ Directory[s[t]].name = "deleted"
    THEN Wrapped(num_blocks - 2) ELSE Directory[s[t]].start

\* Mutant: the last block is given away.
GapEndTooLate(s, t) ==
  IF t > num_used_entries \/ Directory[s[t]].name = "deleted"
    THEN num_blocks ELSE Directory[s[t]].start

GapEnd(s, t) ==
  IF t > num_used_entries \/ Directory[s[t]].name = "deleted"
    THEN Wrapped(num_blocks - 1) ELSE Directory[s[t]].start

LargeEnough(s, t, n) == Wrapped(GapEnd(s, t) - GapStart(s, t)) >= n

\* The search for an area: the start of the first gap that is large enough (0
\* means that there was none).
Areas(s, n) ==
  {GapStart(s, t) : t \in {v \in 1..(num_used_entries + 1) :
                             /\ LargeEnough(s, v, n)
                             /\ \A u \in 1..(v - 1) : ~LargeEnough(s, u, n)}} \ {0}

\* MiB rounded up to blocks.
Blocks(maxsize) == (maxsize + (maxsize % 2)) \div 2

\* The first entry that is deleted or, failing that, the end of the directory.
FreeEntry(i) ==
  /\ Directory[i].name \in {"end", "deleted"}
  /\ \A j \in 1..(i - 1) : Directory[j].name \notin {"end", "deleted"}

\* When the entry taken is the one at num_used_entries, the next is made the end.
\* No file is placed where fseek would not reach it.
Create(f, maxsize) ==
  /\ ValidDisk
  /\ Slots(f) = {}
  /\ Full => CreatesWhenFull
  /\ \E i \in Entries, s \in Sorted :
       /\ FreeEntry(i)
       /\ \E b \in Areas(s, Blocks(maxsize)) \intersect 1..LAST_BLOCK :
            Directory' = [j \in Entries |->
              IF j = i THEN [name |-> f, start |-> b,
                             reserved |-> Blocks(maxsize), size |-> 0]
              ELSE IF i = num_used_entries + 1 /\ j = i + 1
                THEN [Directory[j] EXCEPT !.name = "end"]
              ELSE Directory[j]]
  /\ UNCHANGED <<image, tagged>>

\* Where a file starts, in bytes.
Offset(i) == Wrapped(Directory[i].start * BlockSize)

\* The image grows when the reserved blocks lie beyond its end, or by less than
\* that when the host has no room: putc is not checked (whole blocks stand for
\* every length between).
Write(f, length) ==
  /\ ValidDisk
  /\ \E i \in Entries :
       /\ FoundAt(f, i)
       /\ Wrapped(Directory[i].reserved * BlockSize) >= length
       /\ Directory' = [Directory EXCEPT ![i].size = length]
       /\ IF length > 0 /\ Offset(i) + length > image
            THEN \E n \in image..(Offset(i) + length) :
                   /\ n = image \/ n <= MAX_IMAGE
                   /\ n \in {image, Offset(i) + length} \/ n % BlockSize = 0
                   /\ image' = n
            ELSE image' = image
  /\ tagged' = tagged

\* Mutant: the entry is marked as the end of the directory.
DeleteAsEnd(f) ==
  /\ ValidDisk
  /\ \E i \in Entries :
       FoundAt(f, i) /\ Directory' = [Directory EXCEPT ![i].name = "end"]
  /\ UNCHANGED <<image, tagged>>

\* Only the first byte of the name changes.
Delete(f) ==
  /\ ValidDisk
  /\ \E i \in Entries :
       FoundAt(f, i) /\ Directory' = [Directory EXCEPT ![i].name = "deleted"]
  /\ UNCHANGED <<image, tagged>>

BMFSNext ==
  \/ Format
  \/ \E a \in SizeArguments : Initialize(a)
  \/ \E f \in Names, m \in MaxSizes : Create(f, m)
  \/ \E f \in Names, l \in Lengths : Write(f, l)
  \/ \E f \in Names : Delete(f)

BMFSSpec == BMFSInit /\ [][BMFSNext]_bmfsVars

-----------------------------------------------------------------------------
(* Properties *)

BlocksOf(e) == e.start..(EndOf(e) - 1)

\* The blocks reserved for a file are its own.
NoOverlap ==
  \A i, j \in Live : i # j => BlocksOf(Directory[i]) \intersect BlocksOf(Directory[j]) = {}

SomeCreate == \E f \in Names, m \in MaxSizes : Create(f, m)
NoDeleted == \A i \in Entries : Directory[i].name # "deleted"

NoneWraps == \A i \in Live : EndOf(Directory[i]) < Word
InsideDisk == \A i \in Seen : BlocksOf(Directory[i]) \subseteq 1..(num_blocks - 2)

\* While the files do not overlap, a new one is placed clear of the first and
\* the last block of the disk ("reserved for file system usage") and, until
\* something is deleted, apart from the others, whatever the order of the
\* directory and the gaps.
CreatePlacesWell ==
  [][SomeCreate /\ NoOverlap =>
       /\ NoDeleted /\ NoneWraps => NoOverlap'
       /\ image >= minimumDiskSize /\ InsideDisk => InsideDisk']_bmfsVars

\* create refuses a file only if no area is large enough for it, deleted
\* entries or not.
RoomIsFound ==
  tagged /\ image >= minimumDiskSize /\ NoOverlap =>
    \A m \in MaxSizes :
      LET n == Blocks(m)
      IN  (\E s \in Sorted : Areas(s, n) = {})
            => ~\E b \in 1..(num_blocks - 1 - n) :
                  \A i \in Live : b..(b + n - 1) \intersect BlocksOf(Directory[i]) = {}

\* The directory as a set of files.
FileNamed(f) ==
  IF Slots(f) = {} THEN [reserved |-> 0, size |-> 0]
  ELSE LET e == Directory[CHOOSE i \in Slots(f) : FoundAt(f, i)]
       IN  [reserved |-> e.reserved, size |-> e.size]

Abstract == INSTANCE AbstractFiles WITH
  Reservations <- {Blocks(m) : m \in MaxSizes},
  files <- [f \in Names |-> FileNamed(f)],
  ready <- tagged

\* Entries that are reused, deleted and marked as the end in any order still
\* are a set of files: none is shadowed by another of the same name, lost
\* behind the end of the directory or brought back, and there are none on a
\* disk that was left short and without the tag.
ImplementsFiles == Abstract!Spec

=============================================================================

----------------------------- MODULE RomLayout -----------------------------
(***************************************************************************)
(* build() of rombuild.py: free space, destinations, tables and the image  *)
(* of the new cartridge, and the map the console reads it through, which   *)
(* emu/windowed_lorom.cpp installs.  Every size is a parameter: a quarter  *)
(* of the banks is the LoROM view, one is data, one the LoROM mirror and   *)
(* the last the window the streams are addressed in.                       *)
(***************************************************************************)
EXTENDS FirstFit

CONSTANTS
  Quarter,      \* LOROM_BANKS, 0x40
  Half,         \* mapper.HALF, 0x8000
  TableBank,    \* TABLE_BANK, 0x60
  TableCount,   \* TABLE_COUNT, 4
  MinRegion,    \* MIN_REGION, 0x1000
  ReadAhead,    \* READ_AHEAD: bytes the decompressor fetches past a stream
  Builds        \* arguments: [size, entries, extra]

Bank == 2 * Half
ImageBanks == 3 * Quarter                       \* IMAGE_BANKS
OriginalSize == Quarter * Bank                  \* ORIGINAL_SIZE
MirrorBase == 2 * Quarter                       \* LOROM_MIRROR_BASE
WindowBase == 3 * Quarter                       \* WINDOW_BASE
WramBanks == {2 * Quarter - 2, 2 * Quarter - 1} \* WRAM_BANKS
DataBanks == Quarter .. 2 * Quarter - 3         \* DATA_BANK_FIRST .. LAST
TableBanks == TableBank .. TableBank + TableCount - 1
Offset == 0 .. ImageBanks * Bank - 1

\* The gate lets no length through that is not positive, and a stream that is
\* not in the cartridge does not decode.  The extra block, the pre-fight table,
\* lies in a data bank that is neither a table nor work RAM.
ASSUME LayoutAssumption ==
  /\ {Quarter, Half, TableBank, TableCount, MinRegion} \subseteq Nat \ {0} /\ ReadAhead \in Nat
  /\ TableBanks \subseteq DataBanks
  /\ \A b \in Builds :
       /\ b.entries \in Seq([source : 0 .. OriginalSize - 1, end : Nat, length : Nat \ {0}])
       /\ b.extra \in Seq([bank : DataBanks \ TableBanks, addr : 0 .. Bank - 1, len : 0 .. Bank])
       /\ \A m \in DOMAIN b.extra : b.extra[m].addr + b.extra[m].len <= Bank
       /\ \A m, n \in DOMAIN b.extra : m # n =>
            Apart(b.extra[m].bank, b.extra[m].addr, b.extra[m].addr + b.extra[m].len,
                  b.extra[n].bank, b.extra[n].addr, b.extra[n].addr + b.extra[n].len)

VARIABLES
  pc,       \* the place in build
  job,      \* its arguments; an entry is [source, end, length]
  image,    \* what each byte of the image holds
  todo,     \* entries whose bytes are still to be written
  kept,     \* what subtract() returned
  step      \* the pass of the loop over holes, banks or extra blocks

vars == <<regions, free, cursor, queue, at, pc, job, image, todo, kept, step>>

Entry == DOMAIN job.entries

-----------------------------------------------------------------------------
DataRegions == {Span(b, 0, Bank) : b \in DataBanks \ (TableBanks \cup WramBanks)}

SpanOf(x) == Span(x.bank, x.addr, x.addr + x.len)

\* The compressed bytes of an entry: up to where its decoder stopped less
\* the byte it read ahead, and never past the end of its bank.
Consumed(e) == Min({e.end - ReadAhead, (e.source \div Bank + 1) * Bank})

Reclaimed(e) == Span(WindowBase + e.source \div Bank, e.source % Bank,
                     Consumed(e) - (e.source \div Bank) * Bank)

Spans == {Reclaimed(job.entries[i]) : i \in {k \in Entry :
             Consumed(job.entries[k]) > job.entries[k].source}}

\* The last entry is placed first: it alone may need a whole bank.
Ordered ==
  LET n == Len(job.entries)
      request(i) == [key |-> i, size |-> job.entries[i].length]
  IN  IF n <= 1 THEN [i \in 1 .. n |-> request(i)]
      ELSE [i \in 1 .. n |-> request(IF i = 1 THEN n ELSE i - 1)]

-----------------------------------------------------------------------------
\* mapper.address_to_file: high halves first, low halves after them; the
\* window has no storage of its own and is spread over the low halves of
\* the LoROM banks and their mirror, which the console cannot see there.
FileOf(bank, addr) ==
  CASE bank >= WindowBase /\ addr < Half ->
         (bank - WindowBase + MirrorBase + ImageBanks) * Half + addr
    [] bank >= WindowBase /\ addr >= Half -> bank * Half + addr - Half
    [] bank < WindowBase /\ addr < Half -> (bank + ImageBanks) * Half + addr
    [] bank < WindowBase /\ addr >= Half -> bank * Half + addr - Half

StepInBank(bank, addr, j) == <<bank, (addr + j) % Bank>>

\* The j-th byte written from an address: at the end of a bank place() goes
\* on in the next one.
StepOf(bank, addr, j) == <<bank + (addr + j) \div Bank, (addr + j) % Bank>>

\* place(image, bank, addr, data): data is a function of the offset.
Placed(img, bank, addr, data) ==
  LET offset(j) == FileOf(StepOf(bank, addr, j)[1], StepOf(bank, addr, j)[2])
      bytes == {<<offset(j), data[j]>> : j \in DOMAIN data}
  IN  [o \in Offset |-> IF \E w \in bytes : w[1] = o
                        THEN (CHOOSE w \in bytes : w[1] = o)[2] ELSE img[o]]

-----------------------------------------------------------------------------
Init ==
  /\ pc = "start" /\ job \in Builds /\ todo = {} /\ kept = {} /\ step = 1
  /\ regions = {} /\ free = <<>> /\ cursor = <<>> /\ queue = <<>> /\ at = {}
  /\ image = <<>>

Goes(to) == pc' = to /\ UNCHANGED <<job, todo, kept>>
Keeps == UNCHANGED fitVars

WrongSize ==
  /\ pc = "start" /\ job.size # OriginalSize
  /\ Goes("refused") /\ Keeps /\ UNCHANGED <<image, step>>

\* The data banks, from which subtract() takes the extra blocks.
OpenDataBanks ==
  /\ pc = "start" /\ job.size = OriginalSize /\ Goes("subtract")
  /\ regions' = DataRegions /\ step' = 1
  /\ UNCHANGED <<free, cursor, queue, at, image>>

SubtractNext ==
  /\ pc = "subtract" /\ step <= Len(job.extra) /\ Goes("subtract")
  /\ Subtract(SpanOf(job.extra[step])) /\ step' = step + 1
  /\ UNCHANGED <<cursor, queue, at, image>>

\* reclaimed_regions() merges the compressed spans.
Reclaim ==
  /\ pc = "subtract" /\ step > Len(job.extra)
  /\ pc' = "reclaim" /\ kept' = regions /\ StartMerge(Spans)
  /\ UNCHANGED <<job, todo, cursor, queue, at, image, step>>

\* One pass of the loop in merge(), which both callers run.
Merge ==
  /\ pc \in {"reclaim", "merge"} /\ MergeNext
  /\ UNCHANGED <<pc, job, todo, kept, cursor, queue, at, image, step>>

\* allocate() merges the data space and what is worth reclaiming.
MergeAll ==
  /\ pc = "reclaim" /\ regions = {} /\ Goes("merge")
  /\ StartMerge(kept \cup {r \in Range(free) : r.end - r.start >= MinRegion})
  /\ UNCHANGED <<cursor, queue, at, image, step>>

\* The regions are known: every cursor is at the start of its own.
FindSpace ==
  /\ pc = "merge" /\ regions = {} /\ Goes("allocate")
  /\ cursor' = [n \in DOMAIN free |-> free[n].start]
  /\ queue' = Ordered
  /\ UNCHANGED <<regions, free, at, image, step>>

Allocate ==
  /\ pc = "allocate" /\ (\E n \in DOMAIN free : Take(n))
  /\ Goes("allocate") /\ UNCHANGED <<image, step>>

\* No region, or none with room: AllocationError.
Exhausted ==
  /\ pc = "allocate" /\ (free = <<>> \/ NoRoom)
  /\ Goes("refused") /\ Keeps /\ UNCHANGED <<image, step>>

\* sdd1tables.build has its own module: here it returns four tables or raises.
MakeTables ==
  /\ pc = "allocate" /\ free # <<>> /\ queue = <<>> /\ step' = 0
  /\ \/ Goes("lorom") /\ image' = [o \in Offset |-> <<"blank">>]
     \/ Goes("refused") /\ UNCHANGED image
  /\ Keeps

\* Each 32K of the original goes to a LoROM bank and to its mirror.
PlaceLorom ==
  /\ pc = "lorom" /\ step < Quarter /\ step' = step + 1 /\ Goes("lorom") /\ Keeps
  /\ LET half == [j \in 0 .. Half - 1 |-> <<"rom", step * Half + j>>]
     IN  image' = Placed(Placed(image, step, Half, half), MirrorBase + step, Half, half)

PlaceWindow ==
  /\ pc = "lorom" /\ step = Quarter /\ Goes("tables") /\ Keeps /\ UNCHANGED step
  /\ image' = Placed(image, WindowBase, 0, [j \in 0 .. OriginalSize - 1 |-> <<"rom", j>>])

PlaceTables ==
  /\ pc = "tables" /\ pc' = "streams" /\ todo' = Entry
  /\ UNCHANGED <<job, kept, step>> /\ Keeps
  /\ image' = Placed(image, TableBank, 0, [j \in 0 .. TableCount * Bank - 1 |-> <<"table", j>>])

PlaceStreamUnsplit(p) ==
  /\ pc = "streams" /\ p \in at /\ p.key \in todo /\ \A i \in todo : p.key <= i
  /\ image' = [o \in Offset |-> LET first == FileOf(p.bank, p.addr) IN
                 IF o \in first .. first + p.size - 1 THEN <<"stream", p.key, o - first>>
                 ELSE image[o]]
  /\ todo' = todo \ {p.key}
  /\ Keeps /\ UNCHANGED <<pc, job, kept, step>>

\* One decompressed stream, read from the original and not from the image.
PlaceStream(p) ==
  /\ pc = "streams" /\ p \in at /\ p.key \in todo /\ \A i \in todo : p.key <= i
  /\ image' = Placed(image, p.bank, p.addr, [j \in 0 .. p.size - 1 |-> <<"stream", p.key, j>>])
  /\ todo' = todo \ {p.key}
  /\ Keeps /\ UNCHANGED <<pc, job, kept, step>>

StartExtra ==
  /\ pc = "streams" /\ todo = {} /\ step' = 1
  /\ Goes("extra") /\ Keeps /\ UNCHANGED image

PlaceExtra ==
  /\ pc = "extra" /\ step <= Len(job.extra) /\ step' = step + 1 /\ Goes("extra") /\ Keeps
  /\ image' = Placed(image, job.extra[step].bank, job.extra[step].addr,
                     [j \in 0 .. job.extra[step].len - 1 |-> <<"extra", step, j>>])

Finish ==
  /\ pc = "extra" /\ step > Len(job.extra)
  /\ Goes("done") /\ Keeps /\ UNCHANGED <<image, step>>

Next ==
  \/ WrongSize \/ OpenDataBanks \/ SubtractNext \/ Reclaim \/ Merge \/ MergeAll
  \/ FindSpace \/ Allocate \/ Exhausted \/ MakeTables
  \/ PlaceLorom \/ PlaceWindow \/ PlaceTables \/ StartExtra \/ PlaceExtra \/ Finish
  \/ \E p \in at : PlaceStream(p)

Spec == Init /\ [][Next]_vars

-----------------------------------------------------------------------------
\* The console's side: what install_windowed_lorom_map makes of an address.
HighHalfOnly(bank) == bank < Quarter \/ bank \in MirrorBase .. WindowBase - 1
Visible(bank, addr) == bank \notin WramBanks /\ (addr < Half => ~HighHalfOnly(bank))

InterleavedLow(bank) == (bank + ImageBanks) * Half
InterleavedHigh(bank) == bank * Half - Half

Pointer(bank, addr) ==
  IF bank >= WindowBase
  THEN IF addr < Half THEN InterleavedLow(MirrorBase + bank - WindowBase)
       ELSE InterleavedLow(bank - WindowBase) - Half
  ELSE IF addr < Half THEN InterleavedLow(bank) ELSE InterleavedHigh(bank)

Shows(bank, addr, what) == Visible(bank, addr) /\ image[Pointer(bank, addr) + addr] = what

\* A byte of the original that some stream was decompressed from.
Compressed(o) == \E i \in Entry :
  o \in job.entries[i].source .. Consumed(job.entries[i]) - 1

\* The free list is exactly the data banks less the tables and the extras,
\* and the runs of at least MinRegion compressed bytes, sorted and merged.
FreeSpaceExact ==
  pc = "allocate" =>
    /\ \A n \in 2 .. Len(free) :
         Before(free[n - 1], free[n]) /\
         (free[n - 1].bank = free[n].bank => free[n - 1].end < free[n].start)
    /\ Covered(Range(free)) =
         {x \in (DataBanks \ TableBanks) \X (0 .. Bank - 1) :
            \A n \in DOMAIN job.extra : ~(x[1] = job.extra[n].bank /\
               x[2] \in job.extra[n].addr .. job.extra[n].addr + job.extra[n].len - 1)}
         \cup {x \in (WindowBase .. 4 * Quarter - 1) \X (0 .. Bank - 1) :
            \E s \in 0 .. x[2], e \in x[2] + 1 .. Bank :
              /\ e - s >= MinRegion
              /\ \A a \in s .. e - 1 : Compressed((x[1] - WindowBase) * Bank + a)}

\* tools/verify_image.py reads the image through the mapper, on into the next
\* bank, and calls a stream wrong at the first byte that differs.
window_read(bank, addr) == image[FileOf(bank, addr)]
WrongInImage(p) ==
  \E j \in 0 .. p.size - 1 :
    window_read(p.bank + (p.addr + j) \div Bank, (p.addr + j) % Bank) # <<"stream", p.key, j>>

\* Every stream reads back byte for byte where the tables say it is, as a
\* transfer reads it: within one bank.  While streams are still written the
\* verifier calls wrong exactly the ones the console cannot read, so that an
\* image cut short does not verify.
StreamsReadable ==
  pc \in {"streams", "extra", "done"} =>
    \A p \in at :
      LET readable == \A j \in 0 .. p.size - 1 :
                        Shows(p.bank, (p.addr + j) % Bank, <<"stream", p.key, j>>)
      IN  /\ WrongInImage(p) <=> ~readable
          /\ (readable <=> p.key \notin todo)

\* Code and data survive: both LoROM views are whole, the window shows every
\* byte of the original that is not part of a compressed stream, and no stream
\* runs over the lookup tables or the extra block.
RomReadable ==
  pc = "done" =>
    /\ \A k \in 0 .. Quarter - 1, a \in Half .. Bank - 1, m \in {0, MirrorBase} :
         Shows(m + k, a, <<"rom", k * Half + a - Half>>)
    /\ \A o \in 0 .. OriginalSize - 1 : ~Compressed(o) =>
         Shows(WindowBase + o \div Bank, o % Bank, <<"rom", o>>)
    /\ \A j \in 0 .. TableCount * Bank - 1 :
         Shows(TableBank + j \div Bank, j % Bank, <<"table", j>>)
    /\ \A n \in DOMAIN job.extra : \A j \in 0 .. job.extra[n].len - 1 :
         Shows(job.extra[n].bank, job.extra[n].addr + j, <<"extra", n, j>>)
=============================================================================

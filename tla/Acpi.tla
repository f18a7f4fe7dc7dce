-------------------------------- MODULE Acpi --------------------------------
(***************************************************************************)
(* The kernel's search for its I/O APIC in the firmware's ACPI tables:     *)
(* kernel/devices/acpiKernel.cpp, kernel/system/acpi.cpp and the           *)
(* constructor of io_apic in kernel/devices/cpu/apic.cpp.                  *)
(*                                                                         *)
(* The firmware's memory is a record: the places that hold the signature   *)
(* "RSD PTR", each with the descriptor that follows it, and the tables by  *)
(* address.  The bytes of a descriptor are abstracted to their sums, the   *)
(* tables to signature, length and contents.  Loops over tables and        *)
(* records take one step per turn.                                         *)
(***************************************************************************)
EXTENDS Integers, Sequences, FiniteSetsExt

CONSTANTS
    Firmware,    \* what firmware leaves in memory
    Word         \* 2^32: pointers and size_t are that wide

EBDA_START == 524288     \* 0x80000
EBDA_END == 655359       \* 0x9ffff
BIOS_START == 917504     \* 0xe0000
BIOS_END == 1048575      \* 0xfffff
RSDP_SEARCH_STR_LEN == 7

nullptr == 0
sdtHeader == 36          \* sizeof(acpi_sdt_header)
madtHeader == 44         \* sizeof(madt_table)

\* A pointer keeps the low half of a 64-bit address.
Pointer(address) == address % Word

\* The sum of a structure's bytes, of which the code looks at the lowest.
checkSum(sum) == sum % 256 = 0

checkRSDPDesc(d) ==
    \/ d.revision = 0 /\ checkSum(d.sum20)
    \/ d.revision = 2 /\ checkSum(d.sum20 + d.sum16)

namesXsdt(d) == d.revision = 2 /\ d.xsdt # 0

\* Where records one after the other end: the n-th at Offsets(rs)[n].
Offsets(rs) ==
    LET end[n \in 0 .. Len(rs)] == IF n = 0 THEN madtHeader ELSE end[n - 1] + rs[n].length
    IN  end

\* A table at an address of the firmware that lists addresses of that width.
IsRoot(f, address, width) ==
    /\ address \in Nat
    /\ Pointer(address) \in DOMAIN f.tables
    /\ LET t == f.tables[Pointer(address)] IN
       t.addresses \in Seq(Nat) /\ t.length = sdtHeader + width * Len(t.addresses)

\* Every table is at least as long as its header.  A descriptor that passes the
\* check names a root table, and a MADT ends where its last record does; an
\* I/O APIC record is not empty.
ASSUME AcpiAssumption ==
    /\ Word \in Nat
    /\ Word > BIOS_END
    /\ \A f \in Firmware :
          /\ DOMAIN f.rsdp \subseteq Nat \ {nullptr}
          /\ \A p \in DOMAIN f.rsdp :
                LET d == f.rsdp[p] IN
                checkRSDPDesc(d) =>
                    IF namesXsdt(d) THEN IsRoot(f, d.xsdt, 8) ELSE IsRoot(f, d.rsdt, 4)
          /\ \A a \in DOMAIN f.tables :
                LET t == f.tables[a] IN
                /\ a \in 1 .. Word - 1
                /\ t.length \in sdtHeader .. Word - 1
                /\ t.signature = "APIC" =>
                      /\ t.records \in Seq([type : Nat, length : Nat])
                      /\ t.length = Offsets(t.records)[Len(t.records)]
                      /\ \A n \in 1 .. Len(t.records) :
                            t.records[n].type = 1 => t.records[n].length > 0

VARIABLES
    fw,          \* the firmware's memory
    search,      \* next step: "descriptor", "tables", "walk", "done", "panic"
    desc,        \* acpi_header::_ptr
    type2,       \* acpi_header::_type2
    index,       \* entry of the root table findEntry looks at
    madt,        \* acpi_madt::_ptr
    walker,      \* offset of getEntry in the MADT
    caller,      \* who called getEntry: kmain first, then io_apic
    entry        \* offset of the record io_apic keeps, nullptr before

acpiVars == <<fw, search, desc, type2, index, madt, walker, caller, entry>>

AcpiInit ==
    /\ fw \in Firmware
    /\ search = "descriptor"
    /\ desc = nullptr
    /\ type2 = FALSE
    /\ index = 0
    /\ madt = nullptr
    /\ walker = madtHeader
    /\ caller = "kmain"
    /\ entry = nullptr

-----------------------------------------------------------------------------
(***************************************************************************)
(* searchRSDPDesc: the first signature, in the EBDA or else in the BIOS.   *)
(***************************************************************************)
\* Mutant of Scanned: the scan starts at the next 16-byte boundary.
ScannedLate(start, end) ==
    {p \in DOMAIN fw.rsdp : start + 16 <= p /\ p < end - RSDP_SEARCH_STR_LEN}

Scanned(start, end) ==
    {p \in DOMAIN fw.rsdp : start <= p /\ p < end - RSDP_SEARCH_STR_LEN}

searchRSDPDesc ==
    LET ebda == Scanned(EBDA_START, EBDA_END)
        bios == Scanned(BIOS_START, BIOS_END)
    IN  IF ebda # {} THEN Min(ebda) ELSE IF bios # {} THEN Min(bios) ELSE nullptr

findRSDPDesc ==
    IF searchRSDPDesc # nullptr /\ checkRSDPDesc(fw.rsdp[searchRSDPDesc])
    THEN searchRSDPDesc ELSE nullptr

\* The constructor acpi_header().
acpi_header ==
    /\ search = "descriptor"
    /\ \/ /\ findRSDPDesc = nullptr
          /\ search' = "panic"
          /\ UNCHANGED <<desc, type2>>
       \/ /\ findRSDPDesc # nullptr
          /\ desc' = findRSDPDesc
          /\ type2' = (fw.rsdp[findRSDPDesc].revision = 2)
          /\ search' = "tables"
    /\ UNCHANGED <<fw, index, madt, walker, caller, entry>>

(***************************************************************************)
(* findEntry("APIC"), called by the constructor acpi_madt().  What is not  *)
(* a table of the firmware has no signature.                               *)
(***************************************************************************)
usesXsdt == type2 /\ fw.rsdp[desc].xsdt # 0

root == fw.tables[Pointer(IF usesXsdt THEN fw.rsdp[desc].xsdt ELSE fw.rsdp[desc].rsdt)]

\* Mutant of numEntries: both tables have entries of 8 bytes.
numEntriesWide == ((root.length - sdtHeader) % Word) \div 8

numEntries == ((root.length - sdtHeader) % Word) \div (IF usesXsdt THEN 8 ELSE 4)

IsMadt(address) ==
    Pointer(address) \in DOMAIN fw.tables /\ fw.tables[Pointer(address)].signature = "APIC"

findEntry ==
    /\ search = "tables"
    /\ index < numEntries
    /\ IF IsMadt(root.addresses[index + 1])
       THEN /\ madt' = Pointer(root.addresses[index + 1])
            /\ search' = "walk"
            /\ UNCHANGED index
       ELSE /\ index' = index + 1
            /\ UNCHANGED <<madt, search>>
    /\ UNCHANGED <<fw, desc, type2, walker, caller, entry>>

\* "Error: No MADT was found"
noMadt ==
    /\ search = "tables"
    /\ index >= numEntries
    /\ search' = "panic"
    /\ UNCHANGED <<fw, desc, type2, index, madt, walker, caller, entry>>

(***************************************************************************)
(* getEntry(1), record by record.  kmain prints its answer, even a null    *)
(* one; io_apic asks again and panics without it.                          *)
(***************************************************************************)
records == fw.tables[madt].records

Offset == Offsets(records)

\* The record the walker points at; a record of length 0 is the last reached.
curr == records[CHOOSE n \in 1 .. Len(records) :
                    Offset[n - 1] = walker /\ \A m \in 1 .. n - 1 : Offset[m - 1] < walker]

InTable == walker < fw.tables[madt].length

\* What getEntry answers goes to its caller.
Answer(found) ==
    /\ walker' = madtHeader
    /\ caller' = "io_apic"
    /\ \/ /\ caller = "kmain"
          /\ UNCHANGED <<search, entry>>
       \/ /\ caller = "io_apic"
          /\ entry' = found
          /\ search' = IF found = nullptr THEN "panic" ELSE "done"

\* Mutant of Advanced: the walker stays.
AdvancedNot == walker

Advanced == walker + curr.length

getEntry ==
    /\ search = "walk"
    /\ \/ /\ InTable
          /\ curr.type = 1
          /\ Answer(walker)
       \/ /\ InTable
          /\ curr.type # 1
          /\ walker' = Advanced
          /\ UNCHANGED <<search, caller, entry>>
       \/ /\ ~InTable
          /\ Answer(nullptr)
    /\ UNCHANGED <<fw, desc, type2, index, madt>>

AcpiNext == acpi_header \/ findEntry \/ noMadt \/ getEntry

-----------------------------------------------------------------------------
\* The bytes add up as ACPI asks: those of revision 0, and for revision 2 also
\* all of them.
Valid(d) ==
    /\ d.revision \in {0, 2}
    /\ d.sum20 % 256 = 0
    /\ d.revision = 2 => (d.sum20 + d.sum16) % 256 = 0

\* The kernel goes on with the first signature in the order of the scan, and
\* gives up at this point only if no valid descriptor on a 16-byte boundary of
\* the two areas comes before every other signature: "nullptr if no table is
\* found" (acpiKernel.hpp:35) leaves out that a damaged or stray copy of the
\* text hides every later one, because findRSDPDesc does not go on
\* (acpiKernel.cpp:90-93), and that it may lie at any address, although the
\* comment says "(16-byte aligned)" (acpiKernel.cpp:38).  That the descriptor taken is a valid one is not
\* said: of revision 2 only the sum over everything is looked at, and the eighth
\* character of the signature never ("BUG in the validation we're doing it all
\* wrong", acpiKernel.hpp:37).
FirstDescriptorDecides ==
    LET Aligned == {p \in DOMAIN fw.rsdp :
                       /\ p % 16 = 0
                       /\ \/ EBDA_START <= p /\ p <= EBDA_END
                          \/ BIOS_START <= p /\ p <= BIOS_END}
    IN  /\ desc # nullptr => \A p \in Aligned : p >= desc
        /\ search = "panic" /\ desc = nullptr =>
              \A p \in Aligned : Valid(fw.rsdp[p]) =>
                  \E q \in DOMAIN fw.rsdp : q < p

\* Tables the root the descriptor names lists, in the table's own terms.
Listed == {root.addresses[k] : k \in 1 .. Len(root.addresses)}

\* The I/O APIC record kept is the first of its type in the table with
\* signature "APIC" that the root table lists, and both panics mean that there
\* is none (acpi.cpp:36-122, apic.cpp:67-70), if every table is below 4 GiB: an
\* XSDT address above is cut to its low half.
IoApicIsFirstListed ==
    (desc # nullptr /\ \A a \in Listed : a < Word) =>
        LET madts == {a \in Listed : IsMadt(a)}
            firsts == {n \in 1 .. Len(records) :
                          records[n].type = 1 /\ \A m \in 1 .. n - 1 : records[m].type # 1}
        IN  /\ madt # nullptr => madt \in madts
            /\ search = "panic" /\ madt = nullptr => madts = {}
            /\ search = "panic" /\ madt # nullptr => firsts = {}
            /\ search = "done" => firsts # {} /\ entry = Offset[Min(firsts) - 1]

\* Before the first I/O APIC of the MADT, if any, no record of length 0.
WalkableMadt ==
    \A a \in DOMAIN fw.tables : fw.tables[a].signature = "APIC" =>
        LET rs == fw.tables[a].records IN
        \A n \in 1 .. Len(rs) : rs[n].length = 0 => \E m \in 1 .. n - 1 : rs[m].type = 1
=============================================================================

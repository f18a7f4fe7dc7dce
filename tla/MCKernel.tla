------------------------------ MODULE MCKernel ------------------------------
(***************************************************************************)
(* Firmware for Kernel: where the descriptors lie and whether they are     *)
(* intact, how the tables are listed, what the MADT holds.                 *)
(***************************************************************************)
EXTENDS Kernel

Rsdt == 1000
Xsdt == 2000
Fadt == 3000
Madt == 4000

Descriptor(revision, sum20, sum16, xsdt) ==
    [revision |-> revision, sum20 |-> sum20, sum16 |-> sum16, rsdt |-> Rsdt, xsdt |-> xsdt]

\* ACPI 1.0 and 2.0, a 2.0 descriptor without XSDT, and damaged ones: of an
\* unknown revision, with a bad sum, and intact only up to its 20th byte.
Acpi1 == Descriptor(0, 512, 9, 7)
Acpi2 == Descriptor(2, 256, 256, Xsdt)
Acpi2Rsdt == Descriptor(2, 255, 1, 0)
Unknown == Descriptor(1, 256, 256, Xsdt)
BadSum == Descriptor(0, 511, 1, 0)
HalfGood == Descriptor(2, 256, 1, Xsdt)

At(p, d) == [q \in {p} |-> d]
Two(p, d, q, e) == [r \in {p, q} |-> IF r = p THEN d ELSE e]

Descriptors ==
    { [q \in {} |-> Acpi1],
      At(EBDA_START, Acpi1),
      At(EBDA_END - 15, Acpi2),
      At(BIOS_START + 1600, Acpi2),
      At(BIOS_END - 15, Acpi2Rsdt),
      At(BIOS_START, Unknown),
      Two(EBDA_START, Acpi1, BIOS_START, Acpi2),
      At(EBDA_START + 35, Acpi1),
      Two(EBDA_START + 35, HalfGood, BIOS_START, Acpi2),
      Two(BIOS_START + 16, BadSum, BIOS_START + 32, Acpi1) }

Rec(type, length) == [type |-> type, length |-> length]

Records ==
    { << Rec(0, 8), Rec(0, 8), Rec(1, 12), Rec(2, 10), Rec(1, 12) >>,
      << Rec(1, 12) >>,
      << Rec(0, 8), Rec(2, 10) >>,
      << >>,
      << Rec(0, 8), Rec(5, 0), Rec(1, 12) >> }

Root(addresses, width) ==
    [signature |-> "ROOT", length |-> sdtHeader + width * Len(addresses),
     addresses |-> addresses, records |-> <<>>]

Table(signature, rs) ==
    [signature |-> signature, length |-> Offsets(rs)[Len(rs)],
     addresses |-> <<>>, records |-> rs]

\* Root tables that list the MADT first, last, not at all, or above 4 GiB at
\* an address whose low half is another table's.
Lists == { <<Madt, Fadt>>, <<Fadt, Madt>>, <<Fadt>>, <<>>, <<Word + Fadt, Word + Madt>> }

Memory(descriptors, list, rs) ==
    [rsdp |-> descriptors,
     tables |-> [a \in {Rsdt, Xsdt, Fadt, Madt} |->
        CASE a = Rsdt -> Root(list, 4)
          [] a = Xsdt -> Root(list, 8)
          [] a = Fadt -> Table("FACP", <<>>)
          [] a = Madt -> Table("APIC", rs)]]

\* Every descriptor with one kind of tables, and every kind of tables with
\* two descriptors.
SomeFirmware ==
    {Memory(d, <<Fadt, Madt>>, <<Rec(0, 8), Rec(1, 12)>>) : d \in Descriptors} \cup
    {Memory(At(BIOS_START, d), l, r) : d \in {Acpi1, Acpi2}, l \in Lists, r \in Records}
=============================================================================

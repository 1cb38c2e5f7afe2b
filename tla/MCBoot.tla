------------------------------- MODULE MCBoot -------------------------------
EXTENDS Boot

MegaByte == 1048576

\* firmware that ends below the kernel of the default --phys_start, and some
\* that does not; a file that is not there
Firmware(size) == [kind |-> "raw", size |-> size, fault |-> "none"]
Raws == {Firmware(300), Firmware(2 * MegaByte - 8), Firmware(2 * MegaByte),
         [kind |-> "raw", size |-> 0, fault |-> "missing"]}

Text(at, size) == [load |-> TRUE, vaddr |-> at, filesz |-> size, memsz |-> size, what |-> "text"]
Data(at) == [load |-> TRUE, vaddr |-> at, filesz |-> 64, memsz |-> 4096, what |-> "data"]
Note == [load |-> FALSE, vaddr |-> 0, filesz |-> 32, memsz |-> 0, what |-> "note"]
Code(at, size) == [exec |-> TRUE, addr |-> at, size |-> size]
Bss == [exec |-> FALSE, addr |-> 8192, size |-> 4096]

\* code beside, on and across the ROM's page; an entry beyond 4 GB
Program(at, size, entry) ==
    [kind |-> "elf", fault |-> "none", entry |-> entry,
     segments |-> <<Note, Text(at, size), Data(12288)>>,
     sections |-> <<Code(at, size), Bss>>]
Elfs ==
    {Program(at, size, entry) : at \in {0, 4096, 4128, 8192}, size \in {100, 4096, 5000},
                                entry \in {<<0, 8192>>, <<1, 8192>>}}
    \cup {[kind |-> "elf", fault |-> f] : f \in {"missing", "bogus", "class", "endian", "machine"}}

\* a kernel of that size, or none
Option(image, uart, svnapot, ram, start, kernel, size) ==
    [image |-> image, uart |-> uart, svnapot |-> svnapot, cpu_freq |-> 100000000,
     ram_size |-> ram, phys_start |-> start,
     kernel |-> kernel, kernel_size |-> size]

MCOptions ==
    {Option(i, u, v, r, p, k[1], k[2]) :
        i \in Raws, u, v \in BOOLEAN, r \in {<<0, 1073741824>>, <<1, 0>>},
        p \in {0, 2 * MegaByte, 1024 * MegaByte},
        k \in {<<FALSE, 0>>, <<TRUE, 0>>, <<TRUE, 300>>, <<TRUE, 8 * MegaByte>>}}
    \cup {Option(i, FALSE, TRUE, <<0, 1073741824>>, 2 * MegaByte, FALSE, 0) : i \in Elfs}
=============================================================================

------------------------------- MODULE MCMmu -------------------------------
(* Small instances of Mmu for TLC: tables of two entries, 8 pages. *)
EXTENDS Mmu, TLC

Invalid == [v |-> FALSE, r |-> FALSE, w |-> FALSE, x |-> FALSE, u |-> FALSE,
            a |-> FALSE, d |-> FALSE, n |-> FALSE, ppn |-> 0]
Pointer(ppn) == [Invalid EXCEPT !.v = TRUE, !.ppn = ppn]
Leaf(ppn) == [Pointer(ppn) EXCEPT !.r = TRUE]

KernelData(ppn) == [Leaf(ppn) EXCEPT !.w = TRUE]
KernelText(ppn) == [Leaf(ppn) EXCEPT !.x = TRUE, !.a = TRUE]
UserData(ppn)   == [KernelData(ppn) EXCEPT !.u = TRUE]
UserText(ppn)   == [Leaf(ppn) EXCEPT !.x = TRUE, !.u = TRUE]
\* a page that was written and is now shared: dirty, not writable
Shared(ppn)     == [Leaf(ppn) EXCEPT !.u = TRUE, !.a = TRUE, !.d = TRUE]

\* root 1 -> table 2 -> table 3.  Page 0 is user text (in the second memory a
\* contiguous leaf), page 1 maps table 3 for the kernel, pages 2 and 3 are one
\* big page of user data, pages 4 .. 7 one bigger page of kernel text.
Mem(page0, big) ==
    (<<1, 0>> :> Pointer(2)) @@ (<<1, 1>> :> KernelText(4)) @@
    (<<2, 0>> :> Pointer(3)) @@ (<<2, 1>> :> big) @@
    (<<3, 0>> :> page0)      @@ (<<3, 1>> :> [KernelData(3) EXCEPT !.a = TRUE])

MCMemories == {Mem(UserText(5), UserData(6)),
               Mem([UserText(5) EXCEPT !.n = TRUE], Shared(6))}
MCPteWrites == {[UserText(7) EXCEPT !.a = TRUE]}
=============================================================================

------------------------------ MODULE MCPhysMap ------------------------------
(***************************************************************************)
(* Constants for TLC: the regions of pmap_init, scaled down: the first     *)
(* page unmapped, the kernel reserved, and the video memory inside it.     *)
(***************************************************************************)
EXTENDS PhysMap

Span(addr, size, type) == [addr |-> addr, size |-> size, type |-> type]

MCFixed == <<Span(1, 1, 6), Span(0, 3, 2), Span(0, 1, 7)>>
=============================================================================

------------------------------- MODULE MCHeap --------------------------------
(* The heap at a quarter of its sizes: header, grain and smallest tail keep    *)
(* their proportions, a page is 16 units.  The firmware's maps have the kernel *)
(* inside usable memory (GRUB) or in an entry of its own (Limine).             *)
EXTENDS Heap

Use(a, b) == [addr |-> a, len |-> b - a, type |-> 1]
Other(a, b) == [addr |-> a, len |-> b - a, type |-> 2]
MCFirmware == {
    <<Use(0, 8), Other(8, 12), Use(12, 76)>>,
    <<Use(0, 10), Other(10, 20), Use(20, 71)>>,
    <<Use(12, 76)>>,
    <<Other(0, 20), Use(20, 50), Use(44, 90), Other(90, 190)>>}

Range(a, b) == [start |-> a, end |-> b]
MCModules == {Range(0, 0), Range(5, 22), Range(20, 28), Range(24, 30), Range(70, 80),
              Range(50, 76), Range(44, 90)}
=============================================================================

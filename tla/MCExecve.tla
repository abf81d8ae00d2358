------------------------------ MODULE MCExecve ------------------------------
(* Small programs for Execve: up to three ascending segments around a page    *)
(* boundary, with and without PT_PHDR, interpreter and errors.                *)
EXTENDS Execve

Seg(v, f, m, fl) == [type |-> "LOAD", vaddr |-> v, offset |-> v - 4, filesz |-> f, memsz |-> m, flags |-> fl]

Ones == {Seg(v, f, m, fl) : v \in {4, 6, 7}, <<f, m>> \in {<<1, 1>>, <<1, 3>>, <<0, 1>>}, fl \in {{"X"}, {"W"}}}

Before(a, b) == a.vaddr + a.memsz <= b.vaddr
Twos == {<<a, b>> \in Ones \X Ones : Before(a, b)}
Threes == {<<a, b, Seg(8, 1, 2, {})>> : <<a, b>> \in {t \in Twos : Before(t[2], [vaddr |-> 8])}}
Layouts == {<<a>> : a \in Ones} \cup Twos \cup Threes

Elf(phdrs, phoff, pie, interp) ==
    [kind |-> "elf", valid |-> TRUE, pie |-> pie, interp |-> interp, dyn |-> "ok",
     phdrs |-> phdrs, phoff |-> phoff, size |-> 8]

Phdr == [type |-> "PHDR", vaddr |-> 7]
Good == Elf(<<Seg(4, 2, 3, {"X"})>>, 1, TRUE, "none")

MCExecutables ==
    {Elf(l, o, TRUE, "none") : l \in Layouts, o \in {1, 3}}
    \cup {Elf(l, 2, FALSE, "path") : l \in Threes}
    \cup {Elf(<<Phdr, Seg(4, 1, 2, {"X"}), Seg(7, 1, 2, {"W"})>>, 3, FALSE, "path"),
          Elf(<<>>, 0, TRUE, "none"), Elf(<<Seg(4, 1, 1, {})>>, 0, TRUE, "bad"),
          [Good EXCEPT !.kind = "other"], [Good EXCEPT !.valid = FALSE],
          [Good EXCEPT !.dyn = "bad"], [Good EXCEPT !.size = 1]}

MCInterpreters ==
    {Elf(<<Seg(4, 2, 3, {"X"}), Seg(7, 1, 2, {"W"})>>, 0, TRUE, "none"),
     [Good EXCEPT !.valid = FALSE]}

MCVectors == {NULL, <<>>, <<2>>, <<0>>, <<1, 3>>, <<2, 0>>, <<1, 1, 1>>}
=============================================================================

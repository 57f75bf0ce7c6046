--------------------------------- MODULE MCElf ---------------------------------
(* A root directory with programs of every kind load_elf_program tells apart:  *)
(* static and dynamic ones with a segment of every size and misalignment up    *)
(* to two pages, and interpreters that are right, missing, not programs, or    *)
(* interpreted themselves.                                                     *)
EXTENDS Elf

MCMissing == <<"missing">>

Load(v, f, m) == [type |-> PT_LOAD, vaddr |-> v, filesz |-> f, memsz |-> m, path |-> MCMissing]
Interp(path) == [type |-> PT_INTERP, vaddr |-> 0, filesz |-> 0, memsz |-> 0, path |-> path]
Phdr(v) == [type |-> PT_PHDR, vaddr |-> v, filesz |-> 0, memsz |-> 0, path |-> MCMissing]
Dynamic == [type |-> 2, vaddr |-> 0, filesz |-> 0, memsz |-> 0, path |-> MCMissing]

File(type, abi, entry, phent, phdrs) ==
    [readable |-> TRUE, type |-> type, abi |-> abi, entry |-> entry, phent |-> phent,
     phdrs |-> phdrs]

Linker == <<"ld.so">>
Empty == <<"empty">>
Foreign == <<"foreign">>
Object == <<"object">>
Chained == <<"chained">>

Named == (Linker :> File(3, 0, 2, 56, <<Phdr(1), Load(0, 3, 3), Load(5, 2, 9)>>))
      @@ (Empty :> [File(0, 0, 0, 0, <<>>) EXCEPT !.readable = FALSE])
      @@ (Foreign :> File(1, 3, 4, 40, <<Load(0, 1, 1)>>))
      @@ (Object :> File(1, 0, 0, 40, <<>>))
      @@ (Chained :> File(3, 0, 3, 48, <<Load(0, 2, 2), Interp(Linker)>>))

\* The programs: what they are linked for, and one segment of each shape.
Shapes == {<<v, f, m>> \in {4, 5, 7} \X {0, 1, 3, 4, 6} \X {1, 3, 4, 6} : f <= m}
Targets == {MCMissing, Linker, Empty, Foreign, Object, Chained}

Dynamics == {<<"dynamic", s, Linker>> : s \in Shapes} \cup {<<"dynamic", <<5, 1, 3>>, t>> : t \in Targets}
Statics == {<<"static", s>> : s \in Shapes}
Hidden == {<<"no phdr", s, Linker, 0>> : s \in Shapes}

Program(name) ==
    LET load == Load(name[2][1], name[2][2], name[2][3]) IN
    CASE name \in Dynamics ->
            File(3, 0, 6, 64, <<Phdr(5), Interp(name[3]), Load(0, 2, 3), load, Dynamic>>)
      [] name \in Statics -> File(2, 3, 7, 64, <<Load(16, 4, 4), load>>)
      [] name \in Hidden -> File(3, 0, 6, 64, <<load, Interp(Linker)>>)

MCFiles == Named @@ [name \in Dynamics \cup Statics \cup Hidden |-> Program(name)]
================================================================================

----------------------------- MODULE MCFileLoader -----------------------------
(***************************************************************************)
(* Two loaders, and images that prefer the same base, bases that overlap   *)
(* and base zero: a PE image with words of all widths; one whose sections  *)
(* and words overlap; one with a word across its end; one that is no PE    *)
(* file, with a header longer than the image; one with such a header and a *)
(* section outside; one of no size.                                        *)
(***************************************************************************)
EXTENDS FileLoader, TLC

Image(base, size, header, sections, pe, relocations) ==
    [base |-> base, size |-> size, header |-> header, sections |-> sections,
     pe |-> pe, relocations |-> relocations]
At(va, data) == [va |-> va, data |-> data]
Relocation(pos, type) == [pos |-> pos, type |-> type]

AllWidths ==
    Image(3, 8, <<1>>, <<At(1, <<0, 1, 1, 0, 1, 1, 1>>)>>, TRUE,
          <<Relocation(1, DIR64), Relocation(5, ABSOLUTE), Relocation(5, HIGH), Relocation(6, HIGHLOW)>>)
Overlaid ==
    Image(3, 4, <<1, 1>>, <<At(1, <<0, 1>>), At(2, <<>>), At(2, <<0, 1>>)>>, TRUE,
          <<Relocation(0, LOW), Relocation(1, HIGHLOW), Relocation(2, HIGHLOW), Relocation(3, LOW)>>)
Across == Image(0, 3, <<>>, <<At(1, <<1, 1>>)>>, TRUE, <<Relocation(1, DIR64)>>)
NotPE == Image(5, 4, <<1, 0, 0, 0, 1>>, <<At(2, <<1>>)>>, FALSE, <<Relocation(1, HIGHLOW)>>)
Outside == Image(4, 3, <<1, 0, 0, 1>>, <<At(1, <<1>>), At(2, <<1, 1>>)>>, TRUE, <<>>)
Empty == Image(4, 0, <<>>, <<>>, TRUE, <<>>)

MCImages == {AllWidths, Overlaid, Across, NotPE, Outside, Empty}
MCSymmetry == Permutations(Loaders)
MCElsewhere == {4}
MCPlatforms == {"posix", "win32"}
=============================================================================

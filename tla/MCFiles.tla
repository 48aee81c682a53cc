------------------------------- MODULE MCFiles -------------------------------
(* Files with a disk for TLC.                                              *)
EXTENDS Files, TLC

Entry(name, dir, first, size) == [name |-> name, dir |-> dir, first |-> first, size |-> size]

Fat(a, b, c, d) == (0 :> a @@ 1 :> b @@ 2 :> c @@ 3 :> d)

\* The FAT is in sectors 1 and 2, the root directory in 3 and 4; f has the
\* clusters 2 and 5, g in directory d the cluster 3, d itself 4 and 6.
TestDisk ==
    1 :> Fat(8, 8, 5, 8) @@ 2 :> Fat(6, 8, 8, 8)
    @@ 3 :> <<Entry("F", FALSE, 2, 3)>>
    @@ 4 :> <<Entry("D", TRUE, 4, 0), Entry("H", FALSE, 7, 1)>>
    @@ 7 :> <<>>
    @@ 9 :> <<Entry("G", FALSE, 3, 2)>>

\* string_to_fatname makes upper case of a name.
Upper == "f" :> "F" @@ "d" :> "D" @@ "g" :> "G" @@ "h" :> "H" @@ "x" :> "X"

TestPaths ==
    {<<>>, <<"f">>, <<"h">>, <<"d", "g">>, <<"x">>}

ClientSymmetry == Permutations(Client)

\* The disk is such as ReadsAreRight is about.
ASSUME TestDiskIsSound == DiskIsSound
=============================================================================

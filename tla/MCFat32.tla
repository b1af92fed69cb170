------------------------------ MODULE MCFat32 -------------------------------
(* Two names, three clusters of two units, files of up to three units: one *)
(* file can fill the volume but for one cluster, so the second runs out of *)
(* it half-way.  With MCTwo the FAT has an entry more than the volume has  *)
(* clusters.                                                               *)
EXTENDS Fat32, TLC

CONSTANTS f, g
MCNames == {f, g}
MCSymmetry == Permutations(MCNames)   \* no definition tells names apart
MCTexts == {<<>>, <<1>>, <<1, 2, 3>>}
MCShort == {<<>>, <<1, 2, 3>>}
MCClusters == 3 .. 5
MCTwo == 3 .. 4
MCAll == {"create", "write", "append", "delete", "mkdir", "cp", "mv"}
MCGrowing == {"create", "append", "mkdir"}
=============================================================================

-------------------------- MODULE MCSchemaMigration --------------------------
(* Instances of SchemaMigration for TLC: a release, a successor, a branch with  *)
(* another migration, one that merges both (after the branch, its second        *)
(* version is applied late), and one that edits an applied file.                *)
EXTENDS SchemaMigration, TLC

CONSTANTS first, second, branch, merged, edited

FilesDef ==
    (first :> {<<1, 1>>}) @@ (second :> {<<1, 1>>, <<2, 1>>})
    @@ (branch :> {<<1, 1>>, <<3, 1>>}) @@ (merged :> {<<1, 1>>, <<2, 1>>, <<3, 1>>})
    @@ (edited :> {<<1, 2>>, <<2, 1>>})
===============================================================================

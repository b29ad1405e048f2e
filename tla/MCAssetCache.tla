---------------------------- MODULE MCAssetCache -----------------------------
(***************************************************************************)
(* Instances of AssetCache for TLC; the .cfg file gives the other          *)
(* constants.                                                              *)
(***************************************************************************)
EXTENDS AssetCache, TLC

CONSTANTS kernel, squashfs

MCAsset == {kernel, squashfs}
MCOrder == <<kernel, squashfs>>
Upstream == Permutations(Release)
=============================================================================

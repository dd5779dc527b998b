---------------------------- MODULE MCAssetCache ----------------------------
(* Two processes and three of the four files: one artifact whose content is *)
(* not validated, pglite.data, which is, and the manifest.                  *)
EXTENDS AssetCache, TLC

CONSTANTS wasm, data, manifest
MCFiles == <<wasm, data, manifest>>
\* Processes are interchangeable.
Symmetry == Permutations(Procs)
============================================================================

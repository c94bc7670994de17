---------------------------- MODULE MCStorageHome ----------------------------
(* Instances of StorageHome for TLC.                                        *)
EXTENDS StorageHome, TLC

CONSTANTS s1, s2, o1, o2, v1, v2

(* Sessions and short pids are alike, and so are states: none is named in  *)
(* the specification.                                                      *)
Alike ==
    Permutations(Sessions) \cup Permutations(ShortPids) \cup Permutations(States)
=============================================================================
